--------------------------- MODULE SurfaceProofs ----------------------------
(***************************************************************************)
(* Proofs about SurfaceCache and SurfaceLifecycle, for any number of       *)
(* surfaces, any size of the cache, any amount of memory and any number of *)
(* outstanding copies; and at the end about SurfaceAccess, for any number  *)
(* of pixels and colours, any size of tiles and any number of boxes above  *)
(* which the extents are taken, as long as regions prepared together stay  *)
(* below it.                                                               *)
(***************************************************************************)
EXTENDS SurfaceLifecycle, SurfaceCache, SurfaceAccess, SequenceTheorems,
        FiniteSetTheorems, WellFoundedInduction, TLAPS

-----------------------------------------------------------------------------
(* The array and the loops over it.                                        *)

LEMMA Least ==
  ASSUME NEW T \in SUBSET Nat, T # {}
  PROVE  Min(T) \in T /\ \A y \in T : Min(T) <= y
<1>1. PICK x \in T : \A y \in T : <<y, x>> \notin OpToRel(<, Nat)
  BY NatLessThanWellFounded, WFMin
<1>2. ASSUME NEW y \in T PROVE x <= y
  <2>1. <<y, x>> \notin {ss \in Nat \X Nat : ss[1] < ss[2]}
    BY <1>1, Zenon DEF OpToRel
  <2> QED BY <2>1
<1> QED BY <1>2, Zenon DEF Min

LEMMA Greatest ==
  ASSUME NEW n \in Nat, NEW T \in SUBSET (0 .. n), T # {}
  PROVE  Max(T) \in T /\ \A y \in T : y <= Max(T)
<1> DEFINE S == {n - c : c \in T}
<1>1. S \in SUBSET Nat /\ S # {}
  <2>1. ASSUME NEW c \in T PROVE n - c \in Nat
    OBVIOUS
  <2> QED BY <2>1
<1>2. Min(S) \in S /\ \A y \in S : Min(S) <= y
  <2> HIDE DEF S
  <2> QED BY <1>1, Least
<1>3. PICK x \in T : Min(S) = n - x
  BY <1>2
<1>4. ASSUME NEW y \in T PROVE x >= y
  <2>1. n - y \in S
    OBVIOUS
  <2>2. n - x <= n - y
    BY <1>2, <1>3, <2>1
  <2> QED BY <2>2
<1> QED BY <1>4, Zenon DEF Max

ArraysOf(S) == [Indices -> S \union {Null}]

(* No surface is in the array twice.                                       *)
Once(a) == \A i, j \in Indices : a[i] # Null /\ a[i] = a[j] => i = j

(* What is in both comes in the same order in them.                        *)
SameOrder(a, b) ==
  \A k, l, m, n \in Indices :
    a[k] # Null /\ a[k] = b[m] /\ a[l] # Null /\ a[l] = b[n] => (k < l <=> m < n)

(* One turn of the loop that closes the gaps, P being what it has done at  *)
(* the higher indices.                                                     *)
Turn(a, P, i) ==
  IF i = NCached THEN [array |-> a, delta |-> 0]
  ELSE LET p == P[i + 1] IN
       IF p.array[i] = Null THEN [p EXCEPT !.delta = @ + 1]
       ELSE IF p.delta = 0 THEN p
       ELSE [p EXCEPT !.array = Shift(@, i, p.delta)]

Loop(a, P) == P = [i \in 0 .. NCached |-> Turn(a, P, i)]

(* What holds when the loop has come down to i: the gaps it has met are    *)
(* together at i, what it has not met is as it was, nothing is lost.       *)
Closed(S, a, p, i) ==
  /\ p = [array |-> p.array, delta |-> p.delta]
  /\ p.array \in ArraysOf(S) /\ p.delta \in Nat /\ p.delta <= NCached - i
  /\ \A k \in Indices : k < i => p.array[k] = a[k]
  /\ \A k \in Indices : k >= i => (p.array[k] = Null <=> k < i + p.delta)
  /\ p.delta = 0 => p.array = a
  /\ Cached(p.array) = Cached(a)
  /\ Once(p.array)
  /\ SameOrder(a, p.array)

LEMMA TurnCloses ==
  ASSUME CacheArrayAssumption, NEW S, Null \notin S, NEW a \in ArraysOf(S), Once(a),
         NEW P, NEW i \in Indices, Closed(S, a, P[i + 1], i + 1)
  PROVE  Closed(S, a, Turn(a, P, i), i)
<1> DEFINE p == P[i + 1]
           t == Turn(a, P, i)
<1>0. NCached \in Nat \ {0} /\ i \in Nat /\ i < NCached /\ i # NCached
  BY DEF CacheArrayAssumption, Indices
<1>1. t = IF p.array[i] = Null THEN [p EXCEPT !.delta = @ + 1]
          ELSE IF p.delta = 0 THEN p
          ELSE [p EXCEPT !.array = Shift(@, i, p.delta)]
  BY <1>0 DEF Turn
<1> SUFFICES Closed(S, a, t, i)
  OBVIOUS
<1> HIDE DEF p, t
<1>2. Closed(S, a, p, i + 1)
  BY DEF p
<1>3. CASE p.array[i] = Null
  <2>1. t = [array |-> p.array, delta |-> p.delta + 1]
    BY <1>1, <1>2, <1>3 DEF Closed
  <2> QED BY <1>0, <1>2, <1>3, <2>1 DEF Closed, Indices
<1>4. CASE p.array[i] # Null /\ p.delta = 0
  BY <1>0, <1>1, <1>2, <1>4 DEF Closed, Indices
<1>5. CASE p.array[i] # Null /\ p.delta # 0
  <2> DEFINE d == p.delta
             b == p.array
             c == Shift(b, i, d)
  <2>1. t = [array |-> c, delta |-> d]
    BY <1>1, <1>2, <1>5 DEF Closed
  <2>2. /\ b \in ArraysOf(S) /\ d \in Nat \ {0} /\ d <= NCached - (i + 1)
        /\ \A k \in Indices : k < i + 1 => b[k] = a[k]
        /\ \A k \in Indices : k >= i + 1 => (b[k] = Null <=> k < i + 1 + d)
        /\ Cached(b) = Cached(a) /\ Once(b) /\ SameOrder(a, b) /\ b[i] # Null
    BY <1>2, <1>5 DEF Closed
  <2> HIDE DEF d, b, c
  <2>3. i + d \in Indices /\ i + d # i /\ i + d >= i + 1
    BY <1>0, <2>2 DEF Indices
  <2>4. b[i + d] = Null
    BY <1>0, <2>2, <2>3
  <2>5. \A k \in Indices : c[k] = IF k = i THEN Null ELSE IF k = i + d THEN b[i] ELSE b[k]
    BY <2>2, <2>3 DEF c, Shift, ArraysOf
  <2>6. c \in ArraysOf(S)
    BY <2>2, <2>3 DEF c, Shift, ArraysOf
  <2>7. Cached(c) = Cached(b)
    <3>1. ASSUME NEW s \in Cached(c) PROVE s \in Cached(b)
      BY <2>5 DEF Cached, Occupied
    <3>2. ASSUME NEW s \in Cached(b) PROVE s \in Cached(c)
      <4>1. PICK k \in Indices : b[k] = s /\ s # Null
        BY <3>2 DEF Cached, Occupied
      <4>2. CASE k = i
        BY <2>3, <2>5, <4>1, <4>2 DEF Cached, Occupied
      <4>3. CASE k # i
        BY <2>4, <2>5, <4>1, <4>3 DEF Cached, Occupied
      <4> QED BY <4>2, <4>3
    <3> QED BY <3>1, <3>2
  <2>8. Once(c)
    BY <2>2, <2>3, <2>4, <2>5 DEF Once
  <2>9. ASSUME NEW k \in Indices, k >= i PROVE c[k] = Null <=> k < i + d
    BY <1>0, <2>2, <2>3, <2>5, <2>9 DEF Indices
  <2>10. ASSUME NEW k \in Indices, k < i PROVE c[k] = a[k]
    <3>1. k < i + 1 /\ k # i /\ k # i + d
      BY <1>0, <2>2, <2>3, <2>10 DEF Indices
    <3> QED BY <2>2, <2>5, <3>1
  <2>11. SameOrder(a, c)
    <3> DEFINE f(m) == IF m = i + d THEN i ELSE m
    <3>1. ASSUME NEW m \in Indices, c[m] # Null
          PROVE  f(m) \in Indices /\ c[m] = b[f(m)] /\ (m < i \/ m = i + d \/ m >= i + 1 + d)
      BY <1>0, <2>2, <2>3, <2>5, <3>1 DEF Indices
    <3>2. ASSUME NEW m \in Indices, NEW n \in Indices, c[m] # Null, c[n] # Null
          PROVE  m < n <=> f(m) < f(n)
      BY <1>0, <2>2, <3>1, <3>2 DEF Indices
    <3>3. ASSUME NEW k \in Indices, NEW l \in Indices, NEW m \in Indices, NEW n \in Indices,
                 a[k] # Null, a[k] = c[m], a[l] # Null, a[l] = c[n]
          PROVE  k < l <=> m < n
      <4>1. f(m) \in Indices /\ f(n) \in Indices /\ c[m] = b[f(m)] /\ c[n] = b[f(n)]
        BY <3>1, <3>3
      <4>2. m < n <=> f(m) < f(n)
        BY <3>2, <3>3
      <4> HIDE DEF f
      <4>3. k < l <=> f(m) < f(n)
        BY <2>2, <3>3, <4>1 DEF SameOrder
      <4> QED BY <4>2, <4>3
    <3> QED BY <3>3 DEF SameOrder
  <2>12. \A k \in Indices : k >= i => (c[k] = Null <=> k < i + d)
    BY <2>9
  <2> QED BY <1>0, <2>1, <2>2, <2>6, <2>7, <2>8, <2>10, <2>11, <2>12 DEF Closed
<1> QED BY <1>3, <1>4, <1>5

LEMMA LoopCloses ==
  ASSUME CacheArrayAssumption, NEW S, Null \notin S, NEW a \in ArraysOf(S), Once(a),
         NEW P, Loop(a, P)
  PROVE  \A i \in 0 .. NCached : Closed(S, a, P[i], i)
<1> DEFINE T == {n \in 0 .. NCached : ~Closed(S, a, P[NCached - n], NCached - n)}
<1>0. NCached \in Nat \ {0}
  BY DEF CacheArrayAssumption
<1>1. ASSUME T # {} PROVE FALSE
  <2> DEFINE n == Min(T)
             i == NCached - n
  <2>0. T \in SUBSET Nat
    OBVIOUS
  <2>1. n \in T /\ \A m \in T : n <= m
    <3> HIDE DEF T
    <3> QED BY <1>1, <2>0, Least
  <2> HIDE DEF n
  <2>2. P[i] = Turn(a, P, i)
    BY <1>0, <2>1 DEF Loop
  <2>3. CASE n = 0
    <3>1. P[NCached] = [array |-> a, delta |-> 0]
      BY <1>0, <2>2, <2>3 DEF Turn
    <3>2. SameOrder(a, a)
      BY DEF SameOrder, Once
    <3>3. Closed(S, a, [array |-> a, delta |-> 0], NCached)
      BY <1>0, <3>2 DEF Closed, Indices
    <3> QED BY <1>0, <2>1, <2>3, <3>1, <3>3
  <2>4. CASE n # 0
    <3>1. n - 1 \in 0 .. NCached /\ n - 1 \notin T
      BY <1>0, <2>1, <2>4
    <3>2. i \in Indices /\ i + 1 = NCached - (n - 1)
      BY <1>0, <2>1, <2>4 DEF Indices
    <3>3. Closed(S, a, P[i + 1], i + 1)
      BY <3>1, <3>2
    <3>4. Closed(S, a, Turn(a, P, i), i)
      <4> HIDE DEF i
      <4> QED BY <3>2, <3>3, TurnCloses
    <3> QED BY <2>1, <2>2, <3>4
  <2> QED BY <2>3, <2>4
<1>2. ASSUME NEW i \in 0 .. NCached PROVE Closed(S, a, P[i], i)
  <2>1. NCached - i \in 0 .. NCached /\ NCached - (NCached - i) = i
    BY <1>0
  <2>2. NCached - i \notin T
    BY <1>1
  <2> QED BY <2>1, <2>2
<1> QED BY <1>2

LEMMA LoopRuns == ASSUME CacheArrayAssumption, NEW a PROVE \E P : Loop(a, P)
<1> DEFINE Part(n, P) == P = [i \in NCached - n .. NCached |-> Turn(a, P, i)]
           T == {n \in 0 .. NCached : ~\E P : Part(n, P)}
<1>0. NCached \in Nat \ {0}
  BY DEF CacheArrayAssumption
<1>1. ASSUME T # {} PROVE FALSE
  <2> DEFINE n == Min(T)
  <2>1. /\ n \in 0 .. NCached /\ ~\E P : Part(n, P)
        /\ \A m \in 0 .. NCached : m < n => \E P : Part(m, P)
    <3>1. T \in SUBSET Nat
      OBVIOUS
    <3> HIDE DEF T, Part
    <3>2. n \in T /\ \A m \in T : n <= m
      BY <1>1, <3>1, Least
    <3> HIDE DEF n
    <3>3. n \in 0 .. NCached /\ ~\E P : Part(n, P)
      BY <3>2 DEF T
    <3>4. ASSUME NEW m \in 0 .. NCached, m < n PROVE \E P : Part(m, P)
      <4>1. m \notin T
        BY <3>2, <3>3, <3>4
      <4> QED BY <4>1 DEF T
    <3> QED BY <3>3, <3>4
  <2> HIDE DEF n
  <2>2. CASE n = 0
    <3> DEFINE P == [i \in NCached .. NCached |-> [array |-> a, delta |-> 0]]
    <3>1. ASSUME NEW i \in NCached .. NCached PROVE Turn(a, P, i) = [array |-> a, delta |-> 0]
      <4>1. i = NCached
        BY <1>0
      <4> QED BY <4>1 DEF Turn
    <3>2. P = [i \in NCached - 0 .. NCached |-> Turn(a, P, i)]
      <4>1. NCached - 0 = NCached
        BY <1>0
      <4> QED BY <3>1, <4>1
    <3> QED BY <2>1, <2>2, <3>2
  <2>3. CASE n # 0
    <3>1. n - 1 \in 0 .. NCached /\ n - 1 < n /\ n \in 0 .. NCached
      BY <1>0, <2>1, <2>3
    <3>2. PICK P : Part(n - 1, P)
      BY <2>1, <3>1
    <3> DEFINE e == NCached - n
               Q == [i \in e .. NCached |-> IF i = e THEN Turn(a, P, i) ELSE P[i]]
    <3>3. ASSUME NEW i \in e .. NCached PROVE Turn(a, Q, i) = Turn(a, P, i)
      <4>1. CASE i = NCached
        BY <4>1 DEF Turn
      <4>2. CASE i # NCached
        <5>1. i + 1 \in e .. NCached /\ i + 1 # e
          BY <1>0, <3>1, <4>2
        <5>2. Q[i + 1] = P[i + 1]
          BY <5>1
        <5> HIDE DEF Q
        <5> QED BY <4>2, <5>2 DEF Turn
      <4> QED BY <4>1, <4>2
    <3>4. ASSUME NEW i \in e .. NCached PROVE Q[i] = Turn(a, P, i)
      <4>1. CASE i = e
        BY <4>1
      <4>2. CASE i # e
        <5>1. i \in NCached - (n - 1) .. NCached
          BY <1>0, <3>1, <4>2
        <5>2. P[i] = Turn(a, P, i)
          BY <3>2, <5>1
        <5> QED BY <4>2, <5>2
      <4> QED BY <4>1, <4>2
    <3>5. Q = [i \in e .. NCached |-> Turn(a, Q, i)]
      <4> DEFINE R == [i \in e .. NCached |-> Turn(a, Q, i)]
      <4>1. \A i \in e .. NCached : Q[i] = R[i]
        <5>1. ASSUME NEW i \in e .. NCached PROVE R[i] = Turn(a, P, i)
          BY <3>3
        <5> HIDE DEF Q, R, e
        <5> QED BY <3>4, <5>1
      <4>2. Q = [i \in e .. NCached |-> Q[i]] /\ R = [i \in e .. NCached |-> R[i]]
        OBVIOUS
      <4> SUFFICES Q = R
        OBVIOUS
      <4> HIDE DEF Q, R
      <4> QED BY <4>1, <4>2
    <3>6. Part(n, Q)
      BY <3>5
    <3> HIDE DEF Part, Q
    <3> QED BY <2>1, <3>6
  <2> QED BY <2>2, <2>3
<1>2. NCached \in 0 .. NCached /\ NCached - NCached = 0
  BY <1>0
<1>3. PICK P : Part(NCached, P)
  <2>1. NCached \notin T
    BY <1>1
  <2> QED BY <1>2, <2>1
<1> QED BY <1>2, <1>3 DEF Loop

LEMMA CompactCloses ==
  ASSUME CacheArrayAssumption, NEW S, Null \notin S, NEW a \in ArraysOf(S), Once(a)
  PROVE  Closed(S, a, Compact(a), 0)
<1> DEFINE L == CHOOSE P : P = [i \in 0 .. NCached |-> Turn(a, P, i)]
<1>1. Compact(a) = L[0]
  BY DEF Compact, Turn
<1>2. \E P : P = [i \in 0 .. NCached |-> Turn(a, P, i)]
  BY LoopRuns DEF Loop
<1>3. L = [i \in 0 .. NCached |-> Turn(a, L, i)]
  BY <1>2, Zenon
<1> HIDE DEF L
<1>4. 0 \in 0 .. NCached
  BY DEF CacheArrayAssumption
<1>5. \A i \in 0 .. NCached : Closed(S, a, L[i], i)
  BY <1>3, LoopCloses DEF Loop
<1> QED BY <1>1, <1>4, <1>5

(* C holds what B does, in the same order, with all its gaps at D and      *)
(* below; S goes into the highest of them, which makes it R.               *)
Stored(b, s, c, d, r) ==
  /\ Once(b) /\ Once(c) /\ Cached(c) = Cached(b) /\ SameOrder(b, c)
  /\ d \in Indices /\ \A k \in Indices : c[k] = Null <=> k <= d
  /\ \A k \in Indices : r[k] = IF k = d THEN s ELSE c[k]

(* Adding to the cache keeps all but the one evicted, and each once; there *)
(* is a gap to store into, as surface_add_to_cache asserts.                *)
LEMMA AddToCacheKeeps ==
  ASSUME CacheArrayAssumption, NEW S, Null \notin S, NEW a \in ArraysOf(S), Once(a),
         NEW s \in S, s \notin Cached(a)
  PROVE  /\ AddToCache(a, s) \in ArraysOf(S) /\ Once(AddToCache(a, s))
         /\ Cached(AddToCache(a, s)) = (Cached(a) \ {Evicted(a)}) \union {s}
         /\ Evicted(a) \in Cached(a) \union {Null}
         /\ Compact(WithoutOldest(a)).delta > 0
         /\ \E c, d : Stored(WithoutOldest(a), s, c, d, AddToCache(a, s))
<1> DEFINE b == WithoutOldest(a)
           p == Compact(b)
           v == Evicted(a)
           c == AddToCache(a, s)
<1>0. NCached \in Nat \ {0}
  BY DEF CacheArrayAssumption
<1>1. v \in Cached(a) \union {Null} /\ (IsFull(a) => v # Null)
  <2>1. CASE IsFull(a)
    <3>1. Occupied(a) \in SUBSET (0 .. NCached - 1) /\ 0 \in Occupied(a) /\ NCached - 1 \in Nat
      BY <1>0, <2>1 DEF IsFull, Indices
    <3>2. Max(Occupied(a)) \in Occupied(a)
      BY <3>1, Greatest
    <3> QED BY <2>1, <3>2 DEF Evicted, Cached, Occupied
  <2>2. CASE ~IsFull(a)
    BY <2>2 DEF Evicted
  <2> QED BY <2>1, <2>2
<1> HIDE DEF v
<1>2. /\ b \in ArraysOf(S) /\ Once(b)
      /\ Cached(b) = Cached(a) \ {v}
      /\ \E k \in Indices : b[k] = Null
  <2>1. b = [i \in Indices |-> IF a[i] = v THEN Null ELSE a[i]]
    BY DEF WithoutOldest, v
  <2> HIDE DEF b
  <2>2. b \in ArraysOf(S) /\ Once(b) /\ Cached(b) = Cached(a) \ {v}
    BY <2>1 DEF ArraysOf, Once, Cached, Occupied
  <2>3. \E k \in Indices : b[k] = Null
    <3>1. CASE IsFull(a)
      BY <1>1, <2>1, <3>1 DEF Cached, Occupied
    <3>2. CASE ~IsFull(a)
      BY <2>1, <3>2 DEF IsFull, Occupied
    <3> QED BY <3>1, <3>2
  <2> QED BY <2>2, <2>3
<1>3. Closed(S, b, p, 0)
  <2> HIDE DEF b
  <2> QED BY <1>2, CompactCloses
<1>4. c = [p.array EXCEPT ![p.delta - 1] = s]
  BY DEF AddToCache
<1> HIDE DEF b, p, c
<1>5. p.delta - 1 \in Indices /\ p.delta > 0 /\ p.array[p.delta - 1] = Null
  <2>1. p.delta # 0
    <3>1. PICK k \in Indices : b[k] = Null
      BY <1>2
    <3>2. k >= 0
      BY <1>0 DEF Indices
    <3>3. p.array[k] = Null <=> k < 0 + p.delta
      BY <1>3, <3>2 DEF Closed
    <3>4. p.delta = 0 => p.array = b
      BY <1>3 DEF Closed
    <3> QED BY <1>0, <3>1, <3>2, <3>3, <3>4 DEF Indices
  <2>2. p.delta - 1 \in Indices /\ p.delta - 1 >= 0 /\ p.delta - 1 < 0 + p.delta
    BY <1>0, <1>3, <2>1 DEF Closed, Indices
  <2> QED BY <1>3, <2>1, <2>2 DEF Closed
<1>6. \A k \in Indices : c[k] = IF k = p.delta - 1 THEN s ELSE p.array[k]
  BY <1>3, <1>4, <1>5 DEF Closed, ArraysOf
<1>7. c \in ArraysOf(S)
  BY <1>3, <1>4, <1>5 DEF Closed, ArraysOf
<1>8. s \notin Cached(p.array) /\ s # Null
  BY <1>0, <1>2, <1>3 DEF Closed
<1>9. Cached(c) = Cached(p.array) \union {s}
  <2>1. ASSUME NEW x \in Cached(c) PROVE x \in Cached(p.array) \union {s}
    BY <1>6 DEF Cached, Occupied
  <2>2. ASSUME NEW x \in Cached(p.array) PROVE x \in Cached(c)
    BY <1>5, <1>6 DEF Cached, Occupied
  <2>3. s \in Cached(c)
    BY <1>5, <1>6, <1>8 DEF Cached, Occupied
  <2> QED BY <2>1, <2>2, <2>3
<1>10. Once(c)
  BY <1>3, <1>6, <1>8 DEF Once, Closed, Cached, Occupied
<1>11. \A k \in Indices : p.array[k] = Null <=> k <= p.delta - 1
  BY <1>0, <1>3 DEF Closed, Indices
<1>12. Stored(b, s, p.array, p.delta - 1, c)
  BY <1>2, <1>3, <1>5, <1>6, <1>11 DEF Closed, Stored
<1>13. \E e, d : Stored(b, s, e, d, c)
  BY <1>12, Zenon
<1>14. Cached(c) = (Cached(a) \ {v}) \union {s}
  BY <1>2, <1>3, <1>9 DEF Closed
<1> QED BY <1>1, <1>5, <1>7, <1>10, <1>13, <1>14 DEF b, p, c, v

(* A hit takes out the surface it finds.                                   *)
LEMMA GetFromCacheTakes ==
  ASSUME CacheArrayAssumption, NEW S, NEW a \in ArraysOf(S), Once(a), NEW suits, Found(a, suits) # {}
  PROVE  /\ GetFromCache(a, suits) \in ArraysOf(S) /\ Once(GetFromCache(a, suits))
         /\ Cached(GetFromCache(a, suits)) = Cached(a) \ {a[Hit(a, suits)]}
         /\ a[Hit(a, suits)] \in Cached(a)
<1> DEFINE h == Hit(a, suits)
           c == GetFromCache(a, suits)
<1>1. h \in Occupied(a)
  <2>1. Found(a, suits) \in SUBSET Nat
    BY DEF Found, Occupied, Indices, CacheArrayAssumption
  <2>2. h \in Found(a, suits)
    BY <2>1, Least DEF Hit
  <2> QED BY <2>2 DEF Found
<1>2. c = [a EXCEPT ![h] = Null]
  BY DEF GetFromCache
<1> HIDE DEF h, c
<1>3. h \in Indices /\ a[h] # Null
  BY <1>1 DEF Occupied
<1>4. c \in ArraysOf(S) /\ \A k \in Indices : c[k] = IF k = h THEN Null ELSE a[k]
  BY <1>2, <1>3 DEF ArraysOf
<1>5. Once(c) /\ Cached(c) = Cached(a) \ {a[h]} /\ a[h] \in Cached(a)
  BY <1>3, <1>4 DEF Once, Cached, Occupied
<1> QED BY <1>4, <1>5 DEF h, c

-----------------------------------------------------------------------------
(* The array read as a list: E names the occupied places in their order.   *)
Enumerates(a, n, e) ==
  /\ n \in Nat /\ e \in [1 .. n -> Indices]
  /\ \A k, l \in 1 .. n : k < l => e[k] < e[l]
  /\ \A i \in Indices : a[i] # Null <=> \E k \in 1 .. n : e[k] = i

LEMMA ListIs ==
  ASSUME CacheArrayAssumption, NEW a, NEW n, NEW e, Enumerates(a, n, e)
  PROVE  Cardinality(Occupied(a)) = n /\ ListOf(a) = [k \in 1 .. n |-> a[e[k]]]
<1>0. /\ n \in Nat /\ e \in [1 .. n -> Indices] /\ Indices \subseteq Nat
      /\ \A k, l \in 1 .. n : k < l => e[k] < e[l]
      /\ Occupied(a) = {i \in Indices : \E k \in 1 .. n : e[k] = i}
  BY DEF Enumerates, Occupied, Indices, CacheArrayAssumption
<1>a. ASSUME NEW k \in 1 .. n, NEW l \in 1 .. n
      PROVE  (e[l] = e[k] => l = k) /\ (e[l] <= e[k] <=> l <= k)
  <2>1. e[k] \in Nat /\ e[l] \in Nat /\ k \in Nat /\ l \in Nat
    <3>1. e[k] \in Indices /\ e[l] \in Indices
      BY <1>0
    <3>2. Indices \subseteq Nat /\ n \in Nat
      BY <1>0
    <3>3. e[k] \in Nat /\ e[l] \in Nat
      BY <3>1, <3>2
    <3>4. k \in Nat /\ l \in Nat
      BY <3>2
    <3> QED BY <3>3, <3>4
  <2>2. (k < l => e[k] < e[l]) /\ (l < k => e[l] < e[k])
    BY <1>0
  <2>3. k < l \/ l < k \/ k = l
    BY <2>1
  <2> QED BY <2>1, <2>2, <2>3
<1>1. ASSUME NEW k \in 0 .. n, NEW T, T = {e[l] : l \in 1 .. k}
      PROVE  Cardinality(T) = k
  <2> DEFINE f == [l \in 1 .. k |-> e[l]]
  <2>1. f \in Bijection(1 .. k, T)
    <3>1. f \in [1 .. k -> T] /\ \A t \in T : \E l \in 1 .. k : f[l] = t
      BY <1>1
    <3>2. ASSUME NEW l \in 1 .. k, NEW m \in 1 .. k, f[l] = f[m] PROVE l = m
      <4>1. l \in 1 .. n /\ m \in 1 .. n /\ e[l] = e[m]
        BY <1>0, <1>1, <3>2
      <4> QED BY <1>a, <4>1
    <3> HIDE DEF f
    <3> QED BY <3>1, <3>2 DEF Bijection, Injection, Surjection, IsInjective
  <2>2. IsFiniteSet(1 .. k) /\ Cardinality(1 .. k) = k
    BY <1>0, <1>1, FS_Interval
  <2> HIDE DEF f
  <2> QED BY <2>1, <2>2, FS_Bijection DEF ExistsBijection
<1>2. ASSUME NEW k \in 1 .. n PROVE Rank(a, e[k]) = k
  <2>1. {j \in Occupied(a) : j <= e[k]} = {e[l] : l \in 1 .. k}
    <3>1. ASSUME NEW l \in 1 .. n PROVE e[l] <= e[k] <=> l <= k
      BY <1>a
    <3>2. 1 .. k \subseteq 1 .. n /\ \A l \in 1 .. n : l \in 1 .. k <=> l <= k
      BY <1>0, <1>2
    <3>3. \A j : j \in Occupied(a) <=> \E l \in 1 .. n : e[l] = j
      BY <1>0
    <3> QED BY <3>1, <3>2, <3>3
  <2> QED BY <1>1, <1>2, <2>1 DEF Rank
<1>3. Cardinality(Occupied(a)) = n
  <2>1. Occupied(a) = {e[l] : l \in 1 .. n}
    BY <1>0
  <2> QED BY <1>0, <1>1, <2>1
<1>4. ASSUME NEW k \in 1 .. n PROVE (CHOOSE i \in Occupied(a) : Rank(a, i) = k) = e[k]
  <2>1. e[k] \in Occupied(a) /\ Rank(a, e[k]) = k
    BY <1>0, <1>2
  <2>2. ASSUME NEW i \in Occupied(a), Rank(a, i) = k PROVE i = e[k]
    <3>1. PICK l \in 1 .. n : e[l] = i
      BY <1>0
    <3> QED BY <1>2, <2>2, <3>1
  <2> QED BY <2>1, <2>2
<1>5. ListOf(a) = [k \in 1 .. n |-> a[CHOOSE i \in Occupied(a) : Rank(a, i) = k]]
  BY <1>3 DEF ListOf
<1> DEFINE place(k) == CHOOSE i \in Occupied(a) : Rank(a, i) = k
<1>6. \A k \in 1 .. n : place(k) = e[k]
  BY <1>4
<1>7. ListOf(a) = [k \in 1 .. n |-> a[place(k)]]
  BY <1>5
<1> HIDE DEF place
<1> QED BY <1>3, <1>6, <1>7

(* Arrays that hold the same in the same order are the same list.          *)
LEMMA SameList ==
  ASSUME CacheArrayAssumption, NEW a, NEW b, Once(a), Once(b), Cached(a) = Cached(b),
         SameOrder(a, b), NEW n, NEW e, Enumerates(a, n, e)
  PROVE  \E f : Enumerates(b, n, f) /\ \A k \in 1 .. n : b[f[k]] = a[e[k]]
<1>0. /\ n \in Nat /\ e \in [1 .. n -> Indices]
      /\ \A k, l \in 1 .. n : k < l => e[k] < e[l]
      /\ \A i \in Indices : a[i] # Null <=> \E k \in 1 .. n : e[k] = i
  BY DEF Enumerates
<1> DEFINE place(k) == CHOOSE i \in Indices : b[i] = a[e[k]]
           f == [k \in 1 .. n |-> place(k)]
<1>1. ASSUME NEW k \in 1 .. n
      PROVE  f[k] \in Indices /\ b[f[k]] = a[e[k]] /\ e[k] \in Indices /\ a[e[k]] # Null
  <2>1. e[k] \in Indices /\ a[e[k]] # Null
    BY <1>0
  <2>2. a[e[k]] \in Cached(a)
    BY <2>1 DEF Cached, Occupied
  <2>3. \E i \in Indices : b[i] = a[e[k]]
    BY <2>2 DEF Cached, Occupied
  <2>4. place(k) \in Indices /\ b[place(k)] = a[e[k]]
    BY <2>3
  <2> QED BY <2>1, <2>4
<1> HIDE DEF place
<1>2. f \in [1 .. n -> Indices]
  BY <1>1
<1> HIDE DEF f
<1>3. ASSUME NEW k \in 1 .. n, NEW l \in 1 .. n, k < l PROVE f[k] < f[l]
  <2>1. e[k] < e[l]
    BY <1>0, <1>3
  <2> QED BY <1>1, <2>1 DEF SameOrder
<1>4. ASSUME NEW i \in Indices, b[i] # Null PROVE \E k \in 1 .. n : f[k] = i
  <2>1. PICK j \in Indices : a[j] = b[i]
    BY <1>4 DEF Cached, Occupied
  <2>2. PICK k \in 1 .. n : e[k] = j
    BY <1>0, <1>4, <2>1
  <2> QED BY <1>1, <1>4, <2>1, <2>2 DEF Once
<1>5. Enumerates(b, n, f)
  BY <1>0, <1>1, <1>2, <1>3, <1>4 DEF Enumerates
<1> QED BY <1>1, <1>5

LEMMA FullIs ==
  ASSUME CacheArrayAssumption, NEW a, NEW n, NEW e, Enumerates(a, n, e)
  PROVE  IsFull(a) <=> n = NCached
<1>1. IsFiniteSet(Indices) /\ Cardinality(Indices) = NCached
  BY FS_Interval DEF CacheArrayAssumption, Indices
<1>2. Cardinality(Occupied(a)) = n /\ Occupied(a) \in SUBSET Indices
  BY ListIs DEF Occupied
<1>3. Cardinality(Indices) = Cardinality(Occupied(a)) => Indices = Occupied(a)
  BY <1>1, <1>2, FS_Subset
<1> QED BY <1>1, <1>2, <1>3 DEF IsFull

(* The one given up is the last of the list.                               *)
LEMMA OldestGoes ==
  ASSUME CacheArrayAssumption, NEW a, Once(a), NEW n, NEW e, Enumerates(a, n, e), IsFull(a)
  PROVE  /\ n \in Nat \ {0} /\ Evicted(a) = a[e[n]]
         /\ \E f : /\ Enumerates(WithoutOldest(a), n - 1, f)
                   /\ \A k \in 1 .. n - 1 : WithoutOldest(a)[f[k]] = a[e[k]]
<1>0. NCached \in Nat \ {0} /\ Indices = 0 .. NCached - 1 /\ n = NCached
  BY FullIs DEF CacheArrayAssumption, Indices
<1>1. /\ e \in [1 .. n -> Indices]
      /\ \A k, l \in 1 .. n : k < l => e[k] < e[l]
      /\ \A i \in Indices : a[i] # Null <=> \E k \in 1 .. n : e[k] = i
  BY DEF Enumerates
<1>2. n \in 1 .. n /\ e[n] \in Indices /\ a[e[n]] # Null
  BY <1>0, <1>1
<1>3. Max(Occupied(a)) = e[n]
  <2>1. Occupied(a) \in SUBSET (0 .. NCached - 1) /\ e[n] \in Occupied(a) /\ NCached - 1 \in Nat
    BY <1>0, <1>2 DEF Occupied
  <2>2. Max(Occupied(a)) \in Occupied(a) /\ e[n] <= Max(Occupied(a))
    BY <2>1, Greatest
  <2>3. PICK k \in 1 .. n : e[k] = Max(Occupied(a))
    BY <1>1, <2>2 DEF Occupied
  <2>4. CASE k = n
    BY <2>3, <2>4
  <2>5. CASE k # n
    <3>1. k < n
      BY <1>0, <2>5
    <3>2. e[k] < e[n] /\ e[k] \in Indices
      BY <1>1, <1>2, <3>1
    <3> QED BY <1>0, <1>2, <2>2, <2>3, <3>2
  <2> QED BY <2>4, <2>5
<1>4. Evicted(a) = a[e[n]]
  BY <1>3 DEF Evicted
<1> DEFINE b == WithoutOldest(a)
           f == [k \in 1 .. n - 1 |-> e[k]]
<1>5. b = [i \in Indices |-> IF a[i] = a[e[n]] THEN Null ELSE a[i]]
  BY <1>4 DEF WithoutOldest
<1>6. \A i \in Indices : b[i] = IF i = e[n] THEN Null ELSE a[i]
  BY <1>2, <1>5 DEF Once
<1> HIDE DEF b
<1>7. ASSUME NEW k \in 1 .. n - 1
      PROVE  k \in 1 .. n /\ k < n /\ e[k] \in Indices /\ e[k] # e[n] /\ b[e[k]] = a[e[k]]
  <2>1. k \in 1 .. n /\ k < n
    BY <1>0, <1>7
  <2>2. e[k] \in Indices /\ e[k] < e[n]
    BY <1>1, <1>2, <2>1
  <2>3. e[k] # e[n]
    BY <1>0, <1>2, <2>2
  <2> QED BY <1>6, <2>1, <2>2, <2>3
<1>8. n - 1 \in Nat /\ f \in [1 .. n - 1 -> Indices]
  BY <1>0, <1>7
<1>9. \A k, l \in 1 .. n - 1 : k < l => f[k] < f[l]
  BY <1>1, <1>7
<1>10. ASSUME NEW i \in Indices PROVE b[i] # Null <=> \E k \in 1 .. n - 1 : f[k] = i
  <2>1. ASSUME b[i] # Null PROVE \E k \in 1 .. n - 1 : f[k] = i
    <3>1. i # e[n] /\ a[i] # Null
      BY <1>6, <2>1
    <3>2. PICK k \in 1 .. n : e[k] = i
      BY <1>1, <3>1
    <3>3. k \in 1 .. n - 1
      BY <1>0, <3>1, <3>2
    <3> QED BY <3>2, <3>3
  <2>2. ASSUME NEW k \in 1 .. n - 1, f[k] = i PROVE b[i] # Null
    <3>1. e[k] = i /\ k \in 1 .. n /\ b[i] = a[i]
      BY <1>7, <2>2
    <3> QED BY <1>1, <3>1
  <2> QED BY <2>1, <2>2
<1>11. Enumerates(b, n - 1, f)
  <2> HIDE DEF f
  <2> QED BY <1>8, <1>9, <1>10 DEF Enumerates
<1>12. \E g : Enumerates(b, n - 1, g) /\ \A k \in 1 .. n - 1 : b[g[k]] = a[e[k]]
  <2>1. \A k \in 1 .. n - 1 : b[f[k]] = a[e[k]]
    BY <1>7
  <2> HIDE DEF f
  <2> QED BY <1>11, <2>1
<1> QED BY <1>0, <1>4, <1>12 DEF b

(* R is, in the places F, the list of B with S in front.                   *)
InFront(b, n, e, s, r, f) ==
  /\ Enumerates(r, n + 1, f)
  /\ \A k \in 1 .. n + 1 : r[f[k]] = IF k = 1 THEN s ELSE b[e[k - 1]]

(* What is stored in front comes first, what was there follows it.         *)
LEMMA StoredComesFirst ==
  ASSUME CacheArrayAssumption, NEW b, NEW s, s # Null, NEW c, NEW d, NEW r,
         Stored(b, s, c, d, r), NEW n, NEW e, Enumerates(b, n, e)
  PROVE  \E f : InFront(b, n, e, s, r, f)
<1>0. /\ d \in Indices /\ \A k \in Indices : c[k] = Null <=> k <= d
      /\ \A k \in Indices : r[k] = IF k = d THEN s ELSE c[k]
  BY DEF Stored
<1>1. PICK g : Enumerates(c, n, g) /\ \A k \in 1 .. n : c[g[k]] = b[e[k]]
  BY SameList DEF Stored
<1>2. /\ n \in Nat /\ g \in [1 .. n -> Indices] /\ Indices \subseteq Nat
      /\ \A k, l \in 1 .. n : k < l => g[k] < g[l]
      /\ \A i \in Indices : c[i] # Null <=> \E k \in 1 .. n : g[k] = i
  BY <1>1 DEF Enumerates, Indices
<1> DEFINE f == [k \in 1 .. n + 1 |-> IF k = 1 THEN d ELSE g[k - 1]]
<1>3. ASSUME NEW k \in 1 .. n
      PROVE  g[k] \in Indices /\ g[k] # d /\ d < g[k] /\ r[g[k]] = b[e[k]]
  <2>1. g[k] \in Indices /\ c[g[k]] # Null
    BY <1>2
  <2>2. ~(g[k] <= d)
    BY <1>0, <2>1
  <2>3. g[k] \in Nat /\ d \in Nat
    BY <1>0, <1>2, <2>1
  <2>4. d < g[k] /\ g[k] # d
    BY <2>2, <2>3
  <2> QED BY <1>0, <1>1, <2>1, <2>4
<1>4. ASSUME NEW k \in 1 .. n + 1, k # 1 PROVE k - 1 \in 1 .. n /\ f[k] = g[k - 1]
  BY <1>2, <1>4
<1>5. 1 \in 1 .. n + 1 /\ f[1] = d
  BY <1>2
<1>6. f \in [1 .. n + 1 -> Indices]
  BY <1>0, <1>3, <1>4
<1> HIDE DEF f
<1>7. ASSUME NEW k \in 1 .. n + 1, NEW l \in 1 .. n + 1, k < l PROVE f[k] < f[l]
  <2>1. l # 1 /\ l - 1 \in 1 .. n /\ f[l] = g[l - 1]
    BY <1>2, <1>4, <1>7
  <2>2. CASE k = 1
    BY <1>3, <1>5, <2>1, <2>2
  <2>3. CASE k # 1
    <3>1. k - 1 \in 1 .. n /\ f[k] = g[k - 1] /\ k - 1 < l - 1
      BY <1>2, <1>4, <1>7, <2>3
    <3> QED BY <1>2, <2>1, <3>1
  <2> QED BY <2>2, <2>3
<1>8. ASSUME NEW i \in Indices PROVE r[i] # Null <=> \E k \in 1 .. n + 1 : f[k] = i
  <2>1. ASSUME r[i] # Null PROVE \E k \in 1 .. n + 1 : f[k] = i
    <3>1. CASE i = d
      BY <1>5, <3>1
    <3>2. CASE i # d
      <4>1. PICK k \in 1 .. n : g[k] = i
        BY <1>0, <1>2, <2>1, <3>2
      <4>2. k + 1 \in 1 .. n + 1 /\ k + 1 # 1 /\ (k + 1) - 1 = k
        BY <1>2
      <4>3. f[k + 1] = i
        BY <1>4, <4>1, <4>2
      <4> QED BY <4>2, <4>3
    <3> QED BY <3>1, <3>2
  <2>2. ASSUME NEW k \in 1 .. n + 1, f[k] = i PROVE r[i] # Null
    <3>1. CASE k = 1
      BY <1>0, <1>5, <2>2, <3>1
    <3>2. CASE k # 1
      <4>1. k - 1 \in 1 .. n /\ g[k - 1] = i
        BY <1>4, <2>2, <3>2
      <4>2. c[i] # Null /\ i # d
        BY <1>2, <1>3, <4>1
      <4> QED BY <1>0, <4>2
    <3> QED BY <3>1, <3>2
  <2> QED BY <2>1, <2>2
<1>9. Enumerates(r, n + 1, f)
  BY <1>2, <1>6, <1>7, <1>8 DEF Enumerates
<1>10. ASSUME NEW k \in 1 .. n + 1 PROVE r[f[k]] = IF k = 1 THEN s ELSE b[e[k - 1]]
  <2>1. CASE k = 1
    BY <1>0, <1>5, <2>1
  <2>2. CASE k # 1
    BY <1>3, <1>4, <2>2
  <2> QED BY <2>1, <2>2
<1>11. InFront(b, n, e, s, r, f)
  BY <1>9, <1>10 DEF InFront
<1> QED BY <1>11

(* A hit leaves the list without the first that suits.                     *)
LEMMA HitIsTakenOut ==
  ASSUME CacheArrayAssumption, NEW S, NEW a \in ArraysOf(S), Once(a),
         NEW n, NEW e, Enumerates(a, n, e), NEW set, Found(a, set) # {}
  PROVE  \E h \in 1 .. n :
           /\ Hit(a, set) = e[h] /\ a[e[h]] \in set
           /\ \A k \in 1 .. h - 1 : a[e[k]] \notin set
           /\ \E f : /\ Enumerates(GetFromCache(a, set), n - 1, f)
                     /\ \A k \in 1 .. n - 1 :
                          GetFromCache(a, set)[f[k]] = IF k < h THEN a[e[k]] ELSE a[e[k + 1]]
<1>0. /\ n \in Nat /\ e \in [1 .. n -> Indices] /\ Indices \subseteq Nat
      /\ \A k, l \in 1 .. n : k < l => e[k] < e[l]
      /\ \A i \in Indices : a[i] # Null <=> \E k \in 1 .. n : e[k] = i
  BY DEF Enumerates, Indices, CacheArrayAssumption
<1>1. /\ Hit(a, set) \in Occupied(a) /\ a[Hit(a, set)] \in set
      /\ \A i \in Occupied(a) : a[i] \in set => Hit(a, set) <= i
  <2>1. Found(a, set) \in SUBSET Nat
    BY <1>0 DEF Found, Occupied
  <2>2. Hit(a, set) \in Found(a, set) /\ \A i \in Found(a, set) : Hit(a, set) <= i
    BY <2>1, Least DEF Hit
  <2> QED BY <2>2 DEF Found
<1>2. PICK h \in 1 .. n : e[h] = Hit(a, set)
  BY <1>0, <1>1 DEF Occupied
<1>3. ASSUME NEW k \in 1 .. h - 1 PROVE a[e[k]] \notin set
  <2>1. k \in 1 .. n /\ k < h
    BY <1>0
  <2>2. e[k] < e[h] /\ e[k] \in Indices /\ e[h] \in Indices
    BY <1>0, <2>1
  <2>3. ~(e[h] <= e[k])
    <3>1. e[k] \in Nat /\ e[h] \in Nat
      BY <1>0, <2>2
    <3> QED BY <2>2, <3>1
  <2>4. e[k] \in Occupied(a)
    BY <1>0, <2>1, <2>2 DEF Occupied
  <2> QED BY <1>1, <1>2, <2>3, <2>4
<1> DEFINE c == GetFromCache(a, set)
           up(k) == IF k < h THEN k ELSE k + 1
           f == [k \in 1 .. n - 1 |-> e[up(k)]]
<1>4. \A i \in Indices : c[i] = IF i = e[h] THEN Null ELSE a[i]
  BY <1>2 DEF GetFromCache, ArraysOf
<1> HIDE DEF c
<1>5. ASSUME NEW k \in 1 .. n - 1 PROVE up(k) \in 1 .. n /\ up(k) # h /\ f[k] = e[up(k)]
  BY <1>0
<1>6. ASSUME NEW k \in 1 .. n - 1, NEW l \in 1 .. n - 1, k < l PROVE up(k) < up(l)
  BY <1>0, <1>6
<1>7. ASSUME NEW k \in 1 .. n, k # h PROVE \E l \in 1 .. n - 1 : up(l) = k
  <2>1. CASE k < h
    BY <1>0, <2>1
  <2>2. CASE ~(k < h)
    <3>1. k - 1 \in 1 .. n - 1 /\ ~(k - 1 < h) /\ (k - 1) + 1 = k
      BY <1>0, <1>7, <2>2
    <3> QED BY <3>1
  <2> QED BY <2>1, <2>2
<1>8. ASSUME NEW k \in 1 .. n, k # h PROVE e[k] \in Indices /\ e[k] # e[h] /\ c[e[k]] = a[e[k]]
  <2>1. e[k] \in Indices /\ e[h] \in Indices /\ (k < h \/ h < k)
    BY <1>0, <1>8
  <2>2. e[k] < e[h] \/ e[h] < e[k]
    BY <1>0, <2>1
  <2>3. e[k] # e[h]
    <3>1. e[k] \in Nat /\ e[h] \in Nat
      BY <1>0, <2>1
    <3> QED BY <2>2, <3>1
  <2> QED BY <1>4, <2>1, <2>3
<1>9. ASSUME NEW k \in 1 .. n - 1
      PROVE  f[k] \in Indices /\ c[f[k]] = a[e[up(k)]]
  <2> HIDE DEF up, f
  <2> QED BY <1>5, <1>8
<1>10. f \in [1 .. n - 1 -> Indices]
  BY <1>9
<1>11. ASSUME NEW k \in 1 .. n - 1, NEW l \in 1 .. n - 1, k < l PROVE f[k] < f[l]
  <2>1. up(k) \in 1 .. n /\ up(l) \in 1 .. n /\ up(k) < up(l) /\ f[k] = e[up(k)] /\ f[l] = e[up(l)]
    BY <1>5, <1>6, <1>11
  <2> HIDE DEF up, f
  <2> QED BY <1>0, <2>1
<1>12. ASSUME NEW i \in Indices PROVE c[i] # Null <=> \E k \in 1 .. n - 1 : f[k] = i
  <2> HIDE DEF up, f
  <2>1. ASSUME c[i] # Null PROVE \E k \in 1 .. n - 1 : f[k] = i
    <3>1. i # e[h] /\ a[i] # Null
      BY <1>4, <2>1
    <3>2. PICK k \in 1 .. n : e[k] = i
      BY <1>0, <3>1
    <3>3. PICK l \in 1 .. n - 1 : up(l) = k
      BY <1>7, <3>1, <3>2
    <3> QED BY <1>5, <3>2, <3>3
  <2>2. ASSUME NEW k \in 1 .. n - 1, f[k] = i PROVE c[i] # Null
    <3>1. up(k) \in 1 .. n /\ e[up(k)] = i /\ c[i] = a[i]
      BY <1>5, <1>8, <2>2
    <3> QED BY <1>0, <3>1
  <2> QED BY <2>1, <2>2
<1>13. Enumerates(c, n - 1, f)
  <2>1. n - 1 \in Nat
    BY <1>0
  <2> HIDE DEF f
  <2> QED BY <1>10, <1>11, <1>12, <2>1 DEF Enumerates
<1>14. \A k \in 1 .. n - 1 : c[f[k]] = IF k < h THEN a[e[k]] ELSE a[e[k + 1]]
  BY <1>9
<1>15. \E g : /\ Enumerates(c, n - 1, g)
              /\ \A k \in 1 .. n - 1 : c[g[k]] = IF k < h THEN a[e[k]] ELSE a[e[k + 1]]
  <2> HIDE DEF f
  <2> QED BY <1>13, <1>14
<1> QED BY <1>1, <1>2, <1>3, <1>15 DEF c

-----------------------------------------------------------------------------
(* W is Q, of N, without its Kth.                                          *)
IsWithout(S, q, n, k, w) ==
  /\ w \in Seq(S) /\ Len(w) = n - 1
  /\ \A i \in 1 .. n - 1 : w[i] = IF i < k THEN q[i] ELSE q[i + 1]

LEMMA SplicedIs ==
  ASSUME NEW S, NEW q \in Seq(S), NEW n, n = Len(q), NEW k \in 1 .. n
  PROVE  IsWithout(S, q, n, k, SubSeq(q, 1, k - 1) \o SubSeq(q, k + 1, n))
<1>1. n \in Nat /\ k \in 1 .. n /\ DOMAIN q = 1 .. n
  OBVIOUS
<1>2. /\ SubSeq(q, 1, k - 1) \in Seq(S) /\ Len(SubSeq(q, 1, k - 1)) = k - 1
      /\ \A i \in 1 .. k - 1 : SubSeq(q, 1, k - 1)[i] = q[i]
  BY <1>1
<1>3. /\ SubSeq(q, k + 1, n) \in Seq(S) /\ Len(SubSeq(q, k + 1, n)) = n - k
      /\ \A i \in 1 .. n - k : SubSeq(q, k + 1, n)[i] = q[i + k]
  BY <1>1
<1> DEFINE u == SubSeq(q, 1, k - 1)
           v == SubSeq(q, k + 1, n)
<1>4. /\ u \in Seq(S) /\ Len(u) = k - 1 /\ \A i \in 1 .. k - 1 : u[i] = q[i]
      /\ v \in Seq(S) /\ Len(v) = n - k /\ \A i \in 1 .. n - k : v[i] = q[i + k]
  BY <1>2, <1>3
<1> HIDE DEF u, v
<1>5. /\ u \o v \in Seq(S) /\ Len(u \o v) = Len(u) + Len(v)
      /\ \A i \in 1 .. Len(u) + Len(v) :
           (u \o v)[i] = IF i <= Len(u) THEN u[i] ELSE v[i - Len(u)]
  BY <1>4, ConcatProperties
<1>6. Len(u) + Len(v) = n - 1
  BY <1>1, <1>4
<1>7. ASSUME NEW i \in 1 .. n - 1 PROVE (u \o v)[i] = IF i < k THEN q[i] ELSE q[i + 1]
  <2>1. CASE i < k
    BY <1>1, <1>4, <1>5, <1>6, <2>1
  <2>2. CASE ~(i < k)
    <3>1. i - (k - 1) \in 1 .. n - k /\ (i - (k - 1)) + k = i + 1 /\ ~(i <= k - 1)
      BY <1>1, <2>2
    <3>2. (u \o v)[i] = v[i - (k - 1)]
      BY <1>1, <1>4, <1>5, <1>6, <3>1
    <3> QED BY <1>4, <2>2, <3>1, <3>2
  <2> QED BY <2>1, <2>2
<1>8. IsWithout(S, q, n, k, u \o v)
  BY <1>5, <1>6, <1>7 DEF IsWithout
<1> QED BY <1>8 DEF u, v

-----------------------------------------------------------------------------
(* The inductive invariant: no surface twice, and the array can be read as *)
(* a list.                                                                 *)
CacheTypes == cached_surfaces \in ArraysOf(CacheSurfaces)
CacheIInv ==
  CacheTypes /\ Once(cached_surfaces) /\ \E n, e : Enumerates(cached_surfaces, n, e)

LEMMA EmptyIs ==
  /\ NoneCached \in ArraysOf(CacheSurfaces) /\ Once(NoneCached)
  /\ Enumerates(NoneCached, 0, [k \in 1 .. 0 |-> 0])
<1>1. NoneCached = [i \in Indices |-> Null]
  BY DEF NoneCached
<1> QED BY <1>1 DEF ArraysOf, Once, Enumerates

LEMMA ListOfEmpty == ASSUME CacheArrayAssumption PROVE ListOf(NoneCached) = <<>>
<1>1. ListOf(NoneCached) = [k \in 1 .. 0 |-> NoneCached[[l \in 1 .. 0 |-> 0][k]]]
  BY EmptyIs, ListIs
<1>2. 1 .. 0 = {} /\ DOMAIN ListOf(NoneCached) = {}
  BY <1>1
<1> QED BY <1>1, <1>2

(* What Add does to the list.                                              *)
PrependedAt(a, n, e, s, r, m, f) ==
  /\ Enumerates(r, m, f)
  /\ m = IF n = NCached THEN n ELSE n + 1
  /\ \A k \in 1 .. m : r[f[k]] = IF k = 1 THEN s ELSE a[e[k - 1]]

Prepended(a, n, e, s, r) == \E m, f : PrependedAt(a, n, e, s, r, m, f)

LEMMA AddPrepends ==
  ASSUME CacheArrayAssumption, NEW S, Null \notin S, NEW a \in ArraysOf(S), Once(a),
         NEW s \in S, s \notin Cached(a), NEW n, NEW e, Enumerates(a, n, e)
  PROVE  /\ Prepended(a, n, e, s, AddToCache(a, s))
         /\ n = NCached => n \in Nat \ {0} /\ Evicted(a) = a[e[n]]
         /\ n # NCached => Evicted(a) = Null
<1>0. n \in Nat /\ (IsFull(a) <=> n = NCached)
  <2>1. n \in Nat
    BY DEF Enumerates
  <2> QED BY <2>1, FullIs
<1>1. PICK r : r = AddToCache(a, s)
  OBVIOUS
<1>2. PICK b : b = WithoutOldest(a)
  OBVIOUS
<1>3. PICK c, d : Stored(b, s, c, d, r)
  <2>1. \E c, d : Stored(WithoutOldest(a), s, c, d, AddToCache(a, s))
    BY AddToCacheKeeps
  <2> QED BY <1>1, <1>2, <2>1
<1>4. s # Null
  OBVIOUS
<1>5. CASE IsFull(a)
  <2>1. /\ n \in Nat \ {0} /\ Evicted(a) = a[e[n]]
        /\ \E g : Enumerates(b, n - 1, g) /\ \A k \in 1 .. n - 1 : b[g[k]] = a[e[k]]
    BY <1>2, <1>5, OldestGoes
  <2>2. PICK g : Enumerates(b, n - 1, g) /\ \A k \in 1 .. n - 1 : b[g[k]] = a[e[k]]
    BY <2>1
  <2>3. PICK f : InFront(b, n - 1, g, s, r, f)
    BY <1>3, <1>4, <2>2, StoredComesFirst
  <2>4. (n - 1) + 1 = n
    BY <2>1
  <2>5. ASSUME NEW k \in 1 .. n PROVE r[f[k]] = IF k = 1 THEN s ELSE a[e[k - 1]]
    <3>1. CASE k = 1
      BY <2>3, <2>4, <3>1 DEF InFront
    <3>2. CASE k # 1
      <4>1. k - 1 \in 1 .. n - 1
        BY <2>1, <3>2
      <4> QED BY <2>2, <2>3, <2>4, <3>2, <4>1 DEF InFront
    <3> QED BY <3>1, <3>2
  <2>6. Enumerates(r, n, f) /\ n = NCached
    BY <1>0, <1>5, <2>3, <2>4 DEF InFront
  <2>7. PrependedAt(a, n, e, s, r, n, f)
    BY <2>5, <2>6 DEF PrependedAt
  <2>8. Prepended(a, n, e, s, r)
    BY <2>7, Zenon DEF Prepended
  <2> QED BY <1>0, <1>1, <1>5, <2>1, <2>8
<1>6. CASE ~IsFull(a)
  <2>1. Evicted(a) = Null
    BY <1>6 DEF Evicted
  <2>2. b = a
    <3>1. b = [i \in Indices |-> IF a[i] = Null THEN Null ELSE a[i]]
      BY <1>2, <2>1 DEF WithoutOldest
    <3>2. a = [i \in Indices |-> a[i]]
      BY DEF ArraysOf
    <3> QED BY <3>1, <3>2
  <2>3. PICK f : InFront(a, n, e, s, r, f)
    BY <1>3, <1>4, <2>2, StoredComesFirst
  <2>4. PrependedAt(a, n, e, s, r, n + 1, f)
    BY <1>0, <1>6, <2>3 DEF InFront, PrependedAt
  <2>5. Prepended(a, n, e, s, r)
    BY <2>4, Zenon DEF Prepended
  <2> QED BY <1>0, <1>1, <1>6, <2>1, <2>5
<1> QED BY <1>5, <1>6

LEMMA CacheInductive ==
  ASSUME CacheAssumption, CacheIInv, [CacheNext]_cachevars
  PROVE  CacheIInv'
<1> USE DEF CacheAssumption
<1>0. /\ cached_surfaces \in ArraysOf(CacheSurfaces) /\ Once(cached_surfaces)
      /\ \E n, e : Enumerates(cached_surfaces, n, e)
  BY DEF CacheIInv, CacheTypes
<1>1. PICK n, e : Enumerates(cached_surfaces, n, e)
  BY <1>0
<1> SUFFICES ASSUME NEW r, cached_surfaces' = r
             PROVE  r \in ArraysOf(CacheSurfaces) /\ Once(r) /\ \E m, f : Enumerates(r, m, f)
  BY DEF CacheIInv, CacheTypes, ArraysOf, Once, Enumerates, Indices
<1>2. ASSUME NEW s \in CacheSurfaces, Add(s)
      PROVE  r \in ArraysOf(CacheSurfaces) /\ Once(r) /\ \E m, f : Enumerates(r, m, f)
  <2>1. s \notin Cached(cached_surfaces) /\ r = AddToCache(cached_surfaces, s)
    BY <1>2 DEF Add
  <2>2. r \in ArraysOf(CacheSurfaces) /\ Once(r)
    BY <1>0, <2>1, AddToCacheKeeps
  <2>3. Prepended(cached_surfaces, n, e, s, r)
    BY <1>0, <1>1, <2>1, AddPrepends
  <2> QED BY <2>2, <2>3 DEF Prepended, PrependedAt
<1>3. ASSUME NEW set \in SUBSET CacheSurfaces, Get(set)
      PROVE  r \in ArraysOf(CacheSurfaces) /\ Once(r) /\ \E m, f : Enumerates(r, m, f)
  <2>1. CASE Found(cached_surfaces, set) = {}
    BY <1>0, <1>3, <2>1 DEF Get
  <2>2. CASE Found(cached_surfaces, set) # {}
    <3>1. r = GetFromCache(cached_surfaces, set)
      BY <1>3, <2>2 DEF Get
    <3>2. r \in ArraysOf(CacheSurfaces) /\ Once(r)
      BY <1>0, <2>2, <3>1, GetFromCacheTakes
    <3>3. \E m, f : Enumerates(r, m, f)
      BY <1>0, <1>1, <2>2, <3>1, HitIsTakenOut
    <3> QED BY <3>2, <3>3
  <2> QED BY <2>1, <2>2
<1>4. CASE GiveUpAll
  BY <1>4, EmptyIs DEF GiveUpAll
<1>5. CASE UNCHANGED cachevars
  BY <1>0, <1>5 DEF cachevars
<1> QED BY <1>2, <1>3, <1>4, <1>5 DEF CacheNext

-----------------------------------------------------------------------------
(* The assertions of surface_add_to_cache hold in every state: it always   *)
(* finds a gap, the surface it evicts is nowhere left in the array, and no *)
(* surface is there twice.                                                 *)
THEOREM AssertionsHoldTheorem == ASSUME CacheAssumption PROVE CacheSpec => []AssertionsHold
<1>1. CacheInit => CacheIInv
  BY EmptyIs DEF CacheInit, CacheIInv, CacheTypes
<1>2. CacheIInv => AssertionsHold
  <2> SUFFICES ASSUME CacheIInv PROVE AssertionsHold
    OBVIOUS
  <2>1. cached_surfaces \in ArraysOf(CacheSurfaces) /\ Once(cached_surfaces)
    BY DEF CacheIInv, CacheTypes
  <2>2. ASSUME NEW s \in CacheSurfaces \ Cached(cached_surfaces)
        PROVE  /\ Compact(WithoutOldest(cached_surfaces)).delta > 0
               /\ Evicted(cached_surfaces) # Null =>
                    Evicted(cached_surfaces) \notin Cached(AddToCache(cached_surfaces, s))
    <3>1. /\ Cached(AddToCache(cached_surfaces, s)) =
               (Cached(cached_surfaces) \ {Evicted(cached_surfaces)}) \union {s}
          /\ Evicted(cached_surfaces) \in Cached(cached_surfaces) \union {Null}
          /\ Compact(WithoutOldest(cached_surfaces)).delta > 0
      BY <2>1, AddToCacheKeeps DEF CacheAssumption
    <3> QED BY <3>1
  <2>3. \A i, j \in Occupied(cached_surfaces) : cached_surfaces[i] = cached_surfaces[j] => i = j
    BY <2>1 DEF Occupied, Once
  <2> QED BY <2>2, <2>3 DEF AssertionsHold
<1>3. CacheIInv /\ [CacheNext]_cachevars => CacheIInv'
  BY CacheInductive
<1> QED BY <1>1, <1>2, <1>3, PTL DEF CacheSpec

LEMMA ListTyped ==
  ASSUME CacheArrayAssumption, NEW S, NEW a \in ArraysOf(S), NEW n, NEW e, Enumerates(a, n, e),
         NEW q, q = ListOf(a)
  PROVE  /\ q \in Seq(S) /\ Len(q) = n /\ DOMAIN q = 1 .. n /\ n \in Nat
         /\ \A k \in 1 .. n : q[k] = a[e[k]] /\ e[k] \in Occupied(a)
<1>1. q = [k \in 1 .. n |-> a[e[k]]]
  BY ListIs
<1>2. /\ n \in Nat /\ e \in [1 .. n -> Indices]
      /\ \A i \in Indices : a[i] # Null <=> \E k \in 1 .. n : e[k] = i
  BY DEF Enumerates
<1>3. ASSUME NEW k \in 1 .. n PROVE e[k] \in Occupied(a) /\ a[e[k]] \in S
  <2>1. e[k] \in Indices /\ a[e[k]] # Null
    BY <1>2
  <2> QED BY <2>1 DEF Occupied, ArraysOf
<1>4. q \in [1 .. n -> S]
  BY <1>1, <1>3
<1> QED BY <1>1, <1>2, <1>3, <1>4

(* Each operation on the array is that of RecentlyUsed on the list.        *)
LEMMA AddRefines ==
  ASSUME CacheAssumption, CacheIInv, NEW s \in CacheSurfaces, Add(s)
  PROVE  Recently!Add(s)
<1> USE DEF CacheAssumption
<1>1. /\ cached_surfaces \in ArraysOf(CacheSurfaces) /\ Once(cached_surfaces)
      /\ s \notin Cached(cached_surfaces) /\ cached_surfaces' = AddToCache(cached_surfaces, s)
      /\ suiting' = {} /\ gone' = Evicted(cached_surfaces)
  BY DEF CacheIInv, CacheTypes, Add
<1>2. PICK n, e : Enumerates(cached_surfaces, n, e)
  BY DEF CacheIInv
<1>3. PICK a, q, r, p, v : /\ a = cached_surfaces /\ q = ListOf(cached_surfaces)
                           /\ r = AddToCache(a, s) /\ p = ListOf(r) /\ v = gone'
  OBVIOUS
<1>4. /\ q \in Seq(CacheSurfaces) /\ Len(q) = n /\ DOMAIN q = 1 .. n /\ n \in Nat
      /\ \A k \in 1 .. n : q[k] = a[e[k]] /\ e[k] \in Occupied(a)
  BY <1>1, <1>2, <1>3, ListTyped
<1>5. /\ Prepended(a, n, e, s, r)
      /\ n = NCached => n \in Nat \ {0} /\ v = a[e[n]]
      /\ n # NCached => v = Null
  BY <1>1, <1>2, <1>3, AddPrepends
<1>6. PICK m, f : PrependedAt(a, n, e, s, r, m, f)
  BY <1>5 DEF Prepended
<1>7. /\ Enumerates(r, m, f) /\ m = (IF n = NCached THEN n ELSE n + 1)
      /\ \A k \in 1 .. m : r[f[k]] = IF k = 1 THEN s ELSE a[e[k - 1]]
  BY <1>6 DEF PrependedAt
<1>8. r \in ArraysOf(CacheSurfaces)
  BY <1>1, <1>3, AddToCacheKeeps
<1>9. /\ p \in Seq(CacheSurfaces) /\ Len(p) = m /\ DOMAIN p = 1 .. m
      /\ \A k \in 1 .. m : p[k] = r[f[k]]
  BY <1>3, <1>7, <1>8, ListTyped
<1>10. ASSUME NEW k \in 1 .. m PROVE p[k] = IF k = 1 THEN s ELSE q[k - 1]
  <2>1. CASE k = 1
    BY <1>7, <1>9, <2>1
  <2>2. CASE k # 1
    <3>1. m \in Nat /\ m <= n + 1
      BY <1>4, <1>7
    <3>2. k - 1 \in 1 .. n
      BY <1>4, <2>2, <3>1
    <3>3. p[k] = a[e[k - 1]]
      BY <1>7, <1>9, <2>2
    <3> QED BY <1>4, <2>2, <3>2, <3>3
  <2> QED BY <2>1, <2>2
<1>11. \A i \in DOMAIN q : q[i] # s
  BY <1>1, <1>3, <1>4 DEF Cached
<1>12. <<s>> \in Seq(CacheSurfaces) /\ Len(<<s>>) = 1 /\ <<s>>[1] = s
  OBVIOUS
<1>13. CASE n = NCached
  <2> DEFINE w == SubSeq(q, 1, n - 1) \o SubSeq(q, n + 1, n)
  <2>1. n \in 1 .. n
    BY <1>5, <1>13
  <2>2. /\ w \in Seq(CacheSurfaces) /\ Len(w) = n - 1
        /\ \A i \in 1 .. n - 1 : w[i] = IF i < n THEN q[i] ELSE q[i + 1]
    <3>1. IsWithout(CacheSurfaces, q, n, n, w)
      BY <1>4, <2>1, SplicedIs
    <3> HIDE DEF w
    <3> QED BY <3>1 DEF IsWithout
  <2> HIDE DEF w
  <2>3. /\ <<s>> \o w \in Seq(CacheSurfaces) /\ Len(<<s>> \o w) = n
        /\ \A i \in 1 .. n : (<<s>> \o w)[i] = IF i <= 1 THEN s ELSE w[i - 1]
    <3>1. /\ <<s>> \o w \in Seq(CacheSurfaces) /\ Len(<<s>> \o w) = Len(<<s>>) + Len(w)
          /\ \A i \in 1 .. Len(<<s>>) + Len(w) :
               (<<s>> \o w)[i] = IF i <= Len(<<s>>) THEN <<s>>[i] ELSE w[i - Len(<<s>>)]
      BY <1>12, <2>2, ConcatProperties
    <3>2. Len(<<s>>) + Len(w) = n
      BY <1>4, <1>12, <2>2
    <3> QED BY <1>12, <3>1, <3>2
  <2>4. ASSUME NEW i \in 1 .. n PROVE p[i] = (<<s>> \o w)[i]
    <3>1. CASE i = 1
      BY <1>7, <1>10, <1>13, <2>3, <3>1
    <3>2. CASE i # 1
      <4>1. i - 1 \in 1 .. n - 1 /\ ~(i <= 1) /\ i - 1 < n
        BY <1>4, <3>2
      <4> QED BY <1>7, <1>10, <1>13, <2>2, <2>3, <3>2, <4>1
    <3> QED BY <3>1, <3>2
  <2>5. p = <<s>> \o w
    <3>1. DOMAIN (<<s>> \o w) = 1 .. n /\ DOMAIN p = 1 .. n
      BY <1>7, <1>9, <1>13, <2>3
    <3> QED BY <1>9, <2>3, <2>4, <3>1
  <2>6. p = <<s>> \o (SubSeq(q, 1, NCached - 1) \o SubSeq(q, NCached + 1, Len(q)))
    BY <1>4, <1>13, <2>5 DEF w
  <2>7. v = q[NCached] /\ Len(q) = NCached
    BY <1>4, <1>5, <1>13, <2>1
  <2> QED BY <1>1, <1>3, <1>11, <2>6, <2>7 DEF Recently!Add, Recently!Without
<1>14. CASE n # NCached
  <2>1. m = n + 1
    BY <1>7, <1>14
  <2>2. /\ <<s>> \o q \in Seq(CacheSurfaces) /\ Len(<<s>> \o q) = n + 1
        /\ \A i \in 1 .. n + 1 : (<<s>> \o q)[i] = IF i <= 1 THEN s ELSE q[i - 1]
    <3>1. /\ <<s>> \o q \in Seq(CacheSurfaces) /\ Len(<<s>> \o q) = Len(<<s>>) + Len(q)
          /\ \A i \in 1 .. Len(<<s>>) + Len(q) :
               (<<s>> \o q)[i] = IF i <= Len(<<s>>) THEN <<s>>[i] ELSE q[i - Len(<<s>>)]
      BY <1>4, <1>12, ConcatProperties
    <3>2. Len(<<s>>) + Len(q) = n + 1
      BY <1>4, <1>12
    <3> QED BY <1>12, <3>1, <3>2
  <2>3. ASSUME NEW i \in 1 .. n + 1 PROVE p[i] = (<<s>> \o q)[i]
    BY <1>4, <1>10, <2>1, <2>2
  <2>4. p = <<s>> \o q
    <3>1. DOMAIN (<<s>> \o q) = 1 .. n + 1 /\ DOMAIN p = 1 .. n + 1
      BY <1>9, <2>1, <2>2
    <3> QED BY <1>9, <2>2, <2>3, <3>1
  <2>5. v = Null /\ Len(q) # NCached
    BY <1>4, <1>5, <1>14
  <2> QED BY <1>1, <1>3, <1>11, <2>4, <2>5 DEF Recently!Add
<1> QED BY <1>13, <1>14

LEMMA GetRefines ==
  ASSUME CacheAssumption, CacheIInv, NEW set \in SUBSET CacheSurfaces, Get(set)
  PROVE  Recently!Serve(set)
<1> USE DEF CacheAssumption
<1>1. cached_surfaces \in ArraysOf(CacheSurfaces) /\ Once(cached_surfaces) /\ suiting' = set
  BY DEF CacheIInv, CacheTypes, Get
<1>2. PICK n, e : Enumerates(cached_surfaces, n, e)
  BY DEF CacheIInv
<1>3. PICK a, q, r, p, v : /\ a = cached_surfaces /\ q = ListOf(cached_surfaces)
                           /\ r = cached_surfaces' /\ p = ListOf(r) /\ v = gone'
  OBVIOUS
<1>4. /\ q \in Seq(CacheSurfaces) /\ Len(q) = n /\ DOMAIN q = 1 .. n /\ n \in Nat
      /\ \A k \in 1 .. n : q[k] = a[e[k]] /\ e[k] \in Occupied(a)
  BY <1>1, <1>2, <1>3, ListTyped
<1>5. CASE Found(a, set) = {}
  <2>1. r = a /\ v = Null
    BY <1>3, <1>5 DEF Get
  <2>2. \A i \in DOMAIN q : q[i] \notin set
    BY <1>4, <1>5 DEF Found
  <2>3. p = q
    BY <1>3, <2>1
  <2> QED BY <1>1, <1>3, <2>1, <2>2, <2>3 DEF Recently!Serve
<1>6. CASE Found(a, set) # {}
  <2>1. r = GetFromCache(a, set) /\ v = a[Hit(a, set)]
    BY <1>3, <1>6 DEF Get
  <2>2. PICK h \in 1 .. n :
           /\ Hit(a, set) = e[h] /\ a[e[h]] \in set
           /\ \A k \in 1 .. h - 1 : a[e[k]] \notin set
           /\ \E f : /\ Enumerates(r, n - 1, f)
                     /\ \A k \in 1 .. n - 1 : r[f[k]] = IF k < h THEN a[e[k]] ELSE a[e[k + 1]]
    BY <1>1, <1>2, <1>3, <1>6, <2>1, HitIsTakenOut
  <2>3. PICK f : /\ Enumerates(r, n - 1, f)
                 /\ \A k \in 1 .. n - 1 : r[f[k]] = IF k < h THEN a[e[k]] ELSE a[e[k + 1]]
    BY <2>2
  <2>4. r \in ArraysOf(CacheSurfaces)
    BY <1>1, <1>3, <1>6, <2>1, GetFromCacheTakes
  <2>5. /\ p \in Seq(CacheSurfaces) /\ Len(p) = n - 1 /\ DOMAIN p = 1 .. n - 1
        /\ \A k \in 1 .. n - 1 : p[k] = r[f[k]]
    BY <1>3, <2>3, <2>4, ListTyped
  <2> DEFINE w == SubSeq(q, 1, h - 1) \o SubSeq(q, h + 1, n)
  <2>6. /\ w \in Seq(CacheSurfaces) /\ Len(w) = n - 1
        /\ \A i \in 1 .. n - 1 : w[i] = IF i < h THEN q[i] ELSE q[i + 1]
    <3>1. IsWithout(CacheSurfaces, q, n, h, w)
      BY <1>4, SplicedIs
    <3> HIDE DEF w
    <3> QED BY <3>1 DEF IsWithout
  <2> HIDE DEF w
  <2>7. ASSUME NEW i \in 1 .. n - 1 PROVE p[i] = w[i]
    <3>1. i \in 1 .. n /\ i + 1 \in 1 .. n
      BY <1>4
    <3>2. p[i] = IF i < h THEN a[e[i]] ELSE a[e[i + 1]]
      BY <2>3, <2>5
    <3> QED BY <1>4, <2>6, <3>1, <3>2
  <2>8. p = w
    <3>1. DOMAIN w = 1 .. n - 1
      BY <2>6
    <3> QED BY <2>5, <2>6, <2>7, <3>1
  <2>9. p = SubSeq(q, 1, h - 1) \o SubSeq(q, h + 1, Len(q))
    BY <1>4, <2>8 DEF w
  <2>10. /\ h \in DOMAIN q /\ q[h] \in set /\ v = q[h]
         /\ \A k \in 1 .. h - 1 : q[k] \notin set
    <3>1. \A k \in 1 .. h - 1 : k \in 1 .. n
      BY <1>4
    <3> QED BY <1>4, <2>1, <2>2, <3>1
  <2>11. /\ \E i \in DOMAIN ListOf(cached_surfaces) :
              /\ ListOf(cached_surfaces)[i] \in set
              /\ \A j \in 1 .. i - 1 : ListOf(cached_surfaces)[j] \notin set
              /\ ListOf(cached_surfaces)' =
                   SubSeq(ListOf(cached_surfaces), 1, i - 1)
                     \o SubSeq(ListOf(cached_surfaces), i + 1, Len(ListOf(cached_surfaces)))
              /\ gone' = ListOf(cached_surfaces)[i]
    BY <1>3, <2>9, <2>10
  <2> QED BY <1>1, <2>11 DEF Recently!Serve, Recently!Without
<1> QED BY <1>5, <1>6

(* The array implements the list of RecentlyUsed: after any additions,     *)
(* requests and evacuations, what surface_add_to_cache evicts is the entry *)
(* that has been there longest, what surface_get_from_cache reuses is the  *)
(* latest that suits, and closing the gaps changes nothing of that.        *)
THEOREM KeepsAgeOrderTheorem == ASSUME CacheAssumption PROVE CacheSpec => KeepsAgeOrder
<1>1. CacheInit => CacheIInv /\ Recently!Init
  <2> SUFFICES ASSUME CacheInit PROVE CacheIInv /\ Recently!Init
    OBVIOUS
  <2>1. CacheIInv
    BY EmptyIs DEF CacheInit, CacheIInv, CacheTypes
  <2>2. ListOf(cached_surfaces) = <<>>
    BY ListOfEmpty DEF CacheInit, CacheAssumption
  <2> QED BY <2>1, <2>2 DEF CacheInit, Recently!Init
<1>2. CacheIInv /\ [CacheNext]_cachevars => CacheIInv'
  BY CacheInductive
<1>3. CacheIInv /\ [CacheNext]_cachevars => [Recently!Next]_(Recently!vars)
  <2> SUFFICES ASSUME CacheIInv, [CacheNext]_cachevars PROVE [Recently!Next]_(Recently!vars)
    OBVIOUS
  <2>1. ASSUME NEW s \in CacheSurfaces, Add(s) PROVE Recently!Next
    BY <2>1, AddRefines DEF Recently!Next
  <2>2. ASSUME NEW set \in SUBSET CacheSurfaces, Get(set) PROVE Recently!Next
    BY <2>2, GetRefines DEF Recently!Next
  <2>3. CASE GiveUpAll
    <3>1. ListOf(cached_surfaces)' = <<>>
      BY <2>3, ListOfEmpty DEF GiveUpAll, CacheAssumption
    <3> QED BY <2>3, <3>1 DEF GiveUpAll, Recently!Next, Recently!Clear
  <2>4. CASE UNCHANGED cachevars
    <3>1. ListOf(cached_surfaces)' = ListOf(cached_surfaces)
      BY <2>4 DEF cachevars
    <3> QED BY <2>4, <3>1 DEF cachevars, Recently!vars
  <2> QED BY <2>1, <2>2, <2>3, <2>4 DEF CacheNext
<1> QED BY <1>1, <1>2, <1>3, PTL DEF CacheSpec, KeepsAgeOrder, Recently!Spec

-----------------------------------------------------------------------------
(* The array of the driver's own surfaces.                                 *)
Arrays == [Indices -> Surfaces \union {Null}]

LEMMA KilledIsCached ==
  ASSUME CacheArrayAssumption, LifecycleAssumption, NEW a \in Arrays, Once(a),
         NEW s \in Surfaces, s \notin Cached(a)
  PROVE  /\ AddToCache(a, s) \in Arrays /\ Once(AddToCache(a, s))
         /\ Cached(AddToCache(a, s)) = (Cached(a) \ {Evicted(a)}) \union {s}
         /\ Evicted(a) \in Cached(a) \union {Null}
<1>1. Null \notin Surfaces /\ Arrays = ArraysOf(Surfaces)
  BY DEF LifecycleAssumption, Surfaces, Arrays, ArraysOf
<1> QED BY <1>1, AddToCacheKeeps

LEMMA ReusedIsTaken ==
  ASSUME CacheArrayAssumption, NEW a \in Arrays, Once(a), NEW set, Found(a, set) # {}
  PROVE  /\ GetFromCache(a, set) \in Arrays /\ Once(GetFromCache(a, set))
         /\ Cached(GetFromCache(a, set)) = Cached(a) \ {a[Hit(a, set)]}
         /\ a[Hit(a, set)] \in Cached(a)
<1>1. Arrays = ArraysOf(Surfaces)
  BY DEF Arrays, ArraysOf
<1> QED BY <1>1, GetFromCacheTakes

-----------------------------------------------------------------------------
(* The inductive invariant.  The calls under way are seen through the      *)
(* outermost one, its base, and the set of surfaces being destroyed.       *)
Calling == [pc : Pcs, s : Surfaces \union {Null}, big : BOOLEAN, got : BOOLEAN]
Inner   == {"gc", "oom1", "oom2", "destroy"}
Named   == {"create", "destroy", "kill", "copy"}

(* Only collections, their retries and the destructions they cause are     *)
(* called from another call, and no surface is being destroyed twice.      *)
Nested(st) ==
  /\ st \in Seq(Calling)
  /\ \A i \in 1 .. Len(st) :
       /\ i < Len(st) => st[i].pc \in Inner
       /\ i = Len(st) => st[i].pc \notin {"gc", "oom1", "oom2"}
       /\ st[i].s # Null <=> st[i].pc \in Named
  /\ \A i, j \in 1 .. Len(st) :
       st[i].pc = "destroy" /\ st[j].pc = "destroy" /\ st[i].s = st[j].s => i = j

BasePc(st)  == IF st = <<>> THEN "idle" ELSE st[Len(st)].pc
BaseS(st)   == IF st = <<>> THEN Null ELSE st[Len(st)].s
BaseBig(st) == IF st = <<>> THEN FALSE ELSE st[Len(st)].big
Dying(st)   == {s \in Surfaces : \E i \in 1 .. Len(st) : st[i].pc = "destroy" /\ st[i].s = s}

Doer(pc, s) == BasePc(stack) = pc /\ BaseS(stack) = s
Making(s)   == Doer("create", s)
Leaving     == BasePc(stack) \in {"evacuate", "evacuated"}
Reserved    == IF BasePc(stack) \in {"list", "listoom"} THEN Units(BaseBig(stack)) ELSE 0

(* While X has the terminal each surface is in one phase: with the device, *)
(* on its way back, being made or free.                                    *)
PhaseInv ==
  vt = "here" =>
    \A s \in Surfaces :
      /\ device[s] \in {0, 1}
      /\ device[s] + destroys[s] + One(Making(s)) + One(s \in Range(free)) = 1
      /\ s \in Dying(stack) => device[s] = 1
      /\ bo[s] = 2 * device[s] + destroys[s] + One(Making(s))

HolderInv ==
  vt = "here" /\ ~Leaving =>
    \A s \in Surfaces :
      /\ refs[s] = One(s \in live) + One(Making(s)) + One(Doer("kill", s))
                     + One(s \in Cached(cached)) + copies[s] + One(Doer("copy", s))
      /\ device[s] = 1 <=> (refs[s] > 0 /\ ~Making(s)) \/ s \in Dying(stack)
      /\ s \in Dying(stack) => refs[s] = 0
      /\ Making(s) => refs[s] = 1
      /\ Doer("copy", s) => copies[s] < MaxCopies

(* While X gives the terminal away the cache's reference is never dropped. *)
LeavingInv ==
  vt = "here" /\ Leaving =>
    \A s \in Surfaces :
      /\ refs[s] >= One(s \in live) + One(s \in Cached(cached)) + copies[s]
      /\ (device[s] = 0 \/ s \in Dying(stack)) /\ copies[s] > 0 => refs[s] > copies[s]
      /\ s \in Cached(cached) =>
           \/ device[s] = 1 /\ s \notin Dying(stack)
           \/ BasePc(stack) = "evacuated" /\ s = cached[Min(Occupied(cached))]

AwayInv ==
  vt # "here" =>
    /\ live = {} /\ free = <<>> /\ Cached(cached) = {}
    /\ copies = Zero /\ destroys = Zero /\ device = Zero
    /\ Dying(stack) = {}
    /\ BasePc(stack) \notin Named \union {"evacuated"}
    /\ vt # "lost" => stack = <<>>

MemoryInv ==
  /\ avail + Reserved <= Vram
  /\ vt = "here" => avail = Vram - UnitsOf({s \in Surfaces : bo[s] > 0}, large) - Reserved

IInv ==
  /\ TypeOK /\ Once(cached) /\ Nested(stack)
  /\ live \intersect Cached(cached) = {}
  /\ BasePc(stack) = "evacuated" => Cached(cached) # {}
  /\ \A i, j \in DOMAIN free : free[i] = free[j] => i = j
  /\ PhaseInv /\ HolderInv /\ LeavingInv /\ AwayInv /\ MemoryInv

-----------------------------------------------------------------------------
(* What the operations on the calls under way do to their base and to the  *)
(* surfaces being destroyed.                                               *)
SameCalls(st, st2) ==
  /\ BasePc(st2) = BasePc(st) /\ BaseS(st2) = BaseS(st) /\ BaseBig(st2) = BaseBig(st)

LEMMA Framing ==
  ASSUME NEW pc \in Pcs, NEW s \in Surfaces \union {Null}
  PROVE  Frame(pc, s) \in Calling /\ Gc \in Calling
BY DEF Frame, Gc, Calling, Pcs

(* A call is made from the innermost one, or from none.                    *)
LEMMA Pushing ==
  ASSUME LifecycleAssumption, NEW st, Nested(st), NEW x \in Calling, x.pc \in Inner,
         st = <<>> => x.pc = "destroy",
         x.s # Null <=> x.pc = "destroy", x.s \notin Dying(st)
  PROVE  /\ Nested(<<x>> \o st) /\ <<x>> \o st # <<>>
         /\ st # <<>> => SameCalls(st, <<x>> \o st)
         /\ st = <<>> => BasePc(<<x>> \o st) = "destroy" /\ BaseS(<<x>> \o st) = x.s
         /\ Dying(<<x>> \o st) = IF x.pc = "destroy" THEN Dying(st) \union {x.s} ELSE Dying(st)
<1> DEFINE r == <<x>> \o st
           n == Len(st)
<1>1. st \in Seq(Calling) /\ n \in Nat
  BY DEF Nested
<1>2. /\ r \in Seq(Calling) /\ Len(r) = n + 1 /\ r # <<>> /\ r[1] = x
      /\ \A i \in 1 .. n + 1 : i # 1 => r[i] = st[i - 1] /\ i - 1 \in 1 .. n
  BY <1>1
<1>3. st # <<>> => n \in 1 .. n /\ n + 1 # 1 /\ r[n + 1] = st[n]
  BY <1>1, <1>2
<1>4. st = <<>> => n = 0
  BY <1>1
<1>5. x.s # Null => x.s \in Surfaces
  BY DEF Calling
<1> HIDE DEF r, n
<1>6. \A i \in 1 .. n : r[i + 1] = st[i] /\ i + 1 \in 1 .. n + 1 /\ i + 1 # 1
  BY <1>1, <1>2
<1>7. Dying(r) = IF x.pc = "destroy" THEN Dying(st) \union {x.s} ELSE Dying(st)
  <2>1. ASSUME NEW s \in Dying(r) PROVE s \in Dying(st) \/ (x.pc = "destroy" /\ s = x.s)
    <3>1. PICK i \in 1 .. n + 1 : r[i].pc = "destroy" /\ r[i].s = s
      BY <1>2, <2>1 DEF Dying
    <3> QED BY <1>2, <2>1, <3>1 DEF Dying, n
  <2>2. ASSUME NEW s \in Dying(st) PROVE s \in Dying(r)
    BY <1>2, <1>6, <2>2 DEF Dying, n
  <2>3. x.pc = "destroy" => x.s \in Dying(r)
    <3>1. 1 \in 1 .. n + 1
      BY <1>1
    <3> QED BY <1>2, <1>5, <3>1 DEF Dying
  <2> QED BY <2>1, <2>2, <2>3
<1>8. Nested(r)
  <2>1. ASSUME NEW i \in 1 .. n + 1
        PROVE  /\ i < n + 1 => r[i].pc \in Inner
               /\ i = n + 1 => r[i].pc \notin {"gc", "oom1", "oom2"}
               /\ r[i].s # Null <=> r[i].pc \in Named
    <3>1. CASE i = 1
      <4>1. i = n + 1 => st = <<>>
        BY <1>1, <3>1 DEF n
      <4> QED BY <1>2, <3>1, <4>1 DEF Inner, Named
    <3>2. CASE i # 1
      <4>1. i - 1 \in 1 .. n /\ r[i] = st[i - 1] /\ (i < n + 1 => i - 1 < n) /\ (i = n + 1 => i - 1 = n)
        BY <1>1, <1>2, <3>2
      <4> QED BY <4>1 DEF Nested, n
    <3> QED BY <3>1, <3>2
  <2>2. ASSUME NEW i \in 1 .. n + 1, NEW j \in 1 .. n + 1,
               r[i].pc = "destroy", r[j].pc = "destroy", r[i].s = r[j].s
        PROVE  i = j
    <3>1. ASSUME NEW k \in 1 .. n + 1, k # 1, x.pc = "destroy", r[k].pc = "destroy" PROVE r[k].s # x.s
      BY <1>2, <1>5, <3>1 DEF Dying, n
    <3>2. CASE i # 1 /\ j # 1
      <4>1. i - 1 = j - 1
        BY <1>2, <2>2, <3>2 DEF Nested, n
      <4> QED BY <1>1, <4>1
    <3>3. CASE i = 1 \/ j = 1
      BY <1>2, <2>2, <3>1, <3>3
    <3> QED BY <3>2, <3>3
  <2> QED BY <1>2, <2>1, <2>2 DEF Nested
<1>9. st # <<>> => SameCalls(st, r)
  BY <1>2, <1>3 DEF SameCalls, BasePc, BaseS, BaseBig, n
<1>10. st = <<>> => BasePc(r) = "destroy" /\ BaseS(r) = x.s
  BY <1>2, <1>4 DEF BasePc, BaseS
<1> QED BY <1>2, <1>7, <1>8, <1>9, <1>10 DEF r

(* The innermost call goes on, with another result of the calls it made.   *)
LEMMA Resuming ==
  ASSUME LifecycleAssumption, NEW st, Nested(st), st # <<>>, NEW x \in Calling,
         x.pc = st[1].pc, x.s = st[1].s, x.big = st[1].big
  PROVE  /\ Nested(<<x>> \o Tail(st)) /\ <<x>> \o Tail(st) # <<>>
         /\ SameCalls(st, <<x>> \o Tail(st)) /\ Dying(<<x>> \o Tail(st)) = Dying(st)
<1> DEFINE r == <<x>> \o Tail(st)
           n == Len(st)
<1>1. st \in Seq(Calling) /\ n \in Nat \ {0}
  BY DEF Nested
<1>2. /\ r \in Seq(Calling) /\ Len(r) = n /\ r # <<>> /\ r[1] = x
      /\ \A i \in 1 .. n : i # 1 => r[i] = st[i]
  BY <1>1
<1> HIDE DEF r
<1>3. \A i \in 1 .. n : r[i].pc = st[i].pc /\ r[i].s = st[i].s /\ r[i].big = st[i].big
  BY <1>2
<1>4. Nested(r)
  BY <1>2, <1>3 DEF Nested
<1>5. SameCalls(st, r)
  BY <1>1, <1>2, <1>3 DEF SameCalls, BasePc, BaseS, BaseBig
<1>6. Dying(r) = Dying(st)
  BY <1>2, <1>3 DEF Dying
<1> QED BY <1>2, <1>4, <1>5, <1>6 DEF r

LEMMA TwoDown ==
  ASSUME NEW st \in Seq(Calling), st # <<>>, Len(st) # 1, NEW y \in Calling
  PROVE  /\ <<y>> \o Tail(Tail(st)) \in Seq(Calling)
         /\ Len(<<y>> \o Tail(Tail(st))) = Len(st) - 1
         /\ (<<y>> \o Tail(Tail(st)))[1] = y
         /\ \A i \in 1 .. Len(st) - 1 : i # 1 => (<<y>> \o Tail(Tail(st)))[i] = st[i + 1]
<1> DEFINE n == Len(st)
           t == Tail(st)
           tt == Tail(t)
<1>1. n \in Nat \ {0, 1}
  BY LenProperties
<1>2. t \in Seq(Calling) /\ Len(t) = n - 1 /\ \A i \in 1 .. Len(t) : t[i] = st[i + 1]
  BY HeadTailProperties
<1>3. t # <<>>
  <2>1. Len(t) # 0
    BY <1>1, <1>2
  <2> QED BY <1>2, <2>1, EmptySeq
<1> HIDE DEF t, n
<1>4. tt \in Seq(Calling) /\ Len(tt) = n - 2 /\ \A i \in 1 .. Len(tt) : tt[i] = t[i + 1]
  BY <1>1, <1>2, <1>3, HeadTailProperties
<1> HIDE DEF tt
<1>5. /\ <<y>> \o tt \in Seq(Calling) /\ Len(<<y>> \o tt) = Len(tt) + 1 /\ (<<y>> \o tt)[1] = y
      /\ \A i \in 1 .. Len(tt) + 1 : i # 1 => (<<y>> \o tt)[i] = tt[i - 1]
  BY <1>4
<1>6. Len(tt) + 1 = n - 1
  BY <1>1, <1>4
<1>7. ASSUME NEW i \in 1 .. n - 1, i # 1 PROVE (<<y>> \o tt)[i] = st[i + 1]
  <2>1. i - 1 \in 1 .. n - 2 /\ i \in 1 .. n - 1 /\ (i - 1) + 1 = i
    BY <1>1, <1>7
  <2>2. (<<y>> \o tt)[i] = tt[i - 1]
    BY <1>5, <1>6, <1>7, <2>1
  <2>3. tt[i - 1] = t[i] /\ t[i] = st[i + 1]
    BY <1>2, <1>4, <2>1
  <2> QED BY <2>2, <2>3
<1> QED BY <1>5, <1>6, <1>7 DEF tt, t, n

(* The innermost call returns to the one below it, or to X.                *)
LEMMA Returning ==
  ASSUME LifecycleAssumption, NEW st, Nested(st), st # <<>>, NEW result \in BOOLEAN, NEW r,
         r = IF Len(st) = 1 THEN <<>>
             ELSE <<[st[2] EXCEPT !.got = result]>> \o Tail(Tail(st))
  PROVE  /\ Nested(r)
         /\ Len(st) # 1 => r # <<>> /\ SameCalls(st, r)
         /\ Len(st) = 1 => r = <<>>
         /\ Dying(r) = IF st[1].pc = "destroy" THEN Dying(st) \ {st[1].s} ELSE Dying(st)
<1> DEFINE n == Len(st)
<1>1. st \in Seq(Calling) /\ n \in Nat \ {0}
  BY DEF Nested
<1>2. CASE n = 1
  <2>1. r = <<>>
    BY <1>2
  <2>2. Nested(<<>>) /\ Dying(<<>>) = {}
    BY DEF Nested, Dying
  <2>3. ASSUME NEW s \in Dying(st) PROVE st[1].pc = "destroy" /\ s = st[1].s
    BY <1>2, <2>3 DEF Dying
  <2> QED BY <1>2, <2>1, <2>2, <2>3
<1>3. CASE n # 1
  <2> DEFINE y == [st[2] EXCEPT !.got = result]
  <2>1. r = <<y>> \o Tail(Tail(st))
    BY <1>3
  <2>2. st[2] \in Calling
    BY <1>1, <1>3
  <2>3. y \in Calling /\ y.pc = st[2].pc /\ y.s = st[2].s /\ y.big = st[2].big
    BY <2>2 DEF Calling
  <2> HIDE DEF y
  <2>4. /\ r \in Seq(Calling) /\ Len(r) = n - 1 /\ r[1] = y
        /\ \A i \in 1 .. n - 1 : i # 1 => r[i] = st[i + 1]
    <3>1. Len(st) # 1 /\ st \in Seq(Calling)
      BY <1>1, <1>3
    <3>2. /\ <<y>> \o Tail(Tail(st)) \in Seq(Calling)
          /\ Len(<<y>> \o Tail(Tail(st))) = Len(st) - 1
          /\ (<<y>> \o Tail(Tail(st)))[1] = y
          /\ \A i \in 1 .. Len(st) - 1 : i # 1 => (<<y>> \o Tail(Tail(st)))[i] = st[i + 1]
      BY <2>3, <3>1, TwoDown, Zenon
    <3> QED BY <2>1, <3>2, Zenon
  <2> HIDE DEF n
  <2>5. n \in Nat \ {0, 1}
    BY <1>1, <1>3
  <2>6. r # <<>>
    <3>1. Len(r) # 0
      BY <2>4, <2>5
    <3> QED BY <3>1
  <2>7. ASSUME NEW i \in 1 .. n - 1
        PROVE  /\ r[i].pc = st[i + 1].pc /\ r[i].s = st[i + 1].s
               /\ r[i].big = st[i + 1].big /\ i + 1 \in 1 .. n
    <3>1. CASE i = 1
      <4>1. i + 1 = 2 /\ i + 1 \in 1 .. n /\ r[i] = y /\ st[i + 1] = st[2]
        BY <2>4, <2>5, <3>1
      <4> QED BY <2>3, <4>1
    <3>2. CASE i # 1
      <4>1. r[i] = st[i + 1]
        BY <2>4, <3>2
      <4>2. i + 1 \in 1 .. n
        BY <2>5
      <4> QED BY <4>1, <4>2
    <3> QED BY <3>1, <3>2
  <2>8. Nested(r)
    <3>1. ASSUME NEW i \in 1 .. n - 1, NEW j \in 1 .. n - 1, i + 1 = j + 1 PROVE i = j
      BY <3>1
    <3>2. ASSUME NEW i \in 1 .. n - 1
          PROVE  (i < n - 1 => i + 1 < n) /\ (i = n - 1 => i + 1 = n)
      BY <2>5
    <3>3. ASSUME NEW i \in 1 .. n - 1
          PROVE  /\ i < n - 1 => r[i].pc \in Inner
                 /\ i = n - 1 => r[i].pc \notin {"gc", "oom1", "oom2"}
                 /\ r[i].s # Null <=> r[i].pc \in Named
      <4>1. i + 1 \in 1 .. n /\ r[i].pc = st[i + 1].pc /\ r[i].s = st[i + 1].s
        BY <2>7
      <4>2. \A k \in 1 .. n : /\ k < n => st[k].pc \in Inner
                              /\ k = n => st[k].pc \notin {"gc", "oom1", "oom2"}
                              /\ st[k].s # Null <=> st[k].pc \in Named
        BY DEF Nested, n
      <4> QED BY <3>2, <4>1, <4>2
    <3>4. ASSUME NEW i \in 1 .. n - 1, NEW j \in 1 .. n - 1,
                 r[i].pc = "destroy", r[j].pc = "destroy", r[i].s = r[j].s
          PROVE  i = j
      <4>1. /\ i + 1 \in 1 .. n /\ r[i].pc = st[i + 1].pc /\ r[i].s = st[i + 1].s
            /\ j + 1 \in 1 .. n /\ r[j].pc = st[j + 1].pc /\ r[j].s = st[j + 1].s
        BY <2>7
      <4>2. i + 1 = j + 1
        BY <3>4, <4>1 DEF Nested, n
      <4> QED BY <3>1, <4>2
    <3>5. r \in Seq(Calling) /\ Len(r) = n - 1
      BY <2>4
    <3>6. \A i \in 1 .. Len(r) :
            /\ i < Len(r) => r[i].pc \in Inner
            /\ i = Len(r) => r[i].pc \notin {"gc", "oom1", "oom2"}
            /\ r[i].s # Null <=> r[i].pc \in Named
      BY <3>3, <3>5, Zenon
    <3>7. \A i, j \in 1 .. Len(r) :
            r[i].pc = "destroy" /\ r[j].pc = "destroy" /\ r[i].s = r[j].s => i = j
      BY <3>4, <3>5, Zenon
    <3> HIDE DEF n
    <3> QED BY <3>5, <3>6, <3>7, Zenon DEF Nested
  <2>9. SameCalls(st, r)
    <3>1. n - 1 \in 1 .. n - 1 /\ n - 1 + 1 = n
      BY <2>5
    <3> QED BY <2>4, <2>6, <2>7, <3>1 DEF SameCalls, BasePc, BaseS, BaseBig, n
  <2>10. ASSUME NEW s \in Dying(r)
         PROVE  s \in Dying(st) /\ (st[1].pc = "destroy" => s # st[1].s)
    <3>1. PICK i \in 1 .. n - 1 : r[i].pc = "destroy" /\ r[i].s = s
      BY <2>4, <2>10 DEF Dying
    <3>2. st[i + 1].pc = "destroy" /\ st[i + 1].s = s /\ i + 1 \in 1 .. n
      BY <2>7, <3>1
    <3>3. i + 1 # 1 /\ 1 \in 1 .. n
      BY <2>5
    <3> QED BY <2>10, <3>2, <3>3 DEF Dying, Nested, n
  <2>11. ASSUME NEW s \in Dying(st), ~(st[1].pc = "destroy" /\ s = st[1].s) PROVE s \in Dying(r)
    <3>1. PICK i \in 1 .. n : st[i].pc = "destroy" /\ st[i].s = s
      BY <2>11 DEF Dying, n
    <3>2. i - 1 \in 1 .. n - 1 /\ (i - 1) + 1 = i
      BY <2>5, <2>11, <3>1
    <3>3. r[i - 1].pc = "destroy" /\ r[i - 1].s = s
      BY <2>7, <3>1, <3>2
    <3> QED BY <2>4, <2>11, <3>2, <3>3 DEF Dying
  <2> QED BY <1>3, <2>6, <2>8, <2>9, <2>10, <2>11 DEF n
<1> QED BY <1>2, <1>3

(* A call that is not made from another one is under way alone.            *)
LEMMA Alone ==
  ASSUME NEW st, Nested(st), st # <<>>, st[1].pc \notin Inner
  PROVE  /\ st = <<st[1]>> /\ Len(st) = 1 /\ st[1] \in Calling
         /\ BasePc(st) = st[1].pc /\ BaseS(st) = st[1].s /\ BaseBig(st) = st[1].big
         /\ Dying(st) = {}
<1>1. st \in Seq(Calling) /\ Len(st) \in Nat \ {0}
  BY DEF Nested
<1>2. Len(st) = 1
  <2>1. 1 \in 1 .. Len(st)
    BY <1>1
  <2> DEFINE n == Len(st)
  <2>2. ~(1 < n) /\ n \in Nat \ {0}
    BY <1>1, <2>1 DEF Nested
  <2> HIDE DEF n
  <2>3. n = 1
    BY <2>2
  <2> QED BY <2>3 DEF n
<1>3. st = <<st[1]>>
  BY <1>1, <1>2
<1>4. Dying(st) = {}
  BY <1>2 DEF Dying, Inner
<1> QED BY <1>1, <1>2, <1>3, <1>4 DEF BasePc, BaseS, BaseBig

LEMMA NotAlone ==
  ASSUME NEW st, Nested(st), st # <<>>, st[1].pc \in {"gc", "oom1", "oom2"}
  PROVE  Len(st) # 1
BY DEF Nested

LEMMA Single ==
  ASSUME LifecycleAssumption, NEW x \in Calling, x.pc \notin {"gc", "oom1", "oom2"},
         x.s # Null <=> x.pc \in Named
  PROVE  /\ Nested(<<x>>) /\ <<x>> # <<>>
         /\ BasePc(<<x>>) = x.pc /\ BaseS(<<x>>) = x.s /\ BaseBig(<<x>>) = x.big
         /\ Dying(<<x>>) = IF x.pc = "destroy" THEN {x.s} ELSE {}
<1>1. <<x>> \in Seq(Calling) /\ Len(<<x>>) = 1 /\ <<x>>[1] = x /\ <<x>> # <<>>
  OBVIOUS
<1>2. x.s # Null => x.s \in Surfaces
  BY DEF Calling
<1> DEFINE r == <<x>>
<1> HIDE DEF r
<1>3. Nested(r)
  BY <1>1 DEF Nested, r
<1>4. Dying(r) = IF x.pc = "destroy" THEN {x.s} ELSE {}
  BY <1>1, <1>2 DEF Dying, r, Named
<1>5. BasePc(r) = x.pc /\ BaseS(r) = x.s /\ BaseBig(r) = x.big
  BY <1>1 DEF BasePc, BaseS, BaseBig, r
<1> QED BY <1>1, <1>3, <1>4, <1>5 DEF r

LEMMA OneByOne ==
  ASSUME NEW x \in Calling, NEW y \in Calling, NEW st \in Seq(Calling)
  PROVE  <<x, y>> \o st = <<x>> \o (<<y>> \o st) /\ <<x>> \o <<>> = <<x>>
<1>1. <<x>> \in Seq(Calling) /\ <<y>> \in Seq(Calling) /\ <<x, y>> \in Seq(Calling)
  OBVIOUS
<1>2. <<x, y>> = <<x>> \o <<y>>
  <2>1. <<x>> \o <<y>> \in Seq(Calling) /\ Len(<<x>> \o <<y>>) = 2
        /\ (<<x>> \o <<y>>)[1] = x /\ (<<x>> \o <<y>>)[2] = y
    OBVIOUS
  <2> DEFINE r == <<x>> \o <<y>>
             q == <<x, y>>
  <2>2. q \in Seq(Calling) /\ Len(q) = 2 /\ q[1] = x /\ q[2] = y
    BY <1>1
  <2>3. r \in Seq(Calling) /\ Len(r) = 2 /\ r[1] = x /\ r[2] = y
    BY <2>1
  <2> HIDE DEF r, q
  <2>4. \A i \in 1 .. 2 : r[i] = q[i]
    BY <2>2, <2>3
  <2>5. r = q
    BY <2>2, <2>3, <2>4, SeqEqual
  <2> QED BY <2>5 DEF r, q
<1> QED BY <1>1, <1>2, ConcatAssociative, ConcatEmptySeq

(* The same from outside: what the properties say of the calls under way.  *)
LEMMA Outside ==
  ASSUME LifecycleAssumption, Nested(stack)
  PROVE  /\ \A s \in Surfaces : /\ Doing("destroy", s) <=> s \in Dying(stack)
                                /\ \A pc \in {"create", "kill", "copy"} : Doing(pc, s) <=> Doer(pc, s)
         /\ Evacuating <=> Leaving
         /\ \A s \in Surfaces : (\E f \in Frames : f.s = s) =>
              s \in Dying(stack) \/ \E pc \in {"create", "kill", "copy"} : Doer(pc, s)
         /\ \A pc : pc \notin Inner =>
              {f \in Frames : f.pc = pc} = IF BasePc(stack) = pc /\ stack # <<>>
                                           THEN {stack[Len(stack)]} ELSE {}
<1> DEFINE n == Len(stack)
<1>1. stack \in Seq(Calling) /\ n \in Nat /\ Frames = {stack[i] : i \in 1 .. n}
  BY DEF Nested, Frames, Range
<1>2. stack = <<>> <=> n = 0
  BY <1>1
<1>3. n # 0 => n \in 1 .. n
  BY <1>1
<1>4. ASSUME NEW i \in 1 .. n, stack[i].pc \notin Inner PROVE i = n /\ stack # <<>>
  BY <1>1, <1>2, <1>4 DEF Nested
<1>5. ASSUME NEW s \in Surfaces PROVE Doing("destroy", s) <=> s \in Dying(stack)
  BY <1>1 DEF Doing, Dying
<1>6. ASSUME NEW s \in Surfaces, NEW pc \in {"create", "kill", "copy"}
      PROVE  Doing(pc, s) <=> Doer(pc, s)
  <2>1. pc \notin Inner /\ pc # "idle"
    BY <1>6 DEF Inner
  <2>2. ASSUME Doing(pc, s) PROVE Doer(pc, s)
    <3>1. PICK i \in 1 .. n : stack[i].pc = pc /\ stack[i].s = s
      BY <1>1, <2>2 DEF Doing
    <3> QED BY <1>4, <2>1, <3>1 DEF Doer, BasePc, BaseS
  <2>3. ASSUME Doer(pc, s) PROVE Doing(pc, s)
    BY <1>1, <1>2, <1>3, <2>1, <2>3 DEF Doing, Doer, BasePc, BaseS
  <2> QED BY <2>2, <2>3
<1>7. ASSUME NEW pc, pc \notin Inner
      PROVE  {f \in Frames : f.pc = pc} = IF BasePc(stack) = pc /\ stack # <<>>
                                          THEN {stack[n]} ELSE {}
  <2>1. ASSUME NEW f \in Frames, f.pc = pc
        PROVE  BasePc(stack) = pc /\ stack # <<>> /\ f = stack[n]
    BY <1>1, <1>4, <1>7, <2>1 DEF BasePc
  <2>2. ASSUME BasePc(stack) = pc, stack # <<>> PROVE stack[n] \in Frames /\ stack[n].pc = pc
    BY <1>1, <1>2, <1>3, <2>2 DEF BasePc
  <2> HIDE DEF n
  <2> QED BY <2>1, <2>2
<1>8. Evacuating <=> Leaving
  <2>1. "evacuate" \notin Inner /\ "evacuated" \notin Inner
    BY DEF Inner
  <2>2. ASSUME NEW pc \in {"evacuate", "evacuated"}
        PROVE  (\E f \in Frames : f.pc = pc) <=> BasePc(stack) = pc
    <3>1. pc \notin Inner /\ pc # "idle"
      BY <2>1, <2>2
    <3>2. BasePc(stack) = pc => stack # <<>>
      BY <3>1 DEF BasePc
    <3> QED BY <1>7, <3>1, <3>2
  <2> QED BY <2>2 DEF Evacuating, Leaving
<1>9. ASSUME NEW s \in Surfaces, NEW f \in Frames, f.s = s
      PROVE  s \in Dying(stack) \/ \E pc \in {"create", "kill", "copy"} : Doer(pc, s)
  <2>1. PICK i \in 1 .. n : f = stack[i]
    BY <1>1
  <2>2. s # Null
    BY DEF LifecycleAssumption, Surfaces
  <2>3. f.pc \in Named
    BY <1>9, <2>1, <2>2 DEF Nested
  <2> QED BY <1>5, <1>6, <1>9, <2>3 DEF Named, Doing
<1> HIDE DEF n
<1> QED BY <1>5, <1>6, <1>7, <1>8, <1>9 DEF n

-----------------------------------------------------------------------------
(* What the invariant says.                                                *)
ConstantsAssumption == CacheArrayAssumption /\ LifecycleAssumption

Held == {s \in Surfaces : bo[s] > 0}

LEMMA SurfacesFinite ==
  ASSUME LifecycleAssumption
  PROVE  /\ IsFiniteSet(Surfaces) /\ Cardinality({}) = 0
         /\ \A X \in SUBSET Surfaces : IsFiniteSet(X) /\ Cardinality(X) \in Nat
<1>1. IsFiniteSet(Surfaces)
  BY FS_Interval DEF LifecycleAssumption, Surfaces
<1> QED BY <1>1, FS_Subset, FS_CardinalityType, FS_EmptySet

LEMMA UnitsAreNat ==
  ASSUME LifecycleAssumption, NEW X \in SUBSET Surfaces, NEW big
  PROVE  UnitsOf(X, big) \in Nat
<1>1. X \cap big \in SUBSET Surfaces
  OBVIOUS
<1> QED BY <1>1, SurfacesFinite DEF UnitsOf

LEMMA UnitsWith ==
  ASSUME LifecycleAssumption, NEW X \in SUBSET Surfaces, NEW big, NEW big2,
         NEW s \in Surfaces, s \notin X, \A r \in X : r \in big <=> r \in big2
  PROVE  UnitsOf(X \union {s}, big2) = UnitsOf(X, big) + Units(s \in big2)
<1> DEFINE Y == X \union {s}
<1>1. X \cap big = X \cap big2 /\ X \cap big \in SUBSET Surfaces /\ s \notin X \cap big
  OBVIOUS
<1>2. /\ Cardinality(X \union {s}) = Cardinality(X) + 1
      /\ Cardinality((X \cap big) \union {s}) = Cardinality(X \cap big) + 1
      /\ Cardinality(X) \in Nat /\ Cardinality(X \cap big) \in Nat
  BY <1>1, SurfacesFinite, FS_AddElement
<1>3. CASE s \in big2
  <2>1. (X \union {s}) \cap big2 = (X \cap big) \union {s}
    BY <1>1, <1>3
  <2>2. UnitsOf(Y, big2) = Cardinality(X) + 1 + (Cardinality(X \cap big) + 1)
    BY <1>2, <2>1 DEF UnitsOf
  <2>3. UnitsOf(X, big) = Cardinality(X) + Cardinality(X \cap big) /\ Units(s \in big2) = 2
    BY <1>3 DEF UnitsOf, Units
  <2> QED BY <1>2, <2>2, <2>3
<1>4. CASE s \notin big2
  <2>1. (X \union {s}) \cap big2 = X \cap big
    BY <1>1, <1>4
  <2>2. UnitsOf(Y, big2) = Cardinality(X) + 1 + Cardinality(X \cap big)
    BY <1>2, <2>1 DEF UnitsOf
  <2>3. UnitsOf(X, big) = Cardinality(X) + Cardinality(X \cap big) /\ Units(s \in big2) = 1
    BY <1>4 DEF UnitsOf, Units
  <2> QED BY <1>2, <2>2, <2>3
<1> QED BY <1>3, <1>4

LEMMA TypesAndNat ==
  ASSUME LifecycleAssumption, IInv
  PROVE  /\ avail \in Nat /\ Reserved \in Nat /\ Vram \in Nat
         /\ \A s \in Surfaces : /\ refs[s] \in Nat /\ bo[s] \in 0 .. 2
                                /\ copies[s] \in 0 .. MaxCopies
                                /\ destroys[s] \in 0 .. 1 /\ device[s] \in Int
         /\ MaxCopies \in Nat
BY DEF LifecycleAssumption, IInv, TypeOK, Reserved, Units

LEMMA RefCounts == ASSUME LifecycleAssumption, IInv PROVE RefCountExact
<1> SUFFICES ASSUME Normal, NEW s \in Surfaces
             PROVE  refs[s] = One(s \in live) + One(Doing("create", s)) + One(Doing("kill", s))
                              + One(s \in Cached(cached)) + copies[s] + One(Doing("copy", s))
  BY DEF RefCountExact
<1>1. vt = "here" /\ ~Leaving
  BY Outside DEF Normal, IInv
<1>2. Doing("create", s) = Making(s) /\ Doing("kill", s) = Doer("kill", s)
      /\ Doing("copy", s) = Doer("copy", s)
  <2>1. /\ Doing("create", s) <=> Doer("create", s)
        /\ Doing("kill", s) <=> Doer("kill", s)
        /\ Doing("copy", s) <=> Doer("copy", s)
    BY Outside DEF IInv
  <2>2. /\ Doing("create", s) \in BOOLEAN /\ Doing("kill", s) \in BOOLEAN
        /\ Doing("copy", s) \in BOOLEAN /\ Doer("create", s) \in BOOLEAN
        /\ Doer("kill", s) \in BOOLEAN /\ Doer("copy", s) \in BOOLEAN
    BY DEF Doing, Doer
  <2> QED BY <2>1, <2>2 DEF Making
<1>3. refs[s] = One(s \in live) + One(Making(s)) + One(Doer("kill", s))
                + One(s \in Cached(cached)) + copies[s] + One(Doer("copy", s))
  BY <1>1 DEF IInv, HolderInv
<1> QED BY <1>2, <1>3

LEMMA Protocol == ASSUME LifecycleAssumption, IInv PROVE DeviceProtocol
<1>1. CommandsAccepted
  <2>1. ASSUME NEW s \in Surfaces PROVE device[s] \in {0, 1}
    BY DEF IInv, PhaseInv, AwayInv, Zero
  <2>2. ASSUME NEW s \in Surfaces, Normal, s \in live \/ s \in Cached(cached) \/ copies[s] > 0
        PROVE  device[s] = 1
    <3>1. vt = "here" /\ ~Leaving
      BY <2>2, Outside DEF Normal, IInv
    <3>2. /\ refs[s] = One(s \in live) + One(Making(s)) + One(Doer("kill", s))
                        + One(s \in Cached(cached)) + copies[s] + One(Doer("copy", s))
          /\ device[s] = 1 <=> (refs[s] > 0 /\ ~Making(s)) \/ s \in Dying(stack)
          /\ Making(s) => refs[s] = 1
      BY <3>1 DEF IInv, HolderInv
    <3>3. refs[s] > 0 /\ ~Making(s)
      BY <2>2, <3>2, TypesAndNat DEF One
    <3> QED BY <3>2, <3>3
  <2> QED BY <2>1, <2>2 DEF CommandsAccepted
<1>2. FreeIsUnused
  <2>1. ASSUME Normal, NEW s \in Range(free)
        PROVE  /\ refs[s] = 0 /\ bo[s] = 0 /\ device[s] = 0 /\ destroys[s] = 0
               /\ s \notin live \union Cached(cached)
               /\ \A f \in Frames : f.s # s
    <3>0. s \in Surfaces
      BY <2>1 DEF IInv, TypeOK, Range
    <3>1. vt = "here" /\ ~Leaving
      BY <2>1, Outside DEF Normal, IInv
    <3>2. /\ device[s] \in {0, 1}
          /\ device[s] + destroys[s] + One(Making(s)) + One(s \in Range(free)) = 1
          /\ s \in Dying(stack) => device[s] = 1
          /\ bo[s] = 2 * device[s] + destroys[s] + One(Making(s))
      BY <3>0, <3>1 DEF IInv, PhaseInv
    <3>3. device[s] = 0 /\ destroys[s] = 0 /\ ~Making(s) /\ bo[s] = 0 /\ s \notin Dying(stack)
      BY <2>1, <3>0, <3>2, TypesAndNat DEF One
    <3>4. /\ refs[s] = One(s \in live) + One(Making(s)) + One(Doer("kill", s))
                        + One(s \in Cached(cached)) + copies[s] + One(Doer("copy", s))
          /\ device[s] = 1 <=> (refs[s] > 0 /\ ~Making(s)) \/ s \in Dying(stack)
      BY <3>0, <3>1 DEF IInv, HolderInv
    <3>5. /\ refs[s] = 0 /\ s \notin live /\ s \notin Cached(cached)
          /\ ~Doer("kill", s) /\ ~Doer("copy", s)
      BY <3>0, <3>3, <3>4, TypesAndNat DEF One
    <3>6. \A f \in Frames : f.s # s
      BY <3>0, <3>3, <3>5, Outside DEF IInv, Making
    <3> QED BY <3>3, <3>5, <3>6
  <2> QED BY <2>1 DEF FreeIsUnused, IInv
<1> QED BY <1>1, <1>2 DEF DeviceProtocol, IInv

LEMMA Memory == ASSUME LifecycleAssumption, IInv PROVE MemoryExact
<1>1. avail <= Vram
  BY TypesAndNat DEF IInv, MemoryInv
<1>2. ASSUME vt = "here", NEW s \in Surfaces, device[s] + destroys[s] > 0 PROVE bo[s] > 0
  BY <1>2, TypesAndNat DEF IInv, PhaseInv, One
<1>3. ASSUME vt = "here", NEW taken, taken = {f \in Frames : f.pc \in {"list", "listoom"}}
      PROVE  avail = Vram - UnitsOf(Held, large) - UnitsOf(taken, {f \in taken : f.big})
  <2> DEFINE last == stack[Len(stack)]
  <2>1. taken = IF BasePc(stack) \in {"list", "listoom"} THEN {last} ELSE {}
    <3>1. /\ "list" \notin Inner /\ "listoom" \notin Inner
          /\ BasePc(stack) \in {"list", "listoom"} => stack # <<>>
      BY DEF Inner, BasePc
    <3>2. taken = {f \in Frames : f.pc = "list"} \union {f \in Frames : f.pc = "listoom"}
      BY <1>3
    <3> QED BY <3>1, <3>2, Outside DEF IInv
  <2>2. UnitsOf(taken, {f \in taken : f.big}) = Reserved
    <3>1. CASE BasePc(stack) \in {"list", "listoom"}
      <4>1. taken = {last} /\ BaseBig(stack) = last.big
        BY <2>1, <3>1 DEF BaseBig, BasePc
      <4>2. Cardinality({last}) = 1 /\ Cardinality({}) = 0
        BY FS_Singleton, FS_EmptySet
      <4>3. {last} \cap {f \in {last} : f.big} = IF last.big THEN {last} ELSE {}
        OBVIOUS
      <4> HIDE DEF last
      <4>4. UnitsOf({last}, {f \in {last} : f.big}) = Units(last.big)
        BY <4>2, <4>3 DEF UnitsOf, Units
      <4> QED BY <3>1, <4>1, <4>4 DEF Reserved
    <3>2. CASE BasePc(stack) \notin {"list", "listoom"}
      <4>1. taken = {} /\ {} \cap {f \in {} : f.big} = {}
        BY <2>1, <3>2
      <4> QED BY <3>2, <4>1, FS_EmptySet DEF Reserved, UnitsOf
    <3> QED BY <3>1, <3>2
  <2> QED BY <1>3, <2>2 DEF IInv, MemoryInv, Held
<1>4. ASSUME vt = "here"
      PROVE  LET taken == {f \in Frames : f.pc \in {"list", "listoom"}} IN
             avail = Vram - UnitsOf({s \in Surfaces : bo[s] > 0}, large)
                          - UnitsOf(taken, {f \in taken : f.big})
  BY <1>3, <1>4 DEF Held
<1> QED BY <1>1, <1>2, <1>4 DEF MemoryExact

LEMMA AllFree ==
  ASSUME NSurfaces \in Nat
  PROVE  /\ Descending \in Seq(Surfaces) /\ Range(Descending) = Surfaces
         /\ \A i, j \in DOMAIN Descending : Descending[i] = Descending[j] => i = j
<1>1. Descending = [i \in 1 .. NSurfaces |-> NSurfaces + 1 - i]
  BY DEF Descending
<1>2. Descending \in Seq(Surfaces)
  <2>1. \A i \in 1 .. NSurfaces : NSurfaces + 1 - i \in Surfaces
    BY DEF Surfaces
  <2> QED BY <2>1, IsASeq DEF Descending
<1>3. ASSUME NEW s \in Surfaces PROVE s \in Range(Descending)
  <2>1. NSurfaces + 1 - s \in 1 .. NSurfaces /\ NSurfaces + 1 - (NSurfaces + 1 - s) = s
    BY DEF Surfaces
  <2> QED BY <1>1, <2>1 DEF Range
<1>4. Range(Descending) \subseteq Surfaces
  BY <1>2 DEF Range
<1>5. \A i, j \in DOMAIN Descending : Descending[i] = Descending[j] => i = j
  BY <1>1
<1> QED BY <1>2, <1>3, <1>4, <1>5

LEMMA Starting == ASSUME ConstantsAssumption, Init PROVE IInv
<1>0. NSurfaces \in Nat \ {0} /\ Vram \in Nat /\ MaxCopies \in Nat /\ Null \notin Surfaces
      /\ NCached \in Nat \ {0}
  BY DEF ConstantsAssumption, CacheArrayAssumption, LifecycleAssumption, Surfaces
<1>1. TypeOK
  <2>1. free \in Seq(Surfaces)
    BY <1>0, AllFree DEF Init
  <2>2. cached \in [Indices -> Surfaces \union {Null}]
    BY DEF Init, NoneCached
  <2>3. refs \in [Surfaces -> Nat] /\ bo \in [Surfaces -> 0 .. 2]
        /\ copies \in [Surfaces -> 0 .. MaxCopies] /\ destroys \in [Surfaces -> 0 .. 1]
        /\ device \in [Surfaces -> Int]
    BY <1>0 DEF Init, Zero
  <2> QED BY <1>0, <2>1, <2>2, <2>3 DEF Init, TypeOK
<1>2. Once(cached) /\ Cached(cached) = {}
  BY DEF Init, Once, NoneCached, Cached, Occupied
<1>3. Nested(stack) /\ BasePc(stack) = "idle" /\ Dying(stack) = {}
  BY DEF Init, Nested, BasePc, Dying
<1>4. Range(free) = Surfaces /\ \A i, j \in DOMAIN free : free[i] = free[j] => i = j
  BY <1>0, AllFree DEF Init
<1>5. Reserved = 0 /\ UnitsOf(Held, large) = 0
  <2>1. Held = {} /\ {} \cap large = {}
    BY DEF Init, Held, Zero
  <2> QED BY <1>3, <2>1, FS_EmptySet DEF Reserved, UnitsOf
<1>6. vt = "here" /\ ~Leaving /\ \A pc, s : pc # "idle" => ~Doer(pc, s)
  BY <1>3 DEF Init, Leaving, Doer
<1>7. PhaseInv
  BY <1>3, <1>4, <1>6 DEF Init, Zero, PhaseInv, One, Making
<1>8. HolderInv
  BY <1>2, <1>3, <1>6 DEF Init, Zero, HolderInv, One, Making
<1>9. LeavingInv /\ AwayInv /\ MemoryInv
  BY <1>0, <1>5, <1>6 DEF Init, LeavingInv, AwayInv, MemoryInv, Held
<1>10. live \intersect Cached(cached) = {} /\ BasePc(stack) # "evacuated"
  BY <1>2, <1>3
<1> QED BY <1>1, <1>2, <1>3, <1>4, <1>7, <1>8, <1>9, <1>10 DEF IInv

-----------------------------------------------------------------------------
(* Where a surface is in its life, from outside the calls under way.       *)
Place(s) == IF s \in live THEN "live"
            ELSE IF destroys[s] > 0 \/ s \in Dying(stack) THEN "destroyed"
            ELSE IF s \in Range(free) \/ Making(s) THEN "free"
            ELSE "dead"

Edges == {<<"free", "live">>, <<"live", "dead">>, <<"dead", "live">>,
          <<"dead", "destroyed">>, <<"destroyed", "free">>}

Proceeds == \A s \in Surfaces : Place(s)' # Place(s) => <<Place(s), Place(s)'>> \in Edges

Keeps == IInv' /\ (vt = "here" /\ vt' = "here" => Proceeds)

LEMMA PlaceIsState ==
  ASSUME LifecycleAssumption, Nested(stack), NEW s \in Surfaces
  PROVE  Place(s) = State(s)
<1>1. (Doing("destroy", s) <=> s \in Dying(stack)) /\ (Doing("create", s) <=> Making(s))
  BY Outside DEF Making
<1> QED BY <1>1 DEF Place, State

(* The calls on the way to a new surface, which no surface is in yet.      *)
Calm == {"idle", "bo", "nobo", "booom", "drain", "list", "listoom"}

(* Steps that only change the calls under way and the memory they took.    *)
LEMMA Buffering ==
  ASSUME ConstantsAssumption, IInv, Nested(stack'), Dying(stack') = Dying(stack),
         UNCHANGED <<refs, bo, large, listvars, devvars, vt>>, vt \in {"here", "lost"},
         avail' \in Nat, avail' + Reserved' = avail + Reserved,
         \/ SameCalls(stack, stack')
         \/ BasePc(stack) \in Calm /\ BasePc(stack') \in Calm
  PROVE  Keeps
<1>1. /\ refs' = refs /\ bo' = bo /\ large' = large /\ free' = free
      /\ live' = live /\ cached' = cached /\ copies' = copies /\ destroys' = destroys
      /\ device' = device /\ vt' = vt
  BY DEF listvars, devvars
<1>2. \A s, pc : pc \in {"create", "kill", "copy"} => (Doer(pc, s)' <=> Doer(pc, s))
  BY DEF Doer, SameCalls, Calm
<1>3. Reserved \in Nat /\ Reserved' \in Nat /\ avail \in Nat /\ Vram \in Nat
      /\ UnitsOf(Held, large) \in Nat
  <2>1. Held \in SUBSET Surfaces
    BY DEF Held
  <2> QED BY <2>1, UnitsAreNat, TypesAndNat DEF Reserved, Units, ConstantsAssumption
<1>4. /\ Leaving' <=> Leaving
      /\ BasePc(stack') = "evacuated" <=> BasePc(stack) = "evacuated"
      /\ BasePc(stack') \in Named <=> BasePc(stack) \in Named
  BY DEF Leaving, SameCalls, Calm, Named
<1>5. \A s : Making(s)' <=> Making(s)
  BY <1>2 DEF Making
<1>6. TypeOK'
  BY <1>1 DEF IInv, TypeOK, Nested, Calling
<1>7. PhaseInv'
  BY <1>1, <1>5 DEF IInv, PhaseInv, One
<1>8. HolderInv'
  BY <1>1, <1>2, <1>4, <1>5 DEF IInv, HolderInv, One
<1>9. LeavingInv'
  BY <1>1, <1>4 DEF IInv, LeavingInv, One
<1>10. AwayInv'
  BY <1>1, <1>4 DEF IInv, AwayInv
<1>11. MemoryInv'
  <2>1. Held' = Held
    BY <1>1 DEF Held
  <2>2. avail + Reserved <= Vram /\ (vt = "here" => avail = Vram - UnitsOf(Held, large) - Reserved)
    BY DEF IInv, MemoryInv, Held
  <2>3. avail' + Reserved' <= Vram
    BY <2>2
  <2>4. ASSUME vt = "here" PROVE avail' = Vram - UnitsOf(Held, large) - Reserved'
    <3> DEFINE u == UnitsOf(Held, large)
               a == Reserved
               b == Reserved'
               c == avail'
    <3>1. u \in Nat /\ a \in Nat /\ b \in Nat /\ c \in Nat /\ avail = Vram - u - a
      BY <1>3, <2>2, <2>4
    <3>2. c + b = avail + a
      OBVIOUS
    <3> HIDE DEF u, a, b, c
    <3>3. c = Vram - u - b
      BY <1>3, <3>1, <3>2
    <3> QED BY <3>3 DEF u, b, c
  <2> QED BY <1>1, <2>1, <2>3, <2>4 DEF MemoryInv, Held
<1>12. IInv'
  BY <1>1, <1>4, <1>6, <1>7, <1>8, <1>9, <1>10, <1>11 DEF IInv
<1>13. ASSUME NEW s \in Surfaces PROVE Place(s)' = Place(s)
  BY <1>1, <1>5 DEF Place
<1> QED BY <1>12, <1>13 DEF Keeps, Proceeds

(* Steps that only change the calls under way.                             *)
LEMMA Quietly ==
  ASSUME ConstantsAssumption, IInv, Nested(stack'), Dying(stack') = Dying(stack),
         UNCHANGED <<refs, memvars, listvars, devvars, vt>>, vt \in {"here", "lost"},
         \/ SameCalls(stack, stack')
         \/ BasePc(stack) \in Calm /\ BasePc(stack') \in Calm /\ Reserved' = Reserved
  PROVE  Keeps
<1>1. Reserved' = Reserved
  BY DEF Reserved, SameCalls
<1>2. avail' = avail /\ UNCHANGED <<refs, bo, large, listvars, devvars, vt>>
  BY DEF memvars
<1>3. avail \in Nat
  BY DEF IInv, TypeOK
<1> QED BY <1>1, <1>2, <1>3, Buffering

LEMMA Underway ==
  ASSUME ConstantsAssumption, IInv, stack # <<>>
  PROVE  /\ Nested(stack) /\ Top = stack[1] /\ Top \in Calling /\ stack \in Seq(Calling)
         /\ Tail(stack) \in Seq(Calling) /\ stack = <<Top>> \o Tail(stack)
         /\ vt \in {"here", "lost"} /\ LifecycleAssumption
<1>1. Nested(stack) /\ stack \in Seq(Calling)
  BY DEF IInv, Nested
<1>2. Top = stack[1] /\ Top \in Calling /\ Tail(stack) \in Seq(Calling) /\ stack = <<Top>> \o Tail(stack)
  BY <1>1 DEF Top
<1>3. vt \in {"here", "lost"}
  BY DEF IInv, AwayInv, TypeOK
<1> QED BY <1>1, <1>2, <1>3 DEF ConstantsAssumption

(* The innermost call, not made from another one, goes on to pc.           *)
LEMMA Proceeding ==
  ASSUME ConstantsAssumption, IInv, stack # <<>>, Top.pc \notin Inner,
         NEW pc \in Pcs, pc \notin Inner \union Named, Top.pc \notin Named
  PROVE  LET x == [Top EXCEPT !.pc = pc]
             st == <<x>> \o Tail(stack) IN
         /\ x \in Calling /\ st = <<x>> /\ Nested(st)
         /\ BasePc(st) = pc /\ BaseS(st) = Null /\ BaseBig(st) = Top.big
         /\ Dying(st) = {}
         /\ BasePc(stack) = Top.pc /\ BaseS(stack) = Null /\ BaseBig(stack) = Top.big
         /\ Dying(stack) = {} /\ Tail(stack) = <<>>
<1> DEFINE x == [Top EXCEPT !.pc = pc]
<1>1. x \in Calling /\ x.pc = pc /\ x.s = Top.s /\ x.big = Top.big
  BY Underway DEF Calling
<1>2. /\ stack = <<Top>> /\ Len(stack) = 1 /\ Dying(stack) = {}
      /\ BasePc(stack) = Top.pc /\ BaseS(stack) = Top.s /\ BaseBig(stack) = Top.big
  BY Underway, Alone
<1>3. Top.s = Null
  <2>1. 1 \in 1 .. Len(stack)
    BY <1>2
  <2> QED BY <2>1, Underway DEF Nested
<1>4. Tail(stack) = <<>>
  <2> DEFINE t == Top
  <2>1. t \in Calling
    BY Underway
  <2> HIDE DEF t
  <2>2. Tail(<<t>>) = <<>>
    OBVIOUS
  <2> QED BY <1>2, <2>2 DEF t
<1> HIDE DEF x
<1>5. <<x>> \o Tail(stack) = <<x>>
  <2>1. <<>> \in Seq(Calling)
    OBVIOUS
  <2> QED BY <1>1, <1>4, <2>1, OneByOne
<1>6. /\ Nested(<<x>>) /\ BasePc(<<x>>) = x.pc /\ BaseS(<<x>>) = x.s /\ BaseBig(<<x>>) = x.big
      /\ Dying(<<x>>) = IF x.pc = "destroy" THEN {x.s} ELSE {}
  <2>1. x.pc \notin {"gc", "oom1", "oom2"} /\ (x.s # Null <=> x.pc \in Named)
    BY <1>1, <1>3 DEF Inner
  <2> QED BY <1>1, <2>1, Single, Underway
<1> QED BY <1>1, <1>2, <1>3, <1>4, <1>5, <1>6 DEF x, Inner

(* It calls a collection, through qxl_handle_oom or not.                   *)
LEMMA CallingGc ==
  ASSUME ConstantsAssumption, NEW st, Nested(st), st # <<>>
  PROVE  /\ Nested(<<Gc>> \o st) /\ <<Gc>> \o st # <<>>
         /\ SameCalls(st, <<Gc>> \o st) /\ Dying(<<Gc>> \o st) = Dying(st)
<1>1. Gc \in Calling /\ Gc.pc = "gc" /\ Gc.s = Null /\ "gc" \in Inner
  BY Framing DEF Gc, Frame, Calling, Pcs, Inner
<1>2. Gc.s \notin Dying(st) /\ LifecycleAssumption
  BY <1>1 DEF Dying, ConstantsAssumption, LifecycleAssumption, Surfaces
<1> QED BY <1>1, <1>2, Pushing

LEMMA CallingOom ==
  ASSUME ConstantsAssumption, NEW st, Nested(st), st # <<>>
  PROVE  /\ Nested(<<Gc, Frame("oom1", Null)>> \o st)
         /\ SameCalls(st, <<Gc, Frame("oom1", Null)>> \o st)
         /\ Dying(<<Gc, Frame("oom1", Null)>> \o st) = Dying(st)
<1> DEFINE o == Frame("oom1", Null)
<1>1. o \in Calling /\ o.pc = "oom1" /\ o.s = Null /\ "oom1" \in Inner /\ Gc \in Calling
  BY DEF Frame, Gc, Calling, Pcs, Inner
<1>2. o.s \notin Dying(st) /\ LifecycleAssumption /\ st \in Seq(Calling)
  BY <1>1 DEF Dying, ConstantsAssumption, LifecycleAssumption, Surfaces, Nested
<1> HIDE DEF o
<1>3. /\ Nested(<<o>> \o st) /\ <<o>> \o st # <<>>
      /\ SameCalls(st, <<o>> \o st) /\ Dying(<<o>> \o st) = Dying(st)
  BY <1>1, <1>2, Pushing
<1>4. <<Gc, o>> \o st = <<Gc>> \o (<<o>> \o st)
  BY <1>1, <1>2, OneByOne
<1>5. /\ Nested(<<Gc>> \o (<<o>> \o st)) /\ Dying(<<Gc>> \o (<<o>> \o st)) = Dying(<<o>> \o st)
      /\ SameCalls(<<o>> \o st, <<Gc>> \o (<<o>> \o st))
  BY <1>3, CallingGc
<1> QED BY <1>3, <1>4, <1>5 DEF o, SameCalls

(* A collection or a retry returns to the call that made it.               *)
LEMMA InnerReturns ==
  ASSUME ConstantsAssumption, IInv, stack # <<>>, Top.pc \in {"gc", "oom1", "oom2"},
         NEW result \in BOOLEAN, Return(result)
  PROVE  Nested(stack') /\ SameCalls(stack, stack') /\ Dying(stack') = Dying(stack)
<1>1. Len(stack) # 1
  BY Underway, NotAlone
<1> DEFINE r == stack'
<1>2. r = IF Len(stack) = 1 THEN <<>>
          ELSE <<[stack[2] EXCEPT !.got = result]>> \o Tail(Tail(stack))
  BY DEF Return
<1> HIDE DEF r
<1>3. Nested(r) /\ SameCalls(stack, r) /\ Dying(r) = Dying(stack)
  BY <1>1, <1>2, Underway, Returning
<1> QED BY <1>3 DEF r

LEMMA GcOtherStep == ASSUME ConstantsAssumption, IInv, GcOther PROVE Keeps
<1> DEFINE x == [Top EXCEPT !.got = TRUE]
<1>1. /\ stack # <<>> /\ stack' = <<x>> \o Tail(stack)
      /\ UNCHANGED <<refs, memvars, listvars, devvars, vt>>
  BY DEF GcOther, At, Found1
<1>2. x \in Calling /\ x.pc = stack[1].pc /\ x.s = stack[1].s /\ x.big = stack[1].big
  BY <1>1, Underway DEF Calling
<1> HIDE DEF x
<1> QED BY <1>1, <1>2, Underway, Resuming, Quietly

LEMMA GcReturnStep == ASSUME ConstantsAssumption, IInv, GcReturn PROVE Keeps
<1>1. /\ stack # <<>> /\ Top.pc = "gc" /\ Return(Top.got)
      /\ UNCHANGED <<refs, memvars, listvars, devvars, vt>>
  BY DEF GcReturn, At
<1>2. Top.got \in BOOLEAN
  BY <1>1, Underway DEF Calling
<1> QED BY <1>1, <1>2, Underway, InnerReturns, Quietly

LEMMA OomStep == ASSUME ConstantsAssumption, IInv, Oom PROVE Keeps
<1>1. stack # <<>> /\ UNCHANGED <<refs, memvars, listvars, devvars, vt>>
  BY DEF Oom, At
<1>2. CASE At("oom1") /\ Calls(Gc, "oom2")
  <2> DEFINE x == [Top EXCEPT !.pc = "oom2"]
             st == <<x>> \o Tail(stack)
  <2>1. Top.pc = "oom1" /\ stack' = <<Gc, x>> \o Tail(stack)
    BY <1>2 DEF At, Calls
  <2>2. x \in Calling /\ x.pc = "oom2" /\ x.s = Top.s /\ x.big = Top.big
    BY <1>1, Underway DEF Calling, Pcs
  <2>3. Gc \in Calling
    BY DEF Gc, Frame, Calling, Pcs
  <2> HIDE DEF x
  <2>4. Nested(st) /\ st # <<>> /\ SameCalls(stack, st) /\ Dying(st) = Dying(stack)
    <3>1. /\ st \in Seq(Calling) /\ Len(st) = Len(stack) /\ st # <<>> /\ st[1] = x
          /\ \A i \in 1 .. Len(stack) : i # 1 => st[i] = stack[i]
      BY <1>1, <2>2, Underway
    <3>2. Len(stack) \in Nat /\ Len(stack) # 1 /\ Len(stack) # 0 /\ 1 \in 1 .. Len(stack)
      BY <1>1, <2>1, Underway, NotAlone
    <3>3. stack[1].pc = "oom1" /\ stack[1].s = x.s /\ stack[1].big = x.big
      BY <1>1, <2>1, <2>2, Underway
    <3> HIDE DEF st
    <3>4. Nested(st)
      <4>1. Nested(stack)
        BY <1>1, Underway
      <4>2. ASSUME NEW i \in 1 .. Len(stack)
            PROVE  /\ i < Len(stack) => st[i].pc \in Inner
                   /\ i = Len(stack) => st[i].pc \notin {"gc", "oom1", "oom2"}
                   /\ st[i].s # Null <=> st[i].pc \in Named
        BY <2>2, <3>1, <3>2, <3>3, <4>1 DEF Nested, Inner, Named
      <4>3. \A i \in 1 .. Len(stack) : st[i].pc = "destroy" => stack[i].pc = "destroy" /\ st[i].s = stack[i].s
        BY <2>2, <3>1
      <4> QED BY <3>1, <4>1, <4>2, <4>3 DEF Nested
    <3>5. SameCalls(stack, st)
      <4>1. Len(stack) \in 1 .. Len(stack) /\ st[Len(stack)] = stack[Len(stack)]
        BY <3>1, <3>2
      <4> QED BY <1>1, <3>1, <4>1 DEF SameCalls, BasePc, BaseS, BaseBig
    <3>6. Dying(st) = Dying(stack)
      BY <2>2, <3>1, <3>3 DEF Dying
    <3> QED BY <3>1, <3>4, <3>5, <3>6
  <2>5. stack' = <<Gc>> \o st
    BY <1>1, <2>1, <2>2, <2>3, Underway, OneByOne
  <2> HIDE DEF st
  <2>6. /\ Nested(stack') /\ Dying(stack') = Dying(stack) /\ SameCalls(stack, stack')
    BY <2>4, <2>5, CallingGc DEF SameCalls
  <2> QED BY <1>1, <2>6, Underway, Quietly
<1>3. CASE At("oom2") /\ Return(Top.got)
  <2>1. Top.got \in BOOLEAN /\ Top.pc = "oom2"
    BY <1>1, <1>3, Underway DEF Calling, At
  <2> QED BY <1>1, <1>3, <2>1, Underway, InnerReturns, Quietly
<1> QED BY <1>2, <1>3 DEF Oom

(* The outermost call goes on to pc, or first collects.                    *)
LEMMA CalmSteps ==
  ASSUME ConstantsAssumption, IInv, stack # <<>>, Top.pc \in Calm, NEW pc \in Pcs, pc \in Calm,
         GoTo(pc) \/ Calls(Gc, pc) \/ HandleOom(pc)
  PROVE  /\ Nested(stack') /\ Dying(stack') = {} /\ Dying(stack) = {}
         /\ BasePc(stack) = Top.pc /\ BasePc(stack') = pc
         /\ BaseBig(stack) = Top.big /\ BaseBig(stack') = Top.big /\ BaseS(stack') = Null
<1> DEFINE x == [Top EXCEPT !.pc = pc]
           st == <<x>> \o Tail(stack)
<1>1. /\ x \in Calling /\ Nested(st) /\ Dying(st) = {} /\ Dying(stack) = {}
      /\ BasePc(st) = pc /\ BaseS(st) = Null /\ BaseBig(st) = Top.big
      /\ BasePc(stack) = Top.pc /\ BaseBig(stack) = Top.big /\ Tail(stack) = <<>> /\ st = <<x>>
  <2>1. Top.pc \notin Inner \union Named /\ pc \notin Inner \union Named
    BY DEF Calm, Inner, Named
  <2> QED BY <2>1, Proceeding
<1>2. st # <<>>
  <2>1. <<x>> # <<>>
    OBVIOUS
  <2> QED BY <1>1, <2>1
<1>3. Gc \in Calling /\ Frame("oom1", Null) \in Calling /\ <<>> \in Seq(Calling)
  BY DEF Gc, Frame, Calling, Pcs
<1>4. CASE GoTo(pc)
  <2>1. stack' = st
    BY <1>4 DEF GoTo
  <2> QED BY <1>1, <2>1
<1>5. CASE Calls(Gc, pc)
  <2>1. stack' = <<Gc, x>> \o Tail(stack)
    BY <1>5 DEF Calls
  <2> HIDE DEF x
  <2>2. stack' = <<Gc>> \o st
    BY <1>1, <1>3, <2>1, OneByOne
  <2> HIDE DEF st
  <2> QED BY <1>1, <1>2, <2>2, CallingGc DEF SameCalls
<1>6. CASE HandleOom(pc)
  <2> DEFINE o == Frame("oom1", Null)
  <2>1. stack' = <<Gc, o, x>> \o Tail(stack)
    BY <1>6 DEF HandleOom
  <2> HIDE DEF x, o
  <2>2. stack' = <<Gc, o>> \o st
    <3>1. o \in Calling /\ x \in Calling /\ Gc \in Calling
      BY <1>1, <1>3 DEF o
    <3>2. <<Gc, o, x>> \o <<>> = <<Gc, o>> \o <<x>>
      BY <3>1
    <3> QED BY <1>1, <2>1, <3>2
  <2> HIDE DEF st
  <2> QED BY <1>1, <1>2, <2>2, CallingOom DEF SameCalls, o
<1> QED BY <1>4, <1>5, <1>6

LEMMA CalmStep ==
  ASSUME ConstantsAssumption, IInv, stack # <<>>, Top.pc \in Calm, NEW pc \in Pcs, pc \in Calm,
         GoTo(pc) \/ Calls(Gc, pc) \/ HandleOom(pc),
         Top.pc \in {"list", "listoom"} <=> pc \in {"list", "listoom"},
         UNCHANGED <<refs, memvars, listvars, devvars, vt>>
  PROVE  Keeps
<1>1. Reserved' = Reserved
  BY CalmSteps DEF Reserved
<1> QED BY <1>1, CalmSteps, Underway, Quietly

LEMMA AloneReturns ==
  ASSUME ConstantsAssumption, IInv, stack # <<>>, Top.pc \notin Inner,
         NEW result, Return(result)
  PROVE  /\ stack' = <<>> /\ Nested(stack') /\ BasePc(stack') = "idle" /\ Dying(stack') = {}
         /\ BasePc(stack) = Top.pc /\ BaseS(stack) = Top.s /\ BaseBig(stack) = Top.big
         /\ Dying(stack) = {} /\ stack = <<Top>> /\ (Top.s # Null <=> Top.pc \in Named)
<1>1. /\ stack = <<Top>> /\ Len(stack) = 1 /\ Dying(stack) = {}
      /\ BasePc(stack) = Top.pc /\ BaseS(stack) = Top.s /\ BaseBig(stack) = Top.big
  BY Underway, Alone
<1>2. stack' = <<>>
  BY <1>1 DEF Return
<1>3. Top.s # Null <=> Top.pc \in Named
  <2>1. 1 \in 1 .. Len(stack)
    BY <1>1
  <2> QED BY <2>1, Underway DEF Nested
<1>4. Nested(<<>>) /\ BasePc(<<>>) = "idle" /\ Dying(<<>>) = {}
  BY DEF Nested, BasePc, Dying
<1> QED BY <1>1, <1>2, <1>3, <1>4

LEMMA IdleCalls ==
  ASSUME ConstantsAssumption, stack = <<>>
  PROVE  /\ Nested(stack) /\ BasePc(stack) = "idle" /\ Dying(stack) = {}
         /\ Reserved = 0 /\ ~Leaving /\ \A pc, s : pc # "idle" => ~Doer(pc, s)
BY DEF Nested, BasePc, Dying, Reserved, Leaving, Doer

(* A call of X, alone or after a collection.                               *)
LEMMA Calling1 ==
  ASSUME ConstantsAssumption, NEW x \in Calling, x.pc \notin Inner, x.s # Null <=> x.pc \in Named,
         NEW st, st = <<x>> \/ st = <<Gc, x>>
  PROVE  /\ Nested(st) /\ BasePc(st) = x.pc /\ BaseS(st) = x.s /\ BaseBig(st) = x.big
         /\ Dying(st) = {}
<1>1. /\ Nested(<<x>>) /\ <<x>> # <<>> /\ Dying(<<x>>) = {}
      /\ BasePc(<<x>>) = x.pc /\ BaseS(<<x>>) = x.s /\ BaseBig(<<x>>) = x.big
  BY Single DEF Inner, ConstantsAssumption
<1>2. Gc \in Calling /\ <<Gc, x>> = <<Gc>> \o <<x>>
  <2>1. Gc \in Calling
    BY DEF Gc, Frame, Calling, Pcs
  <2>2. <<Gc, x>> = <<Gc, x>> \o <<>> /\ <<x>> = <<x>> \o <<>> /\ <<>> \in Seq(Calling)
    BY <2>1
  <2> QED BY <2>1, <2>2, OneByOne
<1> QED BY <1>1, <1>2, CallingGc DEF SameCalls

LEMMA CreateMissStep ==
  ASSUME ConstantsAssumption, IInv, NEW big \in BOOLEAN, CreateMiss(big) PROVE Keeps
<1> DEFINE x == [Frame("bo", Null) EXCEPT !.big = big]
<1>1. /\ stack = <<>> /\ vt \in {"here", "lost"} /\ stack' = <<Gc, x>>
      /\ UNCHANGED <<refs, memvars, listvars, devvars, vt>>
  BY DEF CreateMiss, Idle
<1>2. x \in Calling /\ x.pc = "bo" /\ x.s = Null
  BY DEF Frame, Calling, Pcs
<1> HIDE DEF x
<1>3. Nested(stack') /\ BasePc(stack') = "bo" /\ Dying(stack') = {}
  BY <1>1, <1>2, Calling1 DEF Inner, Named
<1>4. BasePc(stack) = "idle" /\ Dying(stack) = {} /\ Reserved = 0 /\ Reserved' = 0
  BY <1>1, <1>3, IdleCalls DEF Reserved
<1> QED BY <1>1, <1>3, <1>4, Quietly DEF Calm

LEMMA CreateOomStep == ASSUME ConstantsAssumption, IInv, CreateOom PROVE Keeps
<1>1. /\ stack # <<>> /\ Top.pc \in {"nobo", "booom", "drain"}
      /\ UNCHANGED <<refs, memvars, listvars, devvars, vt>>
  BY DEF CreateOom, At
<1>2. CASE \E pc \in {"bo", "booom", "drain"} : GoTo(pc) \/ Calls(Gc, pc) \/ HandleOom(pc)
  <2>1. PICK pc \in {"bo", "booom", "drain"} : GoTo(pc) \/ Calls(Gc, pc) \/ HandleOom(pc)
    BY <1>2
  <2>2. pc \in Calm /\ pc \in Pcs /\ Top.pc \in Calm
        /\ pc \notin {"list", "listoom"} /\ Top.pc \notin {"list", "listoom"}
    BY <1>1 DEF Calm, Pcs
  <2> QED BY <1>1, <2>1, <2>2, CalmStep
<1>3. CASE Return(FALSE)
  <2>1. Top.pc \notin Inner
    BY <1>1 DEF Inner
  <2>2. /\ Nested(stack') /\ BasePc(stack') = "idle" /\ Dying(stack') = {}
        /\ BasePc(stack) = Top.pc /\ Dying(stack) = {}
    BY <1>1, <1>3, <2>1, AloneReturns
  <2>3. Reserved' = Reserved
    BY <1>1, <2>2 DEF Reserved
  <2> QED BY <1>1, <2>2, <2>3, Underway, Quietly DEF Calm
<1> QED BY <1>2, <1>3 DEF CreateOom

LEMMA CreateNoSurfaceStep == ASSUME ConstantsAssumption, IInv, CreateNoSurface PROVE Keeps
<1>1. /\ stack # <<>> /\ Top.pc = "list" /\ HandleOom("listoom")
      /\ UNCHANGED <<refs, memvars, listvars, devvars, vt>>
  BY DEF CreateNoSurface, At
<1>2. "listoom" \in Calm /\ "listoom" \in Pcs /\ Top.pc \in Calm
  BY <1>1 DEF Calm, Pcs
<1> QED BY <1>1, <1>2, CalmStep

LEMMA CreateBufferStep == ASSUME ConstantsAssumption, IInv, CreateBuffer PROVE Keeps
<1>1. /\ stack # <<>> /\ Top.pc = "bo"
      /\ UNCHANGED <<refs, bo, large, listvars, devvars, vt>>
  BY DEF CreateBuffer, At
<1>2. "list" \in Calm /\ "list" \in Pcs /\ "nobo" \in Calm /\ "nobo" \in Pcs /\ Top.pc \in Calm
  BY <1>1 DEF Calm, Pcs
<1>3. CASE Units(Top.big) <= avail /\ avail' = avail - Units(Top.big) /\ GoTo("list")
  <2>1. /\ Nested(stack') /\ Dying(stack') = {} /\ Dying(stack) = {}
        /\ BasePc(stack) = Top.pc /\ BasePc(stack') = "list"
        /\ BaseBig(stack') = Top.big
    BY <1>1, <1>2, <1>3, CalmSteps
  <2>2. Reserved = 0 /\ Reserved' = Units(Top.big) /\ Units(Top.big) \in Nat
    BY <1>1, <2>1 DEF Reserved, Units
  <2>3. avail' \in Nat /\ avail' + Reserved' = avail + Reserved
    BY <1>3, <2>2, TypesAndNat DEF ConstantsAssumption
  <2> QED BY <1>1, <1>2, <2>1, <2>3, Underway, Buffering
<1>4. CASE Calls(Gc, "nobo") /\ UNCHANGED avail
  BY <1>1, <1>2, <1>4, CalmStep DEF memvars
<1> QED BY <1>3, <1>4 DEF CreateBuffer

LEMMA CreateListOomStep == ASSUME ConstantsAssumption, IInv, CreateListOom PROVE Keeps
<1>1. /\ stack # <<>> /\ Top.pc = "listoom"
      /\ UNCHANGED <<refs, bo, large, listvars, devvars, vt>>
  BY DEF CreateListOom, At
<1>2. "list" \in Calm /\ "list" \in Pcs /\ Top.pc \in Calm /\ Top.pc \notin Inner
  BY <1>1 DEF Calm, Pcs, Inner
<1>3. CASE GoTo("list") /\ UNCHANGED avail
  BY <1>1, <1>2, <1>3, CalmStep DEF memvars
<1>4. CASE Return(FALSE) /\ avail' = avail + Units(Top.big)
  <2>1. /\ Nested(stack') /\ BasePc(stack') = "idle" /\ Dying(stack') = {}
        /\ BasePc(stack) = Top.pc /\ BaseBig(stack) = Top.big /\ Dying(stack) = {}
    BY <1>1, <1>2, <1>4, AloneReturns
  <2>2. Reserved' = 0 /\ Reserved = Units(Top.big) /\ Units(Top.big) \in Nat
    BY <1>1, <2>1 DEF Reserved, Units
  <2>3. avail' \in Nat /\ avail' + Reserved' = avail + Reserved
    BY <1>4, <2>2, TypesAndNat DEF ConstantsAssumption
  <2>4. BasePc(stack) \in Calm /\ BasePc(stack') \in Calm
    BY <1>2, <2>1 DEF Calm
  <2> QED BY <1>1, <2>1, <2>3, <2>4, Underway, Buffering
<1> QED BY <1>3, <1>4 DEF CreateListOom

Different(f) == \A i, j \in DOMAIN f : f[i] = f[j] => i = j

LEMMA FreeTakes ==
  ASSUME NEW f \in Seq(Surfaces), f # <<>>, Different(f)
  PROVE  /\ Tail(f) \in Seq(Surfaces) /\ Head(f) \in Surfaces /\ Head(f) \in Range(f)
         /\ Range(Tail(f)) = Range(f) \ {Head(f)} /\ Different(Tail(f))
<1> DEFINE n == Len(f)
           t == Tail(f)
<1>1. /\ n \in Nat \ {0} /\ DOMAIN f = 1 .. n /\ t \in Seq(Surfaces) /\ DOMAIN t = 1 .. n - 1
      /\ Head(f) = f[1] /\ Head(f) \in Surfaces
  OBVIOUS
<1>2. \A i \in 1 .. n - 1 : t[i] = f[i + 1]
  BY <1>1
<1> HIDE DEF n, t
<1>3. ASSUME NEW i \in 1 .. n - 1 PROVE i + 1 \in 1 .. n /\ i + 1 # 1
  BY <1>1
<1>4. 1 \in 1 .. n
  BY <1>1
<1>5. \A i, j \in 1 .. n : f[i] = f[j] => i = j
  BY <1>1 DEF Different
<1>6. ASSUME NEW x \in Range(t) PROVE x \in Range(f) \ {Head(f)}
  <2>1. PICK i \in 1 .. n - 1 : x = t[i]
    BY <1>1, <1>6 DEF Range
  <2>2. x = f[i + 1] /\ i + 1 \in 1 .. n /\ i + 1 # 1
    BY <1>2, <1>3, <2>1
  <2>3. x # f[1]
    BY <1>4, <1>5, <2>2
  <2> QED BY <1>1, <2>2, <2>3 DEF Range
<1>7. ASSUME NEW x \in Range(f) \ {Head(f)} PROVE x \in Range(t)
  <2>1. PICK i \in 1 .. n : x = f[i]
    BY <1>1 DEF Range
  <2>2. i # 1
    BY <1>1, <1>7, <2>1
  <2>3. i - 1 \in 1 .. n - 1 /\ (i - 1) + 1 = i
    BY <1>1, <2>2
  <2>4. x = t[i - 1]
    BY <1>2, <2>1, <2>3
  <2> QED BY <1>1, <2>3, <2>4 DEF Range
<1>8. Different(t)
  <2>1. ASSUME NEW i \in 1 .. n - 1, NEW j \in 1 .. n - 1, t[i] = t[j] PROVE i = j
    <3>1. i + 1 = j + 1
      BY <1>2, <1>3, <1>5, <2>1
    <3> QED BY <3>1
  <2> QED BY <1>1, <2>1 DEF Different
<1>9. Head(f) \in Range(f)
  BY <1>1, <1>4 DEF Range
<1> QED BY <1>1, <1>6, <1>7, <1>8, <1>9 DEF t

LEMMA FreeGains ==
  ASSUME NEW f \in Seq(Surfaces), Different(f), NEW s \in Surfaces, s \notin Range(f)
  PROVE  /\ <<s>> \o f \in Seq(Surfaces)
         /\ Range(<<s>> \o f) = Range(f) \union {s} /\ Different(<<s>> \o f)
<1> DEFINE n == Len(f)
           g == <<s>> \o f
<1>1. /\ n \in Nat /\ DOMAIN f = 1 .. n /\ g \in Seq(Surfaces) /\ DOMAIN g = 1 .. n + 1
      /\ g[1] = s /\ \A i \in 1 .. n + 1 : i # 1 => g[i] = f[i - 1]
  OBVIOUS
<1> HIDE DEF n, g
<1>2. ASSUME NEW i \in 1 .. n + 1, i # 1 PROVE i - 1 \in 1 .. n /\ g[i] \in Range(f)
  <2>1. i - 1 \in 1 .. n
    BY <1>1, <1>2
  <2> QED BY <1>1, <1>2, <2>1 DEF Range
<1>3. Range(g) = Range(f) \union {s}
  <2>1. ASSUME NEW x \in Range(f) PROVE x \in Range(g)
    <3>1. PICK i \in 1 .. n : x = f[i]
      BY <1>1 DEF Range
    <3>2. i + 1 \in 1 .. n + 1 /\ i + 1 # 1 /\ (i + 1) - 1 = i
      BY <1>1
    <3>3. g[i + 1] = x
      BY <1>1, <3>1, <3>2
    <3> QED BY <1>1, <3>2, <3>3 DEF Range
  <2>2. ASSUME NEW x \in Range(g) PROVE x \in Range(f) \union {s}
    BY <1>1, <1>2, <2>2 DEF Range
  <2>3. 1 \in 1 .. n + 1
    BY <1>1
  <2>4. s \in Range(g)
    BY <1>1, <2>3 DEF Range
  <2> QED BY <2>1, <2>2, <2>4
<1>4. ASSUME NEW i \in 1 .. n + 1, NEW j \in 1 .. n + 1, g[i] = g[j] PROVE i = j
  <2>1. CASE i = 1 \/ j = 1
    BY <1>1, <1>2, <1>4, <2>1
  <2>2. CASE i # 1 /\ j # 1
    <3>1. i - 1 \in 1 .. n /\ j - 1 \in 1 .. n /\ f[i - 1] = f[j - 1]
      BY <1>1, <1>2, <1>4, <2>2
    <3>2. i - 1 = j - 1
      BY <1>1, <3>1 DEF Different
    <3> QED BY <1>1, <3>2
  <2> QED BY <2>1, <2>2
<1> QED BY <1>1, <1>3, <1>4 DEF Different, g

(* The properties of one surface while X has the terminal.                 *)
InPhase(s) ==
  /\ device[s] \in {0, 1} /\ destroys[s] \in {0, 1}
  /\ device[s] + destroys[s] + One(Making(s)) + One(s \in Range(free)) = 1
  /\ s \in Dying(stack) => device[s] = 1
  /\ bo[s] = 2 * device[s] + destroys[s] + One(Making(s))

Counted(s) ==
  /\ refs[s] = One(s \in live) + One(Making(s)) + One(Doer("kill", s))
                 + One(s \in Cached(cached)) + copies[s] + One(Doer("copy", s))
  /\ device[s] = 1 <=> (refs[s] > 0 /\ ~Making(s)) \/ s \in Dying(stack)
  /\ s \in Dying(stack) => refs[s] = 0
  /\ Making(s) => refs[s] = 1
  /\ Doer("copy", s) => copies[s] < MaxCopies

Guarded(s) ==
  /\ refs[s] >= One(s \in live) + One(s \in Cached(cached)) + copies[s]
  /\ (device[s] = 0 \/ s \in Dying(stack)) /\ copies[s] > 0 => refs[s] > copies[s]
  /\ s \in Cached(cached) =>
       \/ device[s] = 1 /\ s \notin Dying(stack)
       \/ BasePc(stack) = "evacuated" /\ s = cached[Min(Occupied(cached))]

LEMMA OneSurface ==
  ASSUME ConstantsAssumption, IInv, vt = "here", NEW s \in Surfaces
  PROVE  /\ InPhase(s) /\ refs[s] \in Nat /\ copies[s] \in Nat
         /\ ~Leaving => Counted(s)
         /\ Leaving => Guarded(s)
<1>1. destroys[s] \in {0, 1} /\ refs[s] \in Nat /\ copies[s] \in Nat
  BY TypesAndNat DEF ConstantsAssumption
<1> QED BY <1>1 DEF IInv, PhaseInv, HolderInv, LeavingInv, InPhase, Counted, Guarded

LEMMA Surfacewise ==
  ASSUME \A s \in Surfaces : /\ InPhase(s)
                             /\ ~Leaving => Counted(s)
                             /\ Leaving => Guarded(s)
  PROVE  PhaseInv /\ HolderInv /\ LeavingInv
BY DEF PhaseInv, HolderInv, LeavingInv, InPhase, Counted, Guarded

LEMMA CreateSurfaceStep == ASSUME ConstantsAssumption, IInv, CreateSurface PROVE Keeps
<1> DEFINE h == Head(free)
           x == [Top EXCEPT !.pc = "create", !.s = h]
<1>1. /\ stack # <<>> /\ Top.pc = "list" /\ free # <<>>
      /\ free' = Tail(free)
      /\ refs' = [refs EXCEPT ![h] = 1] /\ bo' = [bo EXCEPT ![h] = 1]
      /\ large' = IF Top.big THEN large \union {h} ELSE large \ {h}
      /\ stack' = <<Gc, x>> \o Tail(stack)
      /\ avail' = avail /\ live' = live /\ cached' = cached /\ vt' = vt
      /\ copies' = copies /\ destroys' = destroys /\ device' = device
  BY DEF CreateSurface, At, devvars
<1>2. /\ refs \in [Surfaces -> Nat] /\ bo \in [Surfaces -> 0 .. 2] /\ large \subseteq Surfaces
      /\ free \in Seq(Surfaces) /\ Different(free)
  BY DEF IInv, TypeOK, Different
<1>3. /\ free' \in Seq(Surfaces) /\ h \in Surfaces /\ h \in Range(free)
      /\ Range(free') = Range(free) \ {h} /\ Different(free')
  BY <1>1, <1>2, FreeTakes
<1>4. vt = "here"
  BY <1>1 DEF IInv, AwayInv
<1>5. x \in Calling /\ x.pc = "create" /\ x.s = h
  BY <1>1, <1>3, Underway DEF Calling, Pcs
<1>6. h # Null
  BY <1>3 DEF ConstantsAssumption, LifecycleAssumption, Surfaces
<1> HIDE DEF x, h
<1>7. stack = <<Top>> /\ Dying(stack) = {} /\ BasePc(stack) = "list" /\ BaseBig(stack) = Top.big
  BY <1>1, Underway, Alone DEF Inner
<1>8. stack' = <<Gc, x>>
  <2> DEFINE t == Top
  <2>1. t \in Calling /\ Gc \in Calling
    BY <1>1, Underway DEF Gc, Frame, Calling, Pcs
  <2> HIDE DEF t
  <2>2. Tail(<<t>>) = <<>> /\ <<Gc, x>> \o <<>> = <<Gc, x>>
    BY <1>5, <2>1
  <2> QED BY <1>1, <1>7, <2>2 DEF t
<1>9. /\ Nested(stack') /\ BasePc(stack') = "create" /\ BaseS(stack') = h /\ Dying(stack') = {}
  BY <1>5, <1>6, <1>8, Calling1 DEF Inner, Named
<1>10. /\ Reserved = Units(Top.big) /\ Reserved' = 0 /\ ~Leaving /\ ~Leaving'
       /\ \A s : ~Making(s) /\ ~Doer("kill", s) /\ ~Doer("copy", s)
       /\ \A s : (Making(s)' <=> s = h) /\ ~Doer("kill", s)' /\ ~Doer("copy", s)'
  BY <1>7, <1>9 DEF Reserved, Leaving, Making, Doer
<1>11. /\ device[h] = 0 /\ destroys[h] = 0 /\ bo[h] = 0 /\ refs[h] = 0 /\ copies[h] = 0
       /\ h \notin live /\ h \notin Cached(cached)
  <2>1. InPhase(h) /\ Counted(h) /\ copies[h] \in Nat
    BY <1>3, <1>4, <1>10, OneSurface
  <2>2. device[h] = 0 /\ destroys[h] = 0 /\ bo[h] = 0
    BY <1>3, <1>10, <2>1 DEF InPhase, One
  <2>3. refs[h] = 0 /\ refs[h] = One(h \in live) + One(h \in Cached(cached)) + copies[h]
    <3>1. refs[h] \in Nat
      BY <1>3, <1>4, OneSurface
    <3> QED BY <1>7, <1>10, <2>1, <2>2, <3>1 DEF Counted, One
  <2> QED BY <2>1, <2>2, <2>3 DEF One
<1>12. \A s \in Surfaces : s # h => refs'[s] = refs[s] /\ bo'[s] = bo[s]
  BY <1>1, <1>2
<1>13. refs'[h] = 1 /\ bo'[h] = 1
  BY <1>1, <1>2, <1>3
<1>14. TypeOK'
  <2>1. refs' \in [Surfaces -> Nat] /\ bo' \in [Surfaces -> 0 .. 2] /\ large' \subseteq Surfaces
    BY <1>1, <1>2, <1>3
  <2> QED BY <1>1, <1>3, <1>9, <2>1 DEF IInv, TypeOK, Nested, Calling
<1>15. ASSUME NEW s \in Surfaces PROVE InPhase(s)' /\ Counted(s)'
  <2>1. CASE s = h
    <3>1. /\ device'[s] = 0 /\ destroys'[s] = 0 /\ copies'[s] = 0 /\ refs'[s] = 1 /\ bo'[s] = 1
          /\ s \notin Range(free') /\ s \notin live' /\ s \notin Cached(cached')
          /\ Making(s)' /\ ~Doer("kill", s)' /\ ~Doer("copy", s)' /\ s \notin Dying(stack')
      BY <1>1, <1>3, <1>9, <1>10, <1>11, <1>13, <2>1
    <3>2. InPhase(s)'
      BY <3>1 DEF One, InPhase
    <3>3. Counted(s)'
      BY <3>1 DEF One, Counted
    <3> QED BY <3>2, <3>3
  <2>2. CASE s # h
    <3>1. InPhase(s) /\ Counted(s)
      BY <1>4, <1>10, OneSurface
    <3>2. /\ device'[s] = device[s] /\ destroys'[s] = destroys[s] /\ copies'[s] = copies[s]
          /\ refs'[s] = refs[s] /\ bo'[s] = bo[s]
          /\ s \in Range(free') <=> s \in Range(free)
          /\ ~Making(s) /\ ~Making(s)' /\ ~Doer("kill", s) /\ ~Doer("kill", s)'
          /\ ~Doer("copy", s) /\ ~Doer("copy", s)'
      BY <1>1, <1>3, <1>10, <1>12, <2>2
    <3>3. InPhase(s)'
      BY <1>9, <3>1, <3>2 DEF One, InPhase
    <3>4. Counted(s)'
      BY <1>1, <1>7, <1>9, <3>1, <3>2 DEF One, Counted
    <3> QED BY <3>3, <3>4
  <2> QED BY <2>1, <2>2
<1>16. PhaseInv' /\ HolderInv'
  BY <1>15 DEF PhaseInv, HolderInv, InPhase, Counted
<1>17. LeavingInv' /\ AwayInv'
  BY <1>1, <1>4, <1>10 DEF LeavingInv, AwayInv
<1>18. MemoryInv'
  <2>1. Held \in SUBSET Surfaces /\ h \notin Held
    BY <1>11 DEF Held
  <2>2. Held' = Held \union {h}
    BY <1>3, <1>12, <1>13 DEF Held
  <2>3. \A r \in Held : r \in large <=> r \in large'
    BY <1>1, <2>1
  <2>4. h \in large' <=> Top.big
    BY <1>1
  <2>5. UnitsOf(Held', large') = UnitsOf(Held, large) + Units(h \in large')
    BY <1>3, <2>1, <2>2, <2>3, UnitsWith DEF ConstantsAssumption
  <2>6. Units(h \in large') = Units(Top.big)
    BY <2>4 DEF Units
  <2>7. /\ avail + Reserved <= Vram /\ avail = Vram - UnitsOf(Held, large) - Reserved
        /\ UnitsOf(Held, large) \in Nat /\ Reserved \in Nat /\ avail \in Nat /\ Vram \in Nat
    BY <1>4, <2>1, UnitsAreNat, TypesAndNat DEF IInv, MemoryInv, Held, ConstantsAssumption
  <2> DEFINE u == UnitsOf(Held, large)
             u2 == UnitsOf(Held', large')
             k == Units(Top.big)
             a2 == avail'
  <2>8. k \in Nat /\ u2 = u + k /\ avail = Vram - u - k /\ a2 = avail /\ u \in Nat
    BY <1>1, <1>10, <2>5, <2>6, <2>7 DEF Units
  <2> HIDE DEF u, u2, k, a2
  <2>9. a2 <= Vram /\ a2 = Vram - u2 - 0 /\ a2 + 0 <= Vram
    BY <2>7, <2>8
  <2> QED BY <1>10, <2>9 DEF MemoryInv, Held, u2, a2
<1>19. IInv'
  BY <1>1, <1>3, <1>9, <1>14, <1>15, <1>16, <1>17, <1>18 DEF IInv, Different
<1>20. ASSUME NEW s \in Surfaces PROVE Place(s)' = Place(s)
  BY <1>1, <1>3, <1>7, <1>9, <1>10 DEF Place
<1> QED BY <1>19, <1>20 DEF Keeps, Proceeds

(* A surface the step does not touch.                                      *)
Untouched(s) ==
  /\ device'[s] = device[s] /\ destroys'[s] = destroys[s] /\ copies'[s] = copies[s]
  /\ refs'[s] = refs[s] /\ bo'[s] = bo[s]
  /\ s \in Range(free') <=> s \in Range(free)
  /\ s \in live' <=> s \in live
  /\ s \in Cached(cached') <=> s \in Cached(cached)
  /\ s \in Dying(stack') <=> s \in Dying(stack)
  /\ \A pc \in {"create", "kill", "copy"} : Doer(pc, s)' <=> Doer(pc, s)

LEMMA UntouchedKeeps ==
  ASSUME NEW s \in Surfaces, Untouched(s)
  PROVE  /\ InPhase(s) => InPhase(s)'
         /\ Counted(s) => Counted(s)'
         /\ Place(s)' = Place(s)
<1>1. Making(s)' <=> Making(s)
  BY DEF Untouched, Making
<1>2. InPhase(s) => InPhase(s)'
  BY <1>1 DEF Untouched, InPhase, One
<1>3. Counted(s) => Counted(s)'
  BY <1>1 DEF Untouched, Counted, One
<1>4. Place(s)' = Place(s)
  BY <1>1 DEF Untouched, Place
<1> QED BY <1>2, <1>3, <1>4

LEMMA MemoryKept ==
  ASSUME IInv, vt' = vt, avail' = avail, large' = large, Reserved' = Reserved,
         \A s \in Surfaces : bo'[s] > 0 <=> bo[s] > 0
  PROVE  MemoryInv'
<1>1. Held' = Held
  BY DEF Held
<1> QED BY <1>1 DEF IInv, MemoryInv, Held

(* The invariant after a step that X makes with the terminal, and the      *)
(* places of the surfaces.                                                 *)
LEMMA Assembled ==
  ASSUME TypeOK', Once(cached'), Nested(stack'), live' \intersect Cached(cached') = {},
         BasePc(stack') = "evacuated" => Cached(cached') # {}, Different(free'),
         vt' = "here", \A s \in Surfaces : /\ InPhase(s)'
                                           /\ ~Leaving' => Counted(s)'
                                           /\ Leaving' => Guarded(s)',
         MemoryInv',
         \A s \in Surfaces : Place(s)' # Place(s) => <<Place(s), Place(s)'>> \in Edges
  PROVE  Keeps
<1>1. PhaseInv' /\ HolderInv' /\ LeavingInv'
  BY DEF PhaseInv, HolderInv, LeavingInv, InPhase, Counted, Guarded
<1>2. AwayInv'
  BY DEF AwayInv
<1> QED BY <1>1, <1>2 DEF IInv, Keeps, Proceeds, Different

LEMMA CreateSendStep == ASSUME ConstantsAssumption, IInv, CreateSend PROVE Keeps
<1> DEFINE h == Top.s
<1>1. /\ stack # <<>> /\ Top.pc = "create" /\ Return(TRUE)
      /\ device' = [device EXCEPT ![h] = @ + 1] /\ bo' = [bo EXCEPT ![h] = @ + 1]
      /\ live' = live \union {h}
      /\ refs' = refs /\ large' = large /\ avail' = avail /\ free' = free /\ cached' = cached
      /\ copies' = copies /\ destroys' = destroys /\ vt' = vt
  BY DEF CreateSend, At
<1>2. /\ stack' = <<>> /\ Nested(stack') /\ BasePc(stack') = "idle" /\ Dying(stack') = {}
      /\ BasePc(stack) = "create" /\ BaseS(stack) = h /\ Dying(stack) = {} /\ h # Null
  BY <1>1, AloneReturns DEF Inner, Named
<1>3. h \in Surfaces
  BY <1>1, <1>2, Underway DEF Calling
<1>4. vt = "here"
  BY <1>2 DEF IInv, AwayInv, Named
<1>5. /\ device \in [Surfaces -> Int] /\ bo \in [Surfaces -> 0 .. 2] /\ live \subseteq Surfaces
  BY DEF IInv, TypeOK
<1> HIDE DEF h
<1>6. /\ ~Leaving /\ ~Leaving' /\ Reserved = 0 /\ Reserved' = 0
      /\ \A s : (Making(s) <=> s = h) /\ ~Doer("kill", s) /\ ~Doer("copy", s)
      /\ \A s : ~Making(s)' /\ ~Doer("kill", s)' /\ ~Doer("copy", s)'
      /\ \A s, pc : pc \in {"create", "kill", "copy"} /\ s # h => ~Doer(pc, s) /\ ~Doer(pc, s)'
  BY <1>2 DEF Leaving, Reserved, Making, Doer
<1>7. /\ device[h] = 0 /\ destroys[h] = 0 /\ bo[h] = 1 /\ refs[h] = 1 /\ copies[h] = 0
      /\ h \notin live /\ h \notin Cached(cached) /\ h \notin Range(free)
  <2>1. InPhase(h) /\ Counted(h) /\ copies[h] \in Nat /\ Making(h)
    BY <1>3, <1>4, <1>6, OneSurface
  <2>2. device[h] = 0 /\ destroys[h] = 0 /\ bo[h] = 1 /\ h \notin Range(free)
    BY <2>1 DEF InPhase, One
  <2>3. refs[h] = 1 /\ h \notin live /\ h \notin Cached(cached) /\ copies[h] = 0
    BY <1>6, <2>1 DEF Counted, One
  <2> QED BY <2>2, <2>3
<1>8. /\ \A s \in Surfaces : s # h => device'[s] = device[s] /\ bo'[s] = bo[s]
      /\ device'[h] = 1 /\ bo'[h] = 2
      /\ device' \in [Surfaces -> Int] /\ bo' \in [Surfaces -> 0 .. 2]
  <2>1. device'[h] = 1 /\ bo'[h] = 2
    BY <1>1, <1>3, <1>5, <1>7
  <2>2. device' \in [Surfaces -> Int]
    BY <1>1, <1>3, <1>5, <1>7
  <2>3. bo' = [bo EXCEPT ![h] = 2]
    BY <1>1, <1>7
  <2>4. bo' \in [Surfaces -> 0 .. 2]
    BY <1>3, <1>5, <2>3
  <2> QED BY <1>1, <1>5, <2>1, <2>2, <2>4
<1>9. TypeOK'
  BY <1>1, <1>2, <1>3, <1>5, <1>8 DEF IInv, TypeOK, Nested, Calling
<1>10. ASSUME NEW s \in Surfaces, s # h PROVE Untouched(s)
  BY <1>1, <1>2, <1>6, <1>8, <1>10 DEF Untouched
<1>11. ASSUME NEW s \in Surfaces PROVE InPhase(s)' /\ Counted(s)'
  <2>1. CASE s = h
    <3>1. /\ device'[s] = 1 /\ destroys'[s] = 0 /\ copies'[s] = 0 /\ refs'[s] = 1 /\ bo'[s] = 2
          /\ s \notin Range(free') /\ s \in live' /\ s \notin Cached(cached')
          /\ ~Making(s)' /\ ~Doer("kill", s)' /\ ~Doer("copy", s)' /\ s \notin Dying(stack')
      BY <1>1, <1>2, <1>6, <1>7, <1>8, <2>1
    <3>2. InPhase(s)'
      BY <3>1 DEF One, InPhase
    <3>3. Counted(s)'
      BY <3>1 DEF One, Counted
    <3> QED BY <3>2, <3>3
  <2>2. CASE s # h
    BY <1>4, <1>6, <1>10, <2>2, OneSurface, UntouchedKeeps
  <2> QED BY <2>1, <2>2
<1>12. MemoryInv'
  <2>1. \A s \in Surfaces : bo'[s] > 0 <=> bo[s] > 0
    BY <1>7, <1>8
  <2> QED BY <1>1, <1>6, <2>1, MemoryKept
<1>13. ASSUME NEW s \in Surfaces, Place(s)' # Place(s)
       PROVE  <<Place(s), Place(s)'>> \in Edges
  <2>1. s = h
    BY <1>10, <1>13, UntouchedKeeps
  <2>2. Place(s) = "free"
    BY <1>2, <1>6, <1>7, <2>1 DEF Place
  <2>3. Place(s)' = "live"
    BY <1>1, <2>1 DEF Place
  <2> QED BY <2>2, <2>3 DEF Edges
<1>14. /\ Once(cached') /\ live' \intersect Cached(cached') = {} /\ Different(free')
       /\ BasePc(stack') # "evacuated"
  BY <1>1, <1>2, <1>7 DEF IInv, Different
<1> QED BY <1>1, <1>2, <1>4, <1>6, <1>9, <1>11, <1>12, <1>13, <1>14, Assembled

LEMMA CreateHitStep ==
  ASSUME ConstantsAssumption, IInv, NEW suits, CreateHit(suits) PROVE Keeps
<1> DEFINE h == cached[Hit(cached, suits)]
<1>1. /\ stack = <<>> /\ Found(cached, suits) # {}
      /\ live' = live \union {h} /\ cached' = GetFromCache(cached, suits)
      /\ refs' = refs /\ bo' = bo /\ large' = large /\ avail' = avail /\ free' = free
      /\ copies' = copies /\ destroys' = destroys /\ device' = device /\ vt' = vt
      /\ stack' = stack
  BY DEF CreateHit, Idle, memvars, devvars
<1>2. cached \in Arrays /\ Once(cached) /\ live \subseteq Surfaces
  BY DEF IInv, TypeOK, Arrays
<1>3. /\ cached' \in Arrays /\ Once(cached') /\ Cached(cached') = Cached(cached) \ {h}
      /\ h \in Cached(cached)
  BY <1>1, <1>2, ReusedIsTaken DEF ConstantsAssumption
<1>4. h \in Surfaces /\ vt = "here" /\ h \notin live
  <2>1. Cached(cached) \subseteq Surfaces
    BY <1>2 DEF Cached, Occupied, Arrays
  <2> QED BY <1>3, <2>1 DEF IInv, AwayInv
<1> HIDE DEF h
<1>5. /\ BasePc(stack) = "idle" /\ Dying(stack) = {} /\ ~Leaving /\ Nested(stack)
      /\ \A pc, s : pc # "idle" => ~Doer(pc, s)
  BY <1>1, IdleCalls
<1>6. /\ ~Leaving' /\ Reserved' = Reserved /\ BasePc(stack') = "idle" /\ Dying(stack') = {} /\ Nested(stack')
      /\ \A pc, s : pc # "idle" => ~Doer(pc, s)'
  BY <1>1, <1>5 DEF Leaving, Reserved, Doer
<1>7. TypeOK'
  BY <1>1, <1>2, <1>3, <1>4 DEF IInv, TypeOK, Arrays
<1>8. ASSUME NEW s \in Surfaces, s # h PROVE Untouched(s)
  BY <1>1, <1>3, <1>5, <1>6, <1>8 DEF Untouched
<1>9. /\ InPhase(h) /\ Counted(h) /\ copies[h] \in Nat /\ ~Making(h)
      /\ ~Doer("kill", h) /\ ~Doer("copy", h)
  BY <1>4, <1>5, <1>6, OneSurface DEF Making
<1>10. device[h] = 1 /\ destroys[h] = 0 /\ h \notin Range(free) /\ refs[h] = 1 + copies[h] /\ bo[h] = 2
  BY <1>3, <1>4, <1>5, <1>9 DEF InPhase, Counted, One
<1>11. ASSUME NEW s \in Surfaces PROVE InPhase(s)' /\ Counted(s)'
  <2>1. CASE s = h
    <3>1. /\ device'[s] = 1 /\ destroys'[s] = 0 /\ refs'[s] = 1 + copies'[s] /\ copies'[s] \in Nat
          /\ s \notin Range(free') /\ bo'[s] = 2
      BY <1>1, <1>9, <1>10, <2>1
    <3>2. s \in live' /\ s \notin Cached(cached') /\ s \notin Dying(stack')
          /\ ~Making(s)' /\ ~Doer("kill", s)' /\ ~Doer("copy", s)'
      BY <1>1, <1>3, <1>6, <2>1 DEF Making
    <3>3. InPhase(s)'
      BY <3>1, <3>2 DEF One, InPhase
    <3>4. Counted(s)'
      BY <3>1, <3>2 DEF One, Counted
    <3> QED BY <3>3, <3>4
  <2>2. CASE s # h
    BY <1>4, <1>5, <1>8, <2>2, OneSurface, UntouchedKeeps
  <2> QED BY <2>1, <2>2
<1>12. MemoryInv'
  BY <1>1, <1>6, MemoryKept
<1>13. ASSUME NEW s \in Surfaces, Place(s)' # Place(s)
       PROVE  <<Place(s), Place(s)'>> \in Edges
  <2>1. s = h
    BY <1>8, <1>13, UntouchedKeeps
  <2>2. Place(s) = "dead"
    BY <1>4, <1>5, <1>9, <1>10, <2>1 DEF Place
  <2>3. Place(s)' = "live"
    BY <1>1, <2>1 DEF Place
  <2> QED BY <2>2, <2>3 DEF Edges
<1>14. live' \intersect Cached(cached') = {} /\ Different(free')
  BY <1>1, <1>3 DEF IInv, Different
<1> QED BY <1>1, <1>3, <1>4, <1>6, <1>7, <1>11, <1>12, <1>13, <1>14, Assembled

LEMMA UntouchedGuarded ==
  ASSUME NEW s \in Surfaces, Untouched(s), cached' = cached, BasePc(stack') = BasePc(stack),
         Guarded(s)
  PROVE  Guarded(s)'
BY DEF Untouched, Guarded, One

LEMMA DestroyStep == ASSUME ConstantsAssumption, IInv, Destroy PROVE Keeps
<1>1. /\ stack # <<>> /\ Top.pc = "destroy" /\ Return(FALSE) /\ FreeBuffer(Top.s)
      /\ device' = [device EXCEPT ![Top.s] = @ - 1]
      /\ destroys' = [destroys EXCEPT ![Top.s] = @ + 1]
      /\ bo' = [bo EXCEPT ![Top.s] = @ - 1]
      /\ refs' = refs /\ large' = large /\ free' = free /\ live' = live /\ cached' = cached
      /\ copies' = copies /\ vt' = vt
  BY DEF Destroy, At, listvars
<1>2. Nested(stack) /\ Top = stack[1] /\ Top \in Calling /\ 1 \in 1 .. Len(stack)
  <2>1. 1 \in 1 .. Len(stack)
    BY <1>1, Underway
  <2> QED BY <1>1, <2>1, Underway
<1>3. Top.s \in Surfaces
  BY <1>1, <1>2 DEF Nested, Named, Calling
<1>4. PICK h \in Surfaces : h = Top.s
  BY <1>3
<1>5. h \in Dying(stack)
  BY <1>1, <1>2, <1>4 DEF Dying
<1>6. vt = "here"
  BY <1>5 DEF IInv, AwayInv
<1>7. /\ Nested(stack') /\ Dying(stack') = Dying(stack) \ {h}
      /\ Len(stack) # 1 => SameCalls(stack, stack')
      /\ Len(stack) = 1 => stack' = <<>>
  <2> DEFINE r == stack'
  <2>1. r = IF Len(stack) = 1 THEN <<>>
            ELSE <<[stack[2] EXCEPT !.got = FALSE]>> \o Tail(Tail(stack))
    BY <1>1 DEF Return
  <2> HIDE DEF r
  <2>2. /\ Nested(r) /\ (Len(stack) # 1 => SameCalls(stack, r)) /\ (Len(stack) = 1 => r = <<>>)
        /\ Dying(r) = IF stack[1].pc = "destroy" THEN Dying(stack) \ {stack[1].s} ELSE Dying(stack)
    BY <1>1, <1>2, <2>1, Returning DEF ConstantsAssumption
  <2> QED BY <1>1, <1>2, <1>4, <2>2 DEF r
<1>8. \/ SameCalls(stack, stack')
      \/ BasePc(stack) = "destroy" /\ BasePc(stack') = "idle"
  <2>1. CASE Len(stack) = 1
    <3>1. BasePc(stack) = "destroy" /\ stack' = <<>>
      BY <1>1, <1>2, <1>7, <2>1 DEF BasePc
    <3> QED BY <3>1 DEF BasePc
  <2> QED BY <1>7, <2>1
<1>9. /\ Leaving' <=> Leaving
      /\ Reserved' = Reserved
      /\ BasePc(stack') = "evacuated" <=> BasePc(stack) = "evacuated"
      /\ \A s, pc : pc \in {"create", "kill", "copy"} => (Doer(pc, s)' <=> Doer(pc, s))
      /\ Leaving => BasePc(stack') = BasePc(stack)
  BY <1>8 DEF Leaving, Reserved, Doer, SameCalls
<1>10. InPhase(h) /\ (~Leaving => Counted(h)) /\ (Leaving => Guarded(h))
       /\ refs[h] \in Nat /\ copies[h] \in Nat
  BY <1>6, OneSurface
<1>11. device[h] = 1 /\ destroys[h] = 0 /\ bo[h] = 2 /\ ~Making(h) /\ h \notin Range(free)
  BY <1>5, <1>10 DEF InPhase, One
<1>12. /\ device \in [Surfaces -> Int] /\ bo \in [Surfaces -> 0 .. 2]
       /\ destroys \in [Surfaces -> 0 .. 1] /\ avail \in Nat
  BY DEF IInv, TypeOK
<1>13. avail' = avail
  BY <1>1, <1>4, <1>11, <1>12 DEF FreeBuffer
<1>14. /\ device' \in [Surfaces -> Int] /\ bo' \in [Surfaces -> 0 .. 2]
       /\ destroys' \in [Surfaces -> 0 .. 1]
       /\ device'[h] = 0 /\ destroys'[h] = 1 /\ bo'[h] = 1
       /\ \A s \in Surfaces : s # h =>
            device'[s] = device[s] /\ destroys'[s] = destroys[s] /\ bo'[s] = bo[s]
  <2>1. device' = [device EXCEPT ![h] = 0] /\ destroys' = [destroys EXCEPT ![h] = 1]
        /\ bo' = [bo EXCEPT ![h] = 1]
    BY <1>1, <1>4, <1>11, <1>12
  <2> QED BY <1>12, <2>1
<1>15. TypeOK'
  BY <1>1, <1>7, <1>13, <1>14 DEF IInv, TypeOK, Nested, Calling
<1>16. ASSUME NEW s \in Surfaces, s # h PROVE Untouched(s)
  BY <1>1, <1>7, <1>9, <1>14, <1>16 DEF Untouched
<1>17. ASSUME NEW s \in Surfaces
       PROVE  InPhase(s)' /\ (~Leaving' => Counted(s)') /\ (Leaving' => Guarded(s)')
  <2>1. CASE s = h
    <3>1. /\ device'[s] = 0 /\ destroys'[s] = 1 /\ bo'[s] = 1
          /\ s \notin Range(free') /\ ~Making(s)' /\ s \notin Dying(stack')
      BY <1>1, <1>7, <1>9, <1>11, <1>14, <2>1 DEF Making
    <3>2. InPhase(s)'
      BY <3>1 DEF One, InPhase
    <3>3. ASSUME ~Leaving PROVE Counted(s)'
      <4>1. Counted(s) /\ refs[s] = 0
        BY <1>5, <1>10, <2>1, <3>3 DEF Counted
      <4>2. /\ ~Making(s) /\ (Doer("kill", s)' <=> Doer("kill", s))
            /\ (Doer("copy", s)' <=> Doer("copy", s))
        BY <1>9, <1>11, <2>1
      <4> QED BY <1>1, <3>1, <4>1, <4>2 DEF One, Counted
    <3>4. ASSUME Leaving PROVE Guarded(s)'
      <4>1. Guarded(s) /\ s \in Dying(stack)
        BY <1>5, <1>10, <2>1, <3>4
      <4> QED BY <1>1, <1>9, <3>1, <3>4, <4>1 DEF Guarded, One
    <3> QED BY <1>9, <3>2, <3>3, <3>4
  <2>2. CASE s # h
    BY <1>1, <1>6, <1>9, <1>16, <2>2, OneSurface, UntouchedKeeps, UntouchedGuarded
  <2> QED BY <2>1, <2>2
<1>18. MemoryInv'
  <2>1. \A s \in Surfaces : bo'[s] > 0 <=> bo[s] > 0
    BY <1>11, <1>14
  <2> QED BY <1>1, <1>9, <1>13, <2>1, MemoryKept
<1>19. ASSUME NEW s \in Surfaces PROVE Place(s)' = Place(s)
  <2>1. CASE s = h
    BY <1>1, <1>5, <1>14, <2>1 DEF Place
  <2>2. CASE s # h
    BY <1>16, <2>2, UntouchedKeeps
  <2> QED BY <2>1, <2>2
<1>20. /\ Once(cached') /\ live' \intersect Cached(cached') = {} /\ Different(free')
       /\ BasePc(stack') = "evacuated" => Cached(cached') # {}
  BY <1>1, <1>9 DEF IInv, Different
<1> QED BY <1>1, <1>6, <1>7, <1>15, <1>17, <1>18, <1>19, <1>20, Assembled

(* qxl_surface_unref of the last reference.                                *)
LEMMA Destroying ==
  ASSUME ConstantsAssumption, NEW st, Nested(st), NEW s \in Surfaces, s \notin Dying(st)
  PROVE  LET r == <<Gc, Frame("destroy", s)>> \o st IN
         /\ Nested(r) /\ Dying(r) = Dying(st) \union {s}
         /\ st # <<>> => SameCalls(st, r)
         /\ st = <<>> => BasePc(r) = "destroy"
<1> DEFINE d == Frame("destroy", s)
           q == <<d>> \o st
           r == <<Gc, d>> \o st
<1>1. d \in Calling /\ d.pc = "destroy" /\ d.s = s /\ Gc \in Calling /\ s # Null /\ st \in Seq(Calling)
  BY DEF Frame, Gc, Calling, Pcs, Nested, ConstantsAssumption, LifecycleAssumption, Surfaces
<1> HIDE DEF d
<1>2. /\ Nested(q) /\ q # <<>> /\ (st # <<>> => SameCalls(st, q))
      /\ (st = <<>> => BasePc(q) = "destroy") /\ Dying(q) = Dying(st) \union {s}
  BY <1>1, Pushing DEF Inner, ConstantsAssumption
<1>3. r = <<Gc>> \o q
  BY <1>1, OneByOne
<1> HIDE DEF q, r
<1>4. Nested(r) /\ SameCalls(q, r) /\ Dying(r) = Dying(q)
  BY <1>2, <1>3, CallingGc
<1>5. Nested(r) /\ Dying(r) = Dying(st) \union {s} /\ (st # <<>> => SameCalls(st, r))
      /\ (st = <<>> => BasePc(r) = "destroy")
  BY <1>2, <1>4 DEF SameCalls
<1> QED BY <1>5 DEF r, d

(* A collection that has found something goes on.                          *)
LEMMA Finding ==
  ASSUME ConstantsAssumption, IInv, At("gc")
  PROVE  /\ Nested(Found1) /\ Found1 # <<>> /\ SameCalls(stack, Found1)
         /\ Dying(Found1) = Dying(stack)
<1> DEFINE x == [Top EXCEPT !.got = TRUE]
<1>1. stack # <<>> /\ Found1 = <<x>> \o Tail(stack)
  BY DEF At, Found1
<1>2. x \in Calling /\ x.pc = stack[1].pc /\ x.s = stack[1].s /\ x.big = stack[1].big
  BY <1>1, Underway DEF Calling
<1> HIDE DEF x
<1> QED BY <1>1, <1>2, Underway, Resuming

LEMMA SameOutside ==
  ASSUME SameCalls(stack, stack')
  PROVE  /\ Leaving' <=> Leaving
         /\ Reserved' = Reserved
         /\ BasePc(stack') = BasePc(stack)
         /\ \A s, pc : Doer(pc, s)' <=> Doer(pc, s)
         /\ \A s : Making(s)' <=> Making(s)
BY DEF SameCalls, Leaving, Reserved, Doer, Making

LEMMA GcDestroyStep ==
  ASSUME ConstantsAssumption, IInv, NEW h \in Surfaces, GcDestroy(h) PROVE Keeps
<1>1. /\ At("gc") /\ stack # <<>> /\ destroys[h] > 0
      /\ destroys' = [destroys EXCEPT ![h] = @ - 1] /\ bo' = [bo EXCEPT ![h] = 0]
      /\ FreeBuffer(h) /\ free' = <<h>> \o free /\ stack' = Found1
      /\ refs' = refs /\ large' = large /\ live' = live /\ cached' = cached
      /\ copies' = copies /\ device' = device /\ vt' = vt
  BY DEF GcDestroy, At
<1>2. vt = "here"
  BY <1>1 DEF IInv, AwayInv, Zero
<1>3. /\ Nested(stack') /\ SameCalls(stack, stack') /\ Dying(stack') = Dying(stack)
  BY <1>1, Finding
<1>4. InPhase(h) /\ (~Leaving => Counted(h)) /\ (Leaving => Guarded(h))
  BY <1>2, OneSurface
<1>5. device[h] = 0 /\ destroys[h] = 1 /\ bo[h] = 1 /\ ~Making(h) /\ h \notin Range(free)
      /\ h \notin Dying(stack)
  BY <1>1, <1>4 DEF InPhase, One
<1>6. /\ bo \in [Surfaces -> 0 .. 2] /\ destroys \in [Surfaces -> 0 .. 1] /\ avail \in Nat
      /\ free \in Seq(Surfaces) /\ Different(free)
  BY DEF IInv, TypeOK, Different
<1>7. /\ destroys' \in [Surfaces -> 0 .. 1] /\ bo' \in [Surfaces -> 0 .. 2]
      /\ destroys'[h] = 0 /\ bo'[h] = 0
      /\ \A s \in Surfaces : s # h => destroys'[s] = destroys[s] /\ bo'[s] = bo[s]
  <2>1. destroys' = [destroys EXCEPT ![h] = 0]
    BY <1>1, <1>5
  <2> QED BY <1>1, <1>6, <2>1
<1>8. /\ free' \in Seq(Surfaces) /\ Range(free') = Range(free) \union {h} /\ Different(free')
  BY <1>1, <1>5, <1>6, FreeGains
<1>9. avail' = avail + Units(h \in large) /\ avail' \in Nat
  <2>1. avail' = avail + Units(h \in large)
    BY <1>1, <1>5 DEF FreeBuffer
  <2> QED BY <1>6, <2>1 DEF Units
<1>10. TypeOK'
  BY <1>1, <1>3, <1>7, <1>8, <1>9 DEF IInv, TypeOK, Nested, Calling
<1>11. ASSUME NEW s \in Surfaces, s # h PROVE Untouched(s)
  BY <1>1, <1>3, <1>7, <1>8, <1>11, SameOutside DEF Untouched
<1>12. ASSUME NEW s \in Surfaces
       PROVE  InPhase(s)' /\ (~Leaving' => Counted(s)') /\ (Leaving' => Guarded(s)')
  <2>1. CASE s = h
    <3>1. /\ device'[s] = 0 /\ destroys'[s] = 0 /\ bo'[s] = 0
          /\ s \in Range(free') /\ ~Making(s)' /\ s \notin Dying(stack')
      BY <1>1, <1>3, <1>5, <1>7, <1>8, <2>1, SameOutside
    <3>2. InPhase(s)'
      BY <3>1 DEF One, InPhase
    <3>3. ASSUME ~Leaving PROVE Counted(s)'
      <4>1. Counted(s) /\ ~Making(s) /\ device[s] = 0 /\ s \notin Dying(stack)
        BY <1>4, <1>5, <2>1, <3>3
      <4>2. (Doer("kill", s)' <=> Doer("kill", s)) /\ (Doer("copy", s)' <=> Doer("copy", s))
        BY <1>3, SameOutside
      <4> QED BY <1>1, <3>1, <4>1, <4>2 DEF One, Counted
    <3>4. ASSUME Leaving PROVE Guarded(s)'
      <4>1. Guarded(s) /\ device[s] = 0 /\ s \notin Dying(stack)
        BY <1>4, <1>5, <2>1, <3>4
      <4>2. BasePc(stack') = BasePc(stack)
        BY <1>3, SameOutside
      <4> QED BY <1>1, <3>1, <4>1, <4>2 DEF Guarded, One
    <3>5. Leaving' <=> Leaving
      BY <1>3, SameOutside
    <3> QED BY <3>2, <3>3, <3>4, <3>5
  <2>2. CASE s # h
    <3>1. (Leaving' <=> Leaving) /\ BasePc(stack') = BasePc(stack)
      BY <1>3, SameOutside
    <3> QED BY <1>1, <1>2, <1>11, <2>2, <3>1, OneSurface, UntouchedKeeps, UntouchedGuarded
  <2> QED BY <2>1, <2>2
<1>13. MemoryInv'
  <2> DEFINE H2 == {s \in Surfaces : bo'[s] > 0}
  <2>1. H2 \in SUBSET Surfaces /\ h \notin H2
    BY <1>7
  <2>2. Held = H2 \union {h}
    BY <1>5, <1>7 DEF Held
  <2> HIDE DEF H2
  <2>3. UnitsOf(Held, large) = UnitsOf(H2, large) + Units(h \in large)
    BY <2>1, <2>2, UnitsWith DEF ConstantsAssumption
  <2> DEFINE u == UnitsOf(Held, large)
             v == UnitsOf(H2, large)
             k == Units(h \in large)
             a == Reserved
             c == avail'
  <2>4. u = v + k /\ u \in Nat /\ v \in Nat /\ k \in Nat /\ a \in Nat /\ Vram \in Nat
    <3>1. Held \in SUBSET Surfaces
      BY DEF Held
    <3> QED BY <2>1, <2>3, <3>1, UnitsAreNat, TypesAndNat DEF Units, ConstantsAssumption
  <2>5. avail = Vram - u - a
    BY <1>2 DEF IInv, MemoryInv, Held
  <2>6. c = avail + k /\ avail \in Nat
    BY <1>6, <1>9
  <2>7. Reserved' = Reserved
    BY <1>3, SameOutside
  <2> HIDE DEF u, v, k, a, c
  <2>8. c + a <= Vram /\ c = Vram - v - a
    BY <2>4, <2>5, <2>6
  <2> QED BY <1>1, <2>7, <2>8 DEF MemoryInv, H2, v, a, c
<1>14. ASSUME NEW s \in Surfaces, Place(s)' # Place(s)
       PROVE  <<Place(s), Place(s)'>> \in Edges
  <2>1. s = h
    BY <1>11, <1>14, UntouchedKeeps
  <2>2. s \notin live
    BY <1>1, <1>14 DEF Place
  <2>3. Place(s) = "destroyed"
    BY <1>5, <2>1, <2>2 DEF Place
  <2>4. Place(s)' = "free"
    <3>1. s \notin live' /\ destroys'[s] = 0 /\ s \notin Dying(stack') /\ s \in Range(free')
      BY <1>1, <1>3, <1>5, <1>7, <1>8, <2>1, <2>2
    <3> QED BY <3>1 DEF Place
  <2> QED BY <2>3, <2>4 DEF Edges
<1>15. /\ Once(cached') /\ live' \intersect Cached(cached') = {}
       /\ BasePc(stack') = "evacuated" => Cached(cached') # {}
  BY <1>1, <1>3, SameOutside DEF IInv
<1> QED BY <1>1, <1>2, <1>3, <1>8, <1>10, <1>12, <1>13, <1>14, <1>15, Assembled

LEMMA GcCopyStep ==
  ASSUME ConstantsAssumption, IInv, NEW h \in Surfaces, GcCopy(h) PROVE Keeps
<1>1. /\ At("gc") /\ stack # <<>> /\ copies[h] > 0
      /\ copies' = [copies EXCEPT ![h] = @ - 1] /\ refs' = [refs EXCEPT ![h] = @ - 1]
      /\ stack' = Unref(h, Found1)
      /\ bo' = bo /\ large' = large /\ avail' = avail /\ free' = free /\ live' = live
      /\ cached' = cached /\ destroys' = destroys /\ device' = device /\ vt' = vt
  BY DEF GcCopy, At, memvars, listvars
<1>2. vt = "here"
  BY <1>1 DEF IInv, AwayInv, Zero
<1>3. InPhase(h) /\ (~Leaving => Counted(h)) /\ (Leaving => Guarded(h))
      /\ refs[h] \in Nat /\ copies[h] \in Nat
  BY <1>2, OneSurface
<1>4. /\ ~Making(h) /\ refs[h] > 0
      /\ refs[h] = 1 => h \notin Dying(stack) /\ device[h] = 1 /\ copies[h] = 1
                        /\ h \notin Cached(cached) /\ h \notin live
  <2>1. CASE ~Leaving
    <3>1. Counted(h)
      BY <1>3, <2>1
    <3>2. refs[h] = One(h \in live) + One(Making(h)) + One(Doer("kill", h))
                    + One(h \in Cached(cached)) + copies[h] + One(Doer("copy", h))
      BY <3>1 DEF Counted
    <3>3. refs[h] > 0 /\ ~Making(h)
      <4>1. refs[h] > 0
        BY <1>1, <1>3, <3>2 DEF One
      <4>2. Making(h) => refs[h] > 1
        BY <1>1, <1>3, <3>2 DEF One
      <4> QED BY <3>1, <4>1, <4>2 DEF Counted
    <3>4. refs[h] = 1 => copies[h] = 1 /\ h \notin Cached(cached) /\ h \notin live
      <4> DEFINE a == One(h \in live)
                 b == One(Making(h)) + One(Doer("kill", h)) + One(Doer("copy", h))
                 c == One(h \in Cached(cached))
                 n == copies[h]
                 m == refs[h]
      <4>1. a \in {0, 1} /\ b \in Nat /\ c \in {0, 1} /\ n \in Nat /\ n > 0
            /\ (a = 0 => h \notin live) /\ (c = 0 => h \notin Cached(cached))
        BY <1>1, <1>3 DEF One
      <4>2. m = a + b + c + n
        BY <1>3, <3>2 DEF One
      <4> HIDE DEF a, b, c, n, m
      <4>3. m = 1 => a = 0 /\ c = 0 /\ n = 1
        BY <4>1, <4>2
      <4> QED BY <4>1, <4>3 DEF m, n
    <3>5. device[h] = 1 /\ h \notin Dying(stack)
      BY <3>1, <3>3 DEF Counted
    <3> QED BY <3>3, <3>4, <3>5
  <2>2. CASE Leaving
    <3>1. ~Making(h)
      BY <2>2 DEF Leaving, Making, Doer
    <3>2. Guarded(h) /\ device[h] \in {0, 1}
      BY <1>3, <2>2 DEF InPhase
    <3>3. refs[h] > 0 /\ (refs[h] = 1 => copies[h] = 1 /\ h \notin Cached(cached) /\ h \notin live)
      BY <1>1, <1>3, <3>2 DEF Guarded, One
    <3>4. refs[h] = 1 => h \notin Dying(stack) /\ device[h] = 1
      BY <1>1, <1>3, <3>2 DEF Guarded
    <3> QED BY <3>1, <3>3, <3>4
  <2> QED BY <2>1, <2>2
<1>5. /\ Nested(stack') /\ SameCalls(stack, stack')
      /\ Dying(stack') = IF refs[h] = 1 THEN Dying(stack) \union {h} ELSE Dying(stack)
  <2>1. /\ Nested(Found1) /\ Found1 # <<>> /\ SameCalls(stack, Found1)
        /\ Dying(Found1) = Dying(stack)
    BY <1>1, Finding
  <2> DEFINE f == Found1
             r == stack'
  <2>2. r = IF refs[h] = 1 THEN <<Gc, Frame("destroy", h)>> \o f ELSE f
    BY <1>1 DEF Unref
  <2> HIDE DEF f, r
  <2>3. CASE refs[h] = 1
    <3>1. h \notin Dying(f) /\ Nested(f) /\ f # <<>>
      BY <1>4, <2>1, <2>3 DEF f
    <3>2. Nested(r) /\ Dying(r) = Dying(f) \union {h} /\ SameCalls(f, r)
      BY <2>2, <2>3, <3>1, Destroying
    <3> QED BY <2>1, <2>3, <3>2 DEF f, r, SameCalls
  <2>4. CASE refs[h] # 1
    BY <2>1, <2>2, <2>4 DEF f, r
  <2> QED BY <2>3, <2>4
<1>6. copies \in [Surfaces -> 0 .. MaxCopies] /\ refs \in [Surfaces -> Nat]
  BY DEF IInv, TypeOK
<1>7. /\ copies' \in [Surfaces -> 0 .. MaxCopies] /\ refs' \in [Surfaces -> Nat]
      /\ copies'[h] = copies[h] - 1 /\ refs'[h] = refs[h] - 1
      /\ \A s \in Surfaces : s # h => copies'[s] = copies[s] /\ refs'[s] = refs[s]
  <2>1. copies[h] - 1 \in 0 .. MaxCopies /\ refs[h] - 1 \in Nat
    BY <1>1, <1>3, <1>4, TypesAndNat DEF ConstantsAssumption
  <2> QED BY <1>1, <1>6, <2>1
<1>8. TypeOK'
  BY <1>1, <1>5, <1>7 DEF IInv, TypeOK, Nested, Calling
<1>9. ASSUME NEW s \in Surfaces, s # h PROVE Untouched(s)
  BY <1>1, <1>5, <1>7, <1>9, SameOutside DEF Untouched
<1>10. (Leaving' <=> Leaving) /\ BasePc(stack') = BasePc(stack) /\ Reserved' = Reserved
  BY <1>5, SameOutside
<1>11. ASSUME NEW s \in Surfaces
       PROVE  InPhase(s)' /\ (~Leaving' => Counted(s)') /\ (Leaving' => Guarded(s)')
  <2>1. CASE s = h
    <3>1. /\ ~Making(s) /\ ~Making(s)' /\ (Doer("kill", s)' <=> Doer("kill", s))
          /\ (Doer("copy", s)' <=> Doer("copy", s))
      BY <1>4, <1>5, <2>1, SameOutside
    <3>2. /\ s \in Dying(stack') <=> s \in Dying(stack) \/ refs[s] = 1
          /\ refs'[s] = refs[s] - 1 /\ copies'[s] = copies[s] - 1
          /\ refs[s] \in Nat /\ copies[s] \in Nat /\ refs[s] > 0 /\ copies[s] > 0
          /\ refs[s] = 1 => s \notin Dying(stack) /\ device[s] = 1 /\ copies[s] = 1
                            /\ s \notin Cached(cached)
      BY <1>1, <1>3, <1>4, <1>5, <1>7, <2>1
    <3>3. InPhase(s)'
      BY <1>1, <1>3, <2>1, <3>1, <3>2 DEF One, InPhase
    <3>4. ASSUME ~Leaving PROVE Counted(s)'
      <4>1. Counted(s)
        BY <1>3, <2>1, <3>4
      <4>2. s \notin Dying(stack)
        BY <3>2, <4>1 DEF Counted
      <4>3. refs'[s] = One(s \in live') + One(Making(s)') + One(Doer("kill", s)')
                 + One(s \in Cached(cached')) + copies'[s] + One(Doer("copy", s)')
        BY <1>1, <3>1, <3>2, <4>1 DEF Counted, One
      <4>4. Doer("copy", s)' => copies'[s] < MaxCopies
        <5>1. MaxCopies \in Nat
          BY TypesAndNat DEF ConstantsAssumption
        <5> QED BY <3>1, <3>2, <4>1, <5>1 DEF Counted
      <4>5. device'[s] = 1 <=> (refs'[s] > 0 /\ ~Making(s)') \/ s \in Dying(stack')
        BY <1>1, <3>1, <3>2, <4>1, <4>2 DEF Counted
      <4>6. s \in Dying(stack') => refs'[s] = 0
        BY <3>2, <4>2
      <4> QED BY <3>1, <4>3, <4>4, <4>5, <4>6 DEF Counted
    <3>5. ASSUME Leaving PROVE Guarded(s)'
      <4>1. Guarded(s)
        BY <1>3, <2>1, <3>5
      <4>2. refs'[s] >= One(s \in live') + One(s \in Cached(cached')) + copies'[s]
        BY <1>1, <3>2, <4>1 DEF Guarded, One
      <4>3. (device'[s] = 0 \/ s \in Dying(stack')) /\ copies'[s] > 0 => refs'[s] > copies'[s]
        BY <1>1, <3>2, <4>1 DEF Guarded
      <4>4. s \in Cached(cached') =>
              \/ device'[s] = 1 /\ s \notin Dying(stack')
              \/ BasePc(stack') = "evacuated" /\ s = cached'[Min(Occupied(cached'))]
        BY <1>1, <1>10, <3>2, <4>1 DEF Guarded
      <4> QED BY <4>2, <4>3, <4>4 DEF Guarded
    <3> QED BY <1>10, <3>3, <3>4, <3>5
  <2>2. CASE s # h
    BY <1>1, <1>2, <1>9, <1>10, <2>2, OneSurface, UntouchedKeeps, UntouchedGuarded
  <2> QED BY <2>1, <2>2
<1>12. MemoryInv'
  BY <1>1, <1>10, MemoryKept
<1>13. ASSUME NEW s \in Surfaces, Place(s)' # Place(s)
       PROVE  <<Place(s), Place(s)'>> \in Edges
  <2>1. s = h
    BY <1>9, <1>13, UntouchedKeeps
  <2>2. /\ ~Making(s) /\ ~Making(s)'
        /\ s \in Dying(stack') <=> s \in Dying(stack) \/ refs[s] = 1
    BY <1>4, <1>5, <2>1, SameOutside
  <2>3. refs[s] = 1 /\ s \notin live /\ s \notin live'
    BY <1>1, <1>4, <1>13, <2>1, <2>2 DEF Place
  <2>4. destroys[s] = 0 /\ s \notin Range(free) /\ s \notin Dying(stack)
    BY <1>3, <1>4, <2>1, <2>3 DEF InPhase, One
  <2>5. Place(s) = "dead" /\ Place(s)' = "destroyed"
    BY <1>1, <2>2, <2>3, <2>4 DEF Place
  <2> QED BY <2>5 DEF Edges
<1>14. /\ Once(cached') /\ live' \intersect Cached(cached') = {} /\ Different(free')
       /\ BasePc(stack') = "evacuated" => Cached(cached') # {}
  BY <1>1, <1>10 DEF IInv, Different
<1> QED BY <1>1, <1>2, <1>5, <1>8, <1>11, <1>12, <1>13, <1>14, Assembled

(* X, at rest, holds each live surface and the device has it.              *)
LEMMA AtRest ==
  ASSUME ConstantsAssumption, IInv, stack = <<>>, vt = "here", NEW s \in Surfaces
  PROVE  /\ refs[s] = One(s \in live) + One(s \in Cached(cached)) + copies[s]
         /\ device[s] = 1 <=> refs[s] > 0
         /\ device[s] = 1 => destroys[s] = 0 /\ s \notin Range(free) /\ bo[s] = 2
         /\ InPhase(s) /\ Counted(s) /\ refs[s] \in Nat /\ copies[s] \in Nat
         /\ ~Making(s) /\ ~Doer("kill", s) /\ ~Doer("copy", s) /\ s \notin Dying(stack)
<1>1. /\ ~Leaving /\ ~Making(s) /\ ~Doer("kill", s) /\ ~Doer("copy", s) /\ s \notin Dying(stack)
  BY IdleCalls DEF Making
<1>2. InPhase(s) /\ Counted(s) /\ refs[s] \in Nat /\ copies[s] \in Nat
  BY <1>1, OneSurface
<1>3. /\ refs[s] = One(s \in live) + One(s \in Cached(cached)) + copies[s]
      /\ device[s] = 1 <=> refs[s] > 0
  BY <1>1, <1>2 DEF Counted, One
<1>4. device[s] = 1 => destroys[s] = 0 /\ s \notin Range(free) /\ bo[s] = 2
  BY <1>1, <1>2 DEF InPhase, One
<1> QED BY <1>1, <1>2, <1>3, <1>4

LEMMA CopyStep ==
  ASSUME ConstantsAssumption, IInv, NEW h \in Surfaces, Copy(h) PROVE Keeps
<1> DEFINE x == Frame("copy", h)
<1>1. /\ stack = <<>> /\ vt \in {"here", "lost"} /\ h \in live /\ copies[h] < MaxCopies
      /\ refs' = [refs EXCEPT ![h] = @ + 1] /\ stack' = <<Gc, x>>
      /\ bo' = bo /\ large' = large /\ avail' = avail /\ free' = free /\ live' = live
      /\ cached' = cached /\ copies' = copies /\ destroys' = destroys /\ device' = device
      /\ vt' = vt
  BY DEF Copy, Idle, memvars, listvars, devvars
<1>2. vt = "here"
  BY <1>1 DEF IInv, AwayInv
<1>3. x \in Calling /\ x.pc = "copy" /\ x.s = h /\ h # Null
  BY DEF Frame, Calling, Pcs, ConstantsAssumption, LifecycleAssumption, Surfaces
<1> HIDE DEF x
<1>4. Nested(stack') /\ BasePc(stack') = "copy" /\ BaseS(stack') = h /\ Dying(stack') = {}
  BY <1>1, <1>3, Calling1 DEF Inner, Named
<1>5. /\ ~Leaving /\ ~Leaving' /\ Reserved = 0 /\ Reserved' = 0 /\ Dying(stack) = {}
      /\ \A s, pc : pc \in {"create", "kill", "copy"} => ~Doer(pc, s)
      /\ \A s, pc : Doer(pc, s)' <=> pc = "copy" /\ s = h
  <2>1. ~Leaving' /\ Reserved' = 0 /\ \A s, pc : Doer(pc, s)' <=> pc = "copy" /\ s = h
    BY <1>4 DEF Leaving, Reserved, Doer
  <2> QED BY <1>1, <2>1, IdleCalls
<1>6. /\ refs \in [Surfaces -> Nat] /\ refs' \in [Surfaces -> Nat] /\ refs'[h] = refs[h] + 1
      /\ \A s \in Surfaces : s # h => refs'[s] = refs[s]
  <2>1. refs \in [Surfaces -> Nat]
    BY DEF IInv, TypeOK
  <2> QED BY <1>1, <2>1
<1>7. TypeOK'
  BY <1>1, <1>4, <1>6 DEF IInv, TypeOK, Nested, Calling
<1>8. ASSUME NEW s \in Surfaces, s # h PROVE Untouched(s)
  BY <1>1, <1>4, <1>5, <1>6, <1>8 DEF Untouched
<1>9. ASSUME NEW s \in Surfaces PROVE InPhase(s)' /\ Counted(s)'
  <2>1. CASE s = h
    <3>1. /\ refs[s] = One(s \in live) + One(s \in Cached(cached)) + copies[s]
          /\ device[s] = 1 <=> refs[s] > 0
          /\ InPhase(s) /\ refs[s] \in Nat /\ copies[s] \in Nat /\ ~Making(s)
      BY <1>1, <1>2, AtRest
    <3>2. /\ s \in live' /\ refs'[s] = refs[s] + 1 /\ refs[s] > 0 /\ ~Making(s)' /\ s \notin Dying(stack')
          /\ ~Doer("kill", s)' /\ Doer("copy", s)' /\ s \notin Dying(stack)
      BY <1>1, <1>4, <1>5, <1>6, <2>1, <3>1 DEF Making, One
    <3>3. InPhase(s)'
      BY <1>1, <3>1, <3>2 DEF InPhase, One
    <3>4. Counted(s)'
      BY <1>1, <2>1, <3>1, <3>2 DEF Counted, One
    <3> QED BY <3>3, <3>4
  <2>2. CASE s # h
    BY <1>1, <1>2, <1>8, <2>2, AtRest, UntouchedKeeps
  <2> QED BY <2>1, <2>2
<1>10. MemoryInv'
  BY <1>1, <1>5, MemoryKept
<1>11. ASSUME NEW s \in Surfaces PROVE Place(s)' = Place(s)
  <2>1. CASE s = h
    BY <1>1, <2>1 DEF Place
  <2>2. CASE s # h
    BY <1>8, <2>2, UntouchedKeeps
  <2> QED BY <2>1, <2>2
<1>12. /\ Once(cached') /\ live' \intersect Cached(cached') = {} /\ Different(free')
       /\ BasePc(stack') # "evacuated"
  BY <1>1, <1>4 DEF IInv, Different
<1> QED BY <1>1, <1>2, <1>4, <1>5, <1>7, <1>9, <1>10, <1>11, <1>12, Assembled

LEMMA CopySendStep == ASSUME ConstantsAssumption, IInv, CopySend PROVE Keeps
<1>1. /\ stack # <<>> /\ Top.pc = "copy" /\ Return(FALSE)
      /\ copies' = [copies EXCEPT ![Top.s] = @ + 1]
      /\ refs' = refs /\ bo' = bo /\ large' = large /\ avail' = avail /\ free' = free
      /\ live' = live /\ cached' = cached /\ destroys' = destroys /\ device' = device /\ vt' = vt
  BY DEF CopySend, At, memvars, listvars
<1>2. /\ Nested(stack') /\ BasePc(stack') = "idle" /\ Dying(stack') = {} /\ stack' = <<>>
      /\ BasePc(stack) = "copy" /\ BaseS(stack) = Top.s /\ Dying(stack) = {} /\ Top.s # Null
  BY <1>1, AloneReturns DEF Inner, Named
<1>3. PICK h \in Surfaces : h = Top.s
  BY <1>1, <1>2, Underway DEF Calling
<1>4. vt = "here"
  BY <1>2 DEF IInv, AwayInv, Named
<1>5. /\ ~Leaving /\ ~Leaving' /\ Reserved = 0 /\ Reserved' = 0
      /\ \A s, pc : Doer(pc, s) <=> pc = "copy" /\ s = h
      /\ \A s, pc : pc \in {"create", "kill", "copy"} => ~Doer(pc, s)'
  BY <1>2, <1>3 DEF Leaving, Reserved, Doer
<1>6. InPhase(h) /\ Counted(h) /\ copies[h] \in Nat /\ refs[h] \in Nat
  BY <1>4, <1>5, OneSurface
<1>7. copies[h] < MaxCopies /\ MaxCopies \in Nat
  BY <1>5, <1>6, TypesAndNat DEF Counted, ConstantsAssumption
<1>8. /\ copies' \in [Surfaces -> 0 .. MaxCopies] /\ copies'[h] = copies[h] + 1
      /\ \A s \in Surfaces : s # h => copies'[s] = copies[s]
  <2>1. copies \in [Surfaces -> 0 .. MaxCopies] /\ copies[h] + 1 \in 0 .. MaxCopies
    BY <1>6, <1>7 DEF IInv, TypeOK
  <2> QED BY <1>1, <1>3, <2>1
<1>9. TypeOK'
  BY <1>1, <1>2, <1>8 DEF IInv, TypeOK, Nested, Calling
<1>10. ASSUME NEW s \in Surfaces, s # h PROVE Untouched(s)
  BY <1>1, <1>2, <1>5, <1>8, <1>10 DEF Untouched
<1>11. ASSUME NEW s \in Surfaces PROVE InPhase(s)' /\ Counted(s)'
  <2>1. CASE s = h
    <3>1. /\ ~Making(s) /\ ~Making(s)' /\ Doer("copy", s) /\ ~Doer("copy", s)'
          /\ ~Doer("kill", s) /\ ~Doer("kill", s)' /\ copies'[s] = copies[s] + 1
          /\ s \notin Dying(stack) /\ s \notin Dying(stack')
      BY <1>2, <1>5, <1>8, <2>1 DEF Making
    <3>2. InPhase(s)'
      BY <1>1, <1>6, <2>1, <3>1 DEF InPhase, One
    <3>3. Counted(s)'
      BY <1>1, <1>6, <2>1, <3>1 DEF Counted, One
    <3> QED BY <3>2, <3>3
  <2>2. CASE s # h
    BY <1>4, <1>5, <1>10, <2>2, OneSurface, UntouchedKeeps
  <2> QED BY <2>1, <2>2
<1>12. MemoryInv'
  BY <1>1, <1>5, MemoryKept
<1>13. ASSUME NEW s \in Surfaces PROVE Place(s)' = Place(s)
  <2>1. CASE s = h
    BY <1>1, <1>2, <1>5, <2>1 DEF Place, Making
  <2>2. CASE s # h
    BY <1>10, <2>2, UntouchedKeeps
  <2> QED BY <2>1, <2>2
<1>14. /\ Once(cached') /\ live' \intersect Cached(cached') = {} /\ Different(free')
       /\ BasePc(stack') # "evacuated"
  BY <1>1, <1>2 DEF IInv, Different
<1> QED BY <1>1, <1>2, <1>4, <1>5, <1>9, <1>11, <1>12, <1>13, <1>14, Assembled

LEMMA KillUnrefStep == ASSUME ConstantsAssumption, IInv, KillUnref PROVE Keeps
<1>1. /\ stack # <<>> /\ Top.pc = "kill"
      /\ refs' = [refs EXCEPT ![Top.s] = @ - 1] /\ stack' = Unref(Top.s, Tail(stack))
      /\ copies' = copies /\ bo' = bo /\ large' = large /\ avail' = avail /\ free' = free
      /\ live' = live /\ cached' = cached /\ destroys' = destroys /\ device' = device /\ vt' = vt
  BY DEF KillUnref, At, memvars, listvars, devvars
<1>2. /\ stack = <<Top>> /\ Dying(stack) = {} /\ BasePc(stack) = "kill" /\ BaseS(stack) = Top.s
      /\ Len(stack) = 1
  BY <1>1, Underway, Alone DEF Inner
<1>3. Top.s \in Surfaces /\ Tail(stack) = <<>>
  <2>1. 1 \in 1 .. Len(stack)
    BY <1>2
  <2>2. Top.s # Null
    BY <1>1, <2>1, Underway DEF Nested, Named
  <2>3. Top.s \in Surfaces
    BY <1>1, <2>2, Underway DEF Calling
  <2> DEFINE t == Top
  <2>4. t \in Calling
    BY <1>1, Underway
  <2> HIDE DEF t
  <2>5. Tail(<<t>>) = <<>>
    OBVIOUS
  <2> QED BY <1>2, <2>3, <2>5 DEF t
<1>4. PICK h \in Surfaces : h = Top.s
  BY <1>3
<1>5. vt = "here"
  BY <1>2 DEF IInv, AwayInv, Named
<1>6. /\ Nested(stack') /\ BasePc(stack') \in {"idle", "destroy"}
      /\ Dying(stack') = IF refs[h] = 1 THEN {h} ELSE {}
  <2>1. Nested(<<>>) /\ Dying(<<>>) = {} /\ BasePc(<<>>) = "idle"
    BY DEF Nested, Dying, BasePc
  <2>2. CASE refs[h] = 1
    <3>1. stack' = <<Gc, Frame("destroy", h)>> \o <<>>
      BY <1>1, <1>3, <1>4, <2>2 DEF Unref
    <3> DEFINE r == <<Gc, Frame("destroy", h)>> \o <<>>
    <3>2. h \notin Dying(<<>>)
      BY <2>1
    <3>3. Nested(r) /\ BasePc(r) = "destroy" /\ Dying(r) = Dying(<<>>) \union {h}
      BY <2>1, <3>2, Destroying
    <3> HIDE DEF r
    <3>4. stack' = r
      BY <3>1 DEF r
    <3> QED BY <2>1, <2>2, <3>3, <3>4
  <2>3. CASE refs[h] # 1
    BY <1>1, <1>3, <1>4, <2>1, <2>3 DEF Unref
  <2> QED BY <2>2, <2>3
<1>7. /\ ~Leaving /\ ~Leaving' /\ Reserved = 0 /\ Reserved' = 0
      /\ \A s, pc : Doer(pc, s) <=> pc = "kill" /\ s = h
      /\ \A s, pc : pc \in {"create", "kill", "copy"} => ~Doer(pc, s)'
  BY <1>2, <1>4, <1>6 DEF Leaving, Reserved, Doer
<1>8. InPhase(h) /\ Counted(h) /\ copies[h] \in Nat /\ refs[h] \in Nat
  BY <1>5, <1>7, OneSurface
<1>9. /\ refs[h] = One(h \in live) + 1 + One(h \in Cached(cached)) + copies[h]
      /\ refs[h] > 0 /\ device[h] = 1 /\ destroys[h] = 0 /\ h \notin Range(free)
  <2>1. ~Making(h) /\ Doer("kill", h) /\ ~Doer("copy", h)
    BY <1>7 DEF Making
  <2>2. refs[h] = One(h \in live) + 1 + One(h \in Cached(cached)) + copies[h]
    BY <1>8, <2>1 DEF Counted, One
  <2>3. refs[h] > 0
    BY <1>8, <2>2 DEF One
  <2>4. device[h] = 1
    BY <1>8, <2>1, <2>3 DEF Counted
  <2>5. destroys[h] = 0 /\ h \notin Range(free)
    BY <1>8, <2>4 DEF InPhase, One
  <2> QED BY <2>2, <2>3, <2>4, <2>5
<1>10. /\ refs' \in [Surfaces -> Nat] /\ refs'[h] = refs[h] - 1
       /\ \A s \in Surfaces : s # h => refs'[s] = refs[s]
  <2>1. refs \in [Surfaces -> Nat] /\ refs[h] - 1 \in Nat
    BY <1>8, <1>9 DEF IInv, TypeOK
  <2> QED BY <1>1, <1>4, <2>1
<1>11. TypeOK'
  BY <1>1, <1>6, <1>10 DEF IInv, TypeOK, Nested, Calling
<1>12. ASSUME NEW s \in Surfaces, s # h PROVE Untouched(s)
  BY <1>1, <1>2, <1>6, <1>7, <1>10, <1>12 DEF Untouched
<1>13. ASSUME NEW s \in Surfaces PROVE InPhase(s)' /\ Counted(s)'
  <2>1. CASE s = h
    <3>1. /\ ~Making(s) /\ ~Making(s)' /\ ~Doer("copy", s)' /\ ~Doer("kill", s)'
          /\ s \notin Dying(stack) /\ (s \in Dying(stack') <=> refs[s] = 1)
          /\ refs'[s] = refs[s] - 1 /\ refs[s] \in Nat
      BY <1>2, <1>6, <1>7, <1>8, <1>10, <2>1 DEF Making
    <3>2. InPhase(s)'
      BY <1>1, <1>8, <1>9, <2>1, <3>1 DEF InPhase, One
    <3>3. refs'[s] = One(s \in live) + One(s \in Cached(cached)) + copies[s]
      BY <1>8, <1>9, <2>1, <3>1 DEF One
    <3>4. Counted(s)'
      BY <1>1, <1>9, <2>1, <3>1, <3>3 DEF Counted, One
    <3> QED BY <3>2, <3>4
  <2>2. CASE s # h
    BY <1>5, <1>7, <1>12, <2>2, OneSurface, UntouchedKeeps
  <2> QED BY <2>1, <2>2
<1>14. MemoryInv'
  BY <1>1, <1>7, MemoryKept
<1>15. ASSUME NEW s \in Surfaces, Place(s)' # Place(s)
       PROVE  <<Place(s), Place(s)'>> \in Edges
  <2>1. s = h
    BY <1>12, <1>15, UntouchedKeeps
  <2>2. ~Making(s) /\ ~Making(s)' /\ s \notin Dying(stack) /\ destroys[s] = 0 /\ s \notin Range(free)
    BY <1>2, <1>7, <1>9, <2>1 DEF Making
  <2>3. s \notin live
    BY <1>1, <1>15 DEF Place
  <2>4. Place(s) = "dead" /\ Place(s)' \in {"dead", "destroyed"}
    BY <1>1, <2>2, <2>3 DEF Place
  <2> QED BY <1>15, <2>4 DEF Edges
<1>16. /\ Once(cached') /\ live' \intersect Cached(cached') = {} /\ Different(free')
       /\ BasePc(stack') # "evacuated"
  BY <1>1, <1>6 DEF IInv, Different
<1> QED BY <1>1, <1>5, <1>6, <1>7, <1>11, <1>13, <1>14, <1>15, <1>16, Assembled

LEMMA KillStep ==
  ASSUME ConstantsAssumption, IInv, NEW h \in Surfaces, Kill(h) PROVE Keeps
<1> DEFINE x == Frame("kill", h)
<1>1. /\ stack = <<>> /\ vt \in {"here", "lost"} /\ h \in live /\ live' = live \ {h}
      /\ bo' = bo /\ large' = large /\ avail' = avail /\ free' = free
      /\ copies' = copies /\ destroys' = destroys /\ device' = device /\ vt' = vt
  BY DEF Kill, Idle, memvars, devvars
<1>2. vt = "here"
  BY <1>1 DEF IInv, AwayInv
<1>3. x \in Calling /\ x.pc = "kill" /\ x.s = h /\ h # Null
  BY DEF Frame, Calling, Pcs, ConstantsAssumption, LifecycleAssumption, Surfaces
<1>4. /\ Nested(<<x>>) /\ <<x>> # <<>> /\ BasePc(<<x>>) = "kill" /\ BaseS(<<x>>) = h
      /\ Dying(<<x>>) = {}
  <2> HIDE DEF x
  <2>1. <<x>> # <<>>
    OBVIOUS
  <2> QED BY <1>3, <2>1, Calling1 DEF Inner, Named
<1>5. /\ refs \in [Surfaces -> Nat] /\ cached \in Arrays /\ Once(cached)
      /\ h \notin Cached(cached) /\ live \intersect Cached(cached) = {}
  BY <1>1 DEF IInv, TypeOK, Arrays
<1>6. /\ ~Leaving /\ Reserved = 0 /\ Dying(stack) = {}
      /\ \A s, pc : pc # "idle" => ~Doer(pc, s)
  BY <1>1, IdleCalls
(* What both ways have in common: v is the surface evicted, if there is.   *)
<1>7. ASSUME NEW v, v \in Cached(cached) \union {Null}, NEW gain \in {0, 1},
             gain = 0 => v = Null, cached' \in Arrays, Once(cached'),
             Cached(cached') = IF gain = 0 THEN Cached(cached) ELSE (Cached(cached) \ {v}) \union {h},
             \A s \in Surfaces : refs'[s] = IF s = h THEN refs[s] + gain
                                            ELSE IF s = v THEN refs[s] - 1 ELSE refs[s],
             refs' \in [Surfaces -> Int],
             stack' = IF v = Null THEN <<x>> ELSE Unref(v, <<x>>)
      PROVE  Keeps
  <2>0. v # h
    BY <1>3, <1>5, <1>7
  <2>1. v # Null => v \in Surfaces /\ v \notin live
    BY <1>5, <1>7 DEF Cached, Occupied, Arrays
  <2>2. /\ Nested(stack') /\ BasePc(stack') = "kill" /\ BaseS(stack') = h
        /\ Dying(stack') = IF v # Null /\ refs[v] = 1 THEN {v} ELSE {}
    <3> HIDE DEF x
    <3>1. CASE v # Null /\ refs[v] = 1
      <4>1. stack' = <<Gc, Frame("destroy", v)>> \o <<x>>
        BY <1>7, <3>1 DEF Unref
      <4> DEFINE r == <<Gc, Frame("destroy", v)>> \o <<x>>
      <4>2. Nested(r) /\ Dying(r) = Dying(<<x>>) \union {v} /\ SameCalls(<<x>>, r)
        BY <1>4, <2>1, <3>1, Destroying
      <4> HIDE DEF r
      <4>3. stack' = r
        BY <4>1 DEF r
      <4> QED BY <1>4, <3>1, <4>2, <4>3 DEF SameCalls
    <3>2. CASE ~(v # Null /\ refs[v] = 1)
      BY <1>4, <1>7, <3>2 DEF Unref
    <3> QED BY <3>1, <3>2
  <2> HIDE DEF x
  <2>3. /\ ~Leaving' /\ Reserved' = 0
        /\ \A s, pc : pc # "idle" => (Doer(pc, s)' <=> pc = "kill" /\ s = h)
        /\ \A s : ~Making(s)'
    BY <2>2 DEF Leaving, Reserved, Doer, Making
  <2>4. /\ refs[h] = 1 + copies[h] /\ device[h] = 1 /\ destroys[h] = 0 /\ h \notin Range(free)
        /\ InPhase(h) /\ copies[h] \in Nat /\ ~Making(h)
    <3>1. /\ refs[h] = One(h \in live) + One(h \in Cached(cached)) + copies[h]
          /\ device[h] = 1 <=> refs[h] > 0
          /\ device[h] = 1 => destroys[h] = 0 /\ h \notin Range(free)
          /\ InPhase(h) /\ copies[h] \in Nat /\ ~Making(h)
      BY <1>1, <1>2, AtRest
    <3>2. refs[h] = 1 + copies[h]
      BY <1>1, <1>5, <3>1 DEF One
    <3>3. device[h] = 1
      BY <3>1, <3>2
    <3> QED BY <3>1, <3>2, <3>3
  <2>5. v # Null =>
          /\ refs[v] = 1 + copies[v] /\ device[v] = 1 /\ destroys[v] = 0 /\ v \notin Range(free)
          /\ InPhase(v) /\ copies[v] \in Nat /\ ~Making(v)
    <3> SUFFICES ASSUME v # Null
                 PROVE  /\ refs[v] = 1 + copies[v] /\ device[v] = 1 /\ destroys[v] = 0
                        /\ v \notin Range(free) /\ InPhase(v) /\ copies[v] \in Nat /\ ~Making(v)
      OBVIOUS
    <3>1. /\ refs[v] = One(v \in live) + One(v \in Cached(cached)) + copies[v]
          /\ device[v] = 1 <=> refs[v] > 0
          /\ device[v] = 1 => destroys[v] = 0 /\ v \notin Range(free)
          /\ InPhase(v) /\ copies[v] \in Nat /\ ~Making(v)
      BY <1>1, <1>2, <2>1, AtRest
    <3>2. refs[v] = 1 + copies[v]
      BY <1>7, <2>1, <3>1 DEF One
    <3>3. device[v] = 1
      BY <3>1, <3>2
    <3> QED BY <3>1, <3>2, <3>3
  <2>6. TypeOK'
    <3>1. ASSUME NEW s \in Surfaces PROVE refs'[s] \in Nat
      <4>1. refs[s] \in Nat /\ (s = v => s # Null)
        BY <1>5 DEF ConstantsAssumption, LifecycleAssumption, Surfaces
      <4>2. s = v => refs[s] - 1 \in Nat
        BY <2>5, <4>1
      <4> QED BY <1>7, <4>1, <4>2
    <3>2. refs' \in [Surfaces -> Nat]
      BY <1>7, <3>1
    <3>3. live' \subseteq Surfaces
      BY <1>1 DEF IInv, TypeOK
    <3> QED BY <1>1, <1>7, <2>2, <3>2, <3>3 DEF IInv, TypeOK, Arrays, Nested, Calling
  <2>7. ASSUME NEW s \in Surfaces, s # h, s # v PROVE Untouched(s)
    <3>1. s \in Cached(cached') <=> s \in Cached(cached)
      BY <1>7, <2>7
    <3>2. refs'[s] = refs[s]
      BY <1>7, <2>7
    <3> QED BY <1>1, <1>6, <2>2, <2>3, <2>7, <3>1, <3>2 DEF Untouched
  <2>8. ASSUME NEW s \in Surfaces PROVE InPhase(s)' /\ Counted(s)'
    <3>1. CASE s = h
      <4>1. /\ ~Making(s)' /\ ~Making(s) /\ ~Doer("copy", s)' /\ Doer("kill", s)'
            /\ s \notin Dying(stack') /\ s \notin live' /\ refs'[s] = 1 + copies[s] + gain
            /\ One(s \in Cached(cached')) = gain
        <5>1. ~Making(s)' /\ ~Making(s) /\ ~Doer("copy", s)' /\ Doer("kill", s)'
          BY <1>1, <1>5, <1>7, <2>0, <2>2, <2>3, <2>4, <3>1
        <5>2. s \notin Dying(stack') /\ s \notin live'
          BY <1>1, <1>5, <1>7, <2>0, <2>2, <2>3, <2>4, <3>1
        <5>3. refs'[s] = 1 + copies[s] + gain
          BY <1>1, <1>5, <1>7, <2>0, <2>2, <2>3, <2>4, <3>1
        <5>4. One(s \in Cached(cached')) = gain
          BY <1>1, <1>5, <1>7, <2>0, <2>2, <2>3, <2>4, <3>1 DEF One
        <5> QED BY <5>1, <5>2, <5>3, <5>4
      <4>2. InPhase(s)'
        BY <1>1, <2>4, <3>1, <4>1 DEF InPhase, One
      <4>3. Counted(s)'
        BY <1>1, <2>4, <3>1, <4>1 DEF Counted, One
      <4> QED BY <4>2, <4>3
    <3>2. CASE s = v
      <4>1. v # Null /\ gain = 1
        BY <1>7, <3>2 DEF ConstantsAssumption, LifecycleAssumption, Surfaces
      <4>2. /\ ~Making(s)' /\ ~Making(s) /\ ~Doer("copy", s)' /\ ~Doer("kill", s)'
            /\ s \notin live' /\ refs'[s] = copies[s]
            /\ s \notin Cached(cached') /\ (s \in Dying(stack') <=> copies[s] = 0)
        <5>1. ~Making(s)' /\ ~Doer("copy", s)' /\ ~Doer("kill", s)' /\ ~Making(s)
          BY <2>0, <2>3, <2>5, <3>2, <4>1
        <5>2. s \notin live' /\ s \notin Cached(cached')
          BY <1>1, <1>7, <2>0, <2>1, <3>2, <4>1
        <5>3. refs'[s] = refs[s] - 1 /\ refs[s] = 1 + copies[s] /\ copies[s] \in Nat
          BY <1>7, <2>0, <2>5, <3>2, <4>1
        <5>4. s \in Dying(stack') <=> refs[s] = 1
          BY <2>2, <3>2, <4>1
        <5> QED BY <5>1, <5>2, <5>3, <5>4
      <4>3. InPhase(s)'
        BY <1>1, <2>5, <3>2, <4>1, <4>2 DEF InPhase, One
      <4>4. Counted(s)'
        BY <1>1, <2>5, <3>2, <4>1, <4>2 DEF Counted, One
      <4> QED BY <4>3, <4>4
    <3>3. CASE s # h /\ s # v
      BY <1>1, <1>2, <2>7, <3>3, AtRest, UntouchedKeeps
    <3> QED BY <3>1, <3>2, <3>3
  <2>9. MemoryInv'
    BY <1>1, <1>6, <2>3, MemoryKept
  <2>10. ASSUME NEW s \in Surfaces, Place(s)' # Place(s)
         PROVE  <<Place(s), Place(s)'>> \in Edges
    <3>1. CASE s = h
      <4>1. Place(s) = "live"
        BY <1>1, <3>1 DEF Place
      <4>2. Place(s)' = "dead"
        BY <1>1, <2>0, <2>2, <2>3, <2>4, <3>1 DEF Place
      <4> QED BY <4>1, <4>2 DEF Edges
    <3>2. CASE s = v
      <4>1. v # Null
        BY <3>2 DEF ConstantsAssumption, LifecycleAssumption, Surfaces
      <4>2. Place(s) = "dead"
        BY <1>6, <2>1, <2>5, <3>2, <4>1 DEF Place
      <4>3. Place(s)' \in {"dead", "destroyed"}
        BY <1>1, <2>1, <2>3, <2>5, <3>2, <4>1 DEF Place
      <4> QED BY <2>10, <4>2, <4>3 DEF Edges
    <3>3. CASE s # h /\ s # v
      BY <2>7, <2>10, <3>3, UntouchedKeeps
    <3> QED BY <3>1, <3>2, <3>3
  <2>11. /\ live' \intersect Cached(cached') = {} /\ Different(free')
         /\ BasePc(stack') # "evacuated"
    BY <1>1, <1>5, <1>7, <2>2 DEF IInv, Different
  <2> QED BY <1>1, <1>2, <1>7, <2>2, <2>3, <2>6, <2>8, <2>9, <2>10, <2>11, Assembled
<1>8. CASE h \notin large
  <2>1. stack' = <<x>> /\ refs' = refs /\ cached' = cached
    BY <1>8 DEF Kill
  <2>2. \A s \in Surfaces : refs'[s] = IF s = h THEN refs[s] + 0
                                       ELSE IF s = Null THEN refs[s] - 1 ELSE refs[s]
    BY <1>5, <2>1 DEF ConstantsAssumption, LifecycleAssumption, Surfaces
  <2>3. refs' \in [Surfaces -> Int]
    BY <1>5, <2>1
  <2> HIDE DEF x
  <2> QED BY <1>5, <1>7, <2>1, <2>2, <2>3
<1>9. CASE h \in large
  <2> DEFINE v == Evicted(cached)
  <2>1. /\ cached' = AddToCache(cached, h)
        /\ refs' = [r \in Surfaces |-> CASE r = h -> refs[r] + 1
                                         [] r = v -> refs[r] - 1
                                         [] OTHER -> refs[r]]
        /\ stack' = IF v = Null THEN <<x>> ELSE Unref(v, <<x>>)
    BY <1>9 DEF Kill
  <2>2. /\ AddToCache(cached, h) \in Arrays /\ Once(AddToCache(cached, h))
        /\ Cached(AddToCache(cached, h)) = (Cached(cached) \ {v}) \union {h}
        /\ v \in Cached(cached) \union {Null}
    BY <1>5, KilledIsCached DEF ConstantsAssumption
  <2> HIDE DEF v
  <2>3. v # h
    BY <1>3, <1>5, <2>2
  <2>4. \A s \in Surfaces : refs'[s] = IF s = h THEN refs[s] + 1
                                       ELSE IF s = v THEN refs[s] - 1 ELSE refs[s]
    BY <2>1, <2>3
  <2>5. refs' \in [Surfaces -> Int]
    <3>1. ASSUME NEW r \in Surfaces
          PROVE  (CASE r = h -> refs[r] + 1 [] r = v -> refs[r] - 1 [] OTHER -> refs[r]) \in Int
      BY <1>5, <2>3
    <3> QED BY <2>1, <3>1
  <2> HIDE DEF x
  <2> QED BY <1>7, <2>1, <2>2, <2>4, <2>5
<1> QED BY <1>8, <1>9

LEMMA LeaveVtStep == ASSUME ConstantsAssumption, IInv, LeaveVt PROVE Keeps
<1> DEFINE x == Frame("evacuate", Null)
<1>1. /\ stack = <<>> /\ vt \in {"here", "lost"} /\ stack' = <<x>>
      /\ UNCHANGED <<refs, memvars, listvars, devvars, vt>>
  BY DEF LeaveVt, Idle
<1>2. x \in Calling /\ x.pc = "evacuate" /\ x.s = Null
  BY DEF Frame, Calling, Pcs
<1> HIDE DEF x
<1>3. Nested(stack') /\ BasePc(stack') = "evacuate" /\ Dying(stack') = {}
  BY <1>1, <1>2, Calling1 DEF Inner, Named
<1>4. /\ refs' = refs /\ bo' = bo /\ large' = large /\ avail' = avail /\ free' = free
      /\ live' = live /\ cached' = cached /\ copies' = copies /\ destroys' = destroys
      /\ device' = device /\ vt' = vt
  BY <1>1 DEF memvars, listvars, devvars
<1>5. /\ ~Leaving /\ Leaving' /\ Reserved = 0 /\ Reserved' = 0 /\ Dying(stack) = {}
      /\ \A s, pc : pc \in {"create", "kill", "copy"} => ~Doer(pc, s) /\ ~Doer(pc, s)'
  <2>1. Leaving' /\ Reserved' = 0 /\ \A s, pc : pc \in {"create", "kill", "copy"} => ~Doer(pc, s)'
    BY <1>3 DEF Leaving, Reserved, Doer
  <2> QED BY <1>1, <2>1, IdleCalls
<1>6. TypeOK'
  BY <1>3, <1>4 DEF IInv, TypeOK, Nested, Calling
<1>7. ASSUME NEW s \in Surfaces PROVE Untouched(s)
  BY <1>3, <1>4, <1>5, <1>7 DEF Untouched
<1>8. MemoryInv'
  BY <1>4, <1>5, MemoryKept
<1>9. /\ Once(cached') /\ live' \intersect Cached(cached') = {} /\ Different(free')
      /\ BasePc(stack') # "evacuated"
  BY <1>3, <1>4 DEF IInv, Different
<1>10. CASE vt = "here"
  <2>1. ASSUME NEW s \in Surfaces PROVE InPhase(s)' /\ Guarded(s)'
    <3>1. /\ refs[s] = One(s \in live) + One(s \in Cached(cached)) + copies[s]
          /\ device[s] = 1 <=> refs[s] > 0
          /\ InPhase(s) /\ refs[s] \in Nat /\ copies[s] \in Nat
      BY <1>1, <1>10, AtRest
    <3>2. InPhase(s)'
      BY <1>7, <3>1, UntouchedKeeps
    <3>3. s \in Cached(cached) \/ copies[s] > 0 => device[s] = 1
      BY <3>1 DEF One
    <3>4. s \notin Dying(stack')
      BY <1>3
    <3>5. Guarded(s)'
      BY <1>4, <3>1, <3>3, <3>4 DEF Guarded, One
    <3> QED BY <3>2, <3>5
  <2>2. ASSUME NEW s \in Surfaces PROVE Place(s)' = Place(s)
    BY <1>7, UntouchedKeeps
  <2> QED BY <1>3, <1>4, <1>5, <1>6, <1>8, <1>9, <1>10, <2>1, <2>2, Assembled
<1>11. CASE vt = "lost"
  <2>1. vt' = "lost" /\ vt # "here" /\ vt' # "here"
    BY <1>4, <1>11
  <2>2. PhaseInv' /\ HolderInv' /\ LeavingInv'
    BY <2>1 DEF PhaseInv, HolderInv, LeavingInv
  <2>3. AwayInv'
    BY <1>3, <1>4, <2>1 DEF IInv, AwayInv, Named
  <2> QED BY <1>3, <1>6, <1>8, <1>9, <2>1, <2>2, <2>3 DEF Keeps, IInv, Different
<1> QED BY <1>1, <1>10, <1>11

LEMMA Evacuee ==
  ASSUME ConstantsAssumption, IInv, Cached(cached) # {}
  PROVE  /\ Min(Occupied(cached)) \in Occupied(cached) /\ Min(Occupied(cached)) \in Indices
         /\ cached[Min(Occupied(cached))] \in Cached(cached)
         /\ cached[Min(Occupied(cached))] \in Surfaces
         /\ vt = "here"
<1>1. Occupied(cached) # {} /\ Occupied(cached) \in SUBSET Nat
  BY DEF Cached, Occupied, Indices, ConstantsAssumption, CacheArrayAssumption
<1> DEFINE m == Min(Occupied(cached))
<1>2. m \in Occupied(cached)
  BY <1>1, Least
<1> HIDE DEF m
<1>3. m \in Indices /\ cached[m] \in Cached(cached) /\ cached[m] \in Surfaces
  BY <1>2 DEF Occupied, Cached, IInv, TypeOK
<1>4. vt = "here"
  BY DEF IInv, AwayInv
<1> QED BY <1>2, <1>3, <1>4 DEF m

LEMMA EvacuateStep == ASSUME ConstantsAssumption, IInv, Evacuate PROVE Keeps
<1>1. /\ stack # <<>> /\ Top.pc = "evacuate" /\ Occupied(cached) # {}
      /\ stack' = <<Gc, Frame("destroy", cached[Min(Occupied(cached))]), Frame("evacuated", Null)>>
      /\ UNCHANGED <<refs, memvars, listvars, devvars, vt>>
  BY DEF Evacuate, At
<1>2. Cached(cached) # {}
  BY <1>1 DEF Cached
<1>3. PICK h \in Surfaces : h = cached[Min(Occupied(cached))]
  BY <1>2, Evacuee
<1>4. h \in Cached(cached) /\ vt = "here"
  BY <1>2, <1>3, Evacuee
<1>5. /\ refs' = refs /\ bo' = bo /\ large' = large /\ avail' = avail /\ free' = free
      /\ live' = live /\ cached' = cached /\ copies' = copies /\ destroys' = destroys
      /\ device' = device /\ vt' = vt
  BY <1>1 DEF memvars, listvars, devvars
<1>6. BasePc(stack) = "evacuate" /\ Dying(stack) = {}
  BY <1>1, Underway, Alone DEF Inner
<1>7. /\ Nested(stack') /\ BasePc(stack') = "evacuated" /\ Dying(stack') = {h}
  <2> DEFINE x == Frame("evacuated", Null)
             d == Frame("destroy", h)
             st == <<x>>
             r == <<Gc, d>> \o st
  <2>1. x \in Calling /\ x.pc = "evacuated" /\ x.s = Null /\ d \in Calling /\ Gc \in Calling
    BY DEF Frame, Gc, Calling, Pcs
  <2>2. stack' = <<Gc, d, x>>
    BY <1>1, <1>3
  <2>3. Nested(st) /\ BasePc(st) = "evacuated" /\ Dying(st) = {}
    <3> HIDE DEF x
    <3> QED BY <2>1, Calling1 DEF Inner, Named
  <2>4. st # <<>>
    OBVIOUS
  <2>5. Nested(r) /\ SameCalls(st, r) /\ Dying(r) = Dying(st) \union {h}
    <3> HIDE DEF st
    <3> QED BY <2>3, <2>4, Destroying
  <2>6. <<Gc, d, x>> = <<Gc, d>> \o <<x>>
    <3> DEFINE g == Gc
    <3>1. g \in Calling
      BY <2>1
    <3> HIDE DEF d, x, g
    <3>2. <<g, d, x>> = <<g, d>> \o <<x>>
      OBVIOUS
    <3> QED BY <3>2 DEF g
  <2>7. stack' = r
    BY <2>2, <2>6
  <2> HIDE DEF r, st
  <2> QED BY <2>3, <2>5, <2>7 DEF SameCalls
<1>8. /\ Leaving /\ Leaving' /\ Reserved = 0 /\ Reserved' = 0
      /\ \A s, pc : pc \in {"create", "kill", "copy"} => ~Doer(pc, s) /\ ~Doer(pc, s)'
  BY <1>6, <1>7 DEF Leaving, Reserved, Doer
<1>9. InPhase(h) /\ Guarded(h) /\ refs[h] \in Nat /\ copies[h] \in Nat
  BY <1>4, <1>8, OneSurface
<1>10. device[h] = 1 /\ refs[h] > copies[h]
  BY <1>4, <1>6, <1>9 DEF Guarded, One
<1>11. destroys[h] = 0 /\ h \notin Range(free) /\ h \notin live
  <2>1. destroys[h] = 0 /\ h \notin Range(free)
    BY <1>9, <1>10 DEF InPhase, One
  <2> QED BY <1>4, <2>1 DEF IInv
<1>12. TypeOK'
  BY <1>5, <1>7 DEF IInv, TypeOK, Nested, Calling
<1>13. ASSUME NEW s \in Surfaces PROVE InPhase(s)' /\ Guarded(s)' /\ Making(s)' = Making(s)
  <2>1. InPhase(s) /\ Guarded(s)
    BY <1>4, <1>8, OneSurface
  <2>2. ~Making(s) /\ ~Making(s)'
    BY <1>8 DEF Making
  <2>3. InPhase(s)'
    BY <1>5, <1>7, <1>10, <2>1, <2>2 DEF InPhase, One
  <2>4. (device'[s] = 0 \/ s \in Dying(stack')) /\ copies'[s] > 0 => refs'[s] > copies'[s]
    BY <1>5, <1>7, <1>10, <2>1 DEF Guarded
  <2>5. s \in Cached(cached') =>
          \/ device'[s] = 1 /\ s \notin Dying(stack')
          \/ BasePc(stack') = "evacuated" /\ s = cached'[Min(Occupied(cached'))]
    BY <1>3, <1>5, <1>6, <1>7, <2>1 DEF Guarded
  <2>6. refs'[s] >= One(s \in live') + One(s \in Cached(cached')) + copies'[s]
    BY <1>5, <2>1 DEF Guarded
  <2>7. Making(s)' = Making(s)
    BY <1>6, <1>7 DEF Making, Doer
  <2>8. Guarded(s)'
    BY <2>4, <2>5, <2>6 DEF Guarded
  <2> QED BY <2>3, <2>7, <2>8
<1>14. MemoryInv'
  BY <1>5, <1>8, MemoryKept
<1>15. ASSUME NEW s \in Surfaces, Place(s)' # Place(s)
       PROVE  <<Place(s), Place(s)'>> \in Edges
  <2>1. ~Making(s) /\ ~Making(s)'
    BY <1>8 DEF Making
  <2>2. s = h
    BY <1>5, <1>6, <1>7, <1>15, <2>1 DEF Place
  <2>3. Place(s) = "dead" /\ Place(s)' = "destroyed"
    BY <1>5, <1>6, <1>7, <1>11, <2>1, <2>2 DEF Place
  <2> QED BY <2>3 DEF Edges
<1>16. /\ Once(cached') /\ live' \intersect Cached(cached') = {} /\ Different(free')
       /\ BasePc(stack') = "evacuated" => Cached(cached') # {}
  BY <1>2, <1>5 DEF IInv, Different
<1> QED BY <1>4, <1>5, <1>7, <1>8, <1>12, <1>13, <1>14, <1>15, <1>16, Assembled

LEMMA EvacuatedStep == ASSUME ConstantsAssumption, IInv, Evacuated PROVE Keeps
<1>1. /\ stack # <<>> /\ Top.pc = "evacuated" /\ GoTo("evacuate")
      /\ cached' = [cached EXCEPT ![Min(Occupied(cached))] = Null]
      /\ refs' = refs /\ bo' = bo /\ large' = large /\ avail' = avail /\ free' = free
      /\ live' = live /\ copies' = copies /\ destroys' = destroys
      /\ device' = device /\ vt' = vt
  BY DEF Evacuated, At, memvars, devvars
<1>2. /\ Nested(stack') /\ BasePc(stack') = "evacuate" /\ Dying(stack') = {}
      /\ BasePc(stack) = "evacuated" /\ Dying(stack) = {}
  <2>1. Top.pc \notin Inner \union Named /\ "evacuate" \notin Inner \union Named /\ "evacuate" \in Pcs
    BY <1>1 DEF Inner, Named, Pcs
  <2> QED BY <1>1, <2>1, Proceeding DEF GoTo
<1>3. Cached(cached) # {}
  BY <1>2 DEF IInv
<1>4. PICK m \in Indices : m = Min(Occupied(cached))
  BY <1>3, Evacuee
<1>5. PICK h \in Surfaces : h = cached[m]
  BY <1>3, <1>4, Evacuee
<1>6. h \in Cached(cached) /\ vt = "here" /\ h # Null
  BY <1>3, <1>4, <1>5, Evacuee DEF ConstantsAssumption, LifecycleAssumption, Surfaces
<1>7. /\ cached \in Arrays /\ Once(cached)
      /\ cached' \in Arrays /\ Once(cached') /\ Cached(cached') = Cached(cached) \ {h}
  <2>1. cached \in Arrays /\ Once(cached)
    BY DEF IInv, TypeOK, Arrays
  <2>2. cached' \in Arrays /\ \A k \in Indices : cached'[k] = IF k = m THEN Null ELSE cached[k]
    BY <1>1, <1>4, <2>1 DEF Arrays
  <2>3. Once(cached')
    BY <2>1, <2>2 DEF Once
  <2>4. Cached(cached') = Cached(cached) \ {h}
    BY <1>5, <1>6, <2>1, <2>2 DEF Cached, Occupied, Once
  <2> QED BY <2>1, <2>2, <2>3, <2>4
<1>8. /\ Leaving /\ Leaving' /\ Reserved = 0 /\ Reserved' = 0
      /\ \A s, pc : pc \in {"create", "kill", "copy"} => ~Doer(pc, s) /\ ~Doer(pc, s)'
  BY <1>2 DEF Leaving, Reserved, Doer
<1>9. TypeOK'
  BY <1>1, <1>2, <1>7 DEF IInv, TypeOK, Nested, Calling, Arrays
<1>10. ASSUME NEW s \in Surfaces PROVE InPhase(s)' /\ Guarded(s)' /\ Place(s)' = Place(s)
  <2>1. InPhase(s) /\ Guarded(s) /\ refs[s] \in Nat /\ copies[s] \in Nat
    BY <1>6, <1>8, OneSurface
  <2>2. ~Making(s) /\ ~Making(s)'
    BY <1>8 DEF Making
  <2>3. InPhase(s)'
    BY <1>1, <1>2, <2>1, <2>2 DEF InPhase, One
  <2>4. Place(s)' = Place(s)
    BY <1>1, <1>2, <2>2 DEF Place
  <2>5. refs'[s] >= One(s \in live') + One(s \in Cached(cached')) + copies'[s]
    <3> DEFINE a == One(s \in live)
               b == One(s \in Cached(cached))
               c == One(s \in Cached(cached'))
    <3>1. a \in Nat /\ b \in Nat /\ c \in Nat /\ c <= b
      BY <1>7 DEF One
    <3>2. refs[s] >= a + b + copies[s]
      BY <2>1 DEF Guarded
    <3>3. refs'[s] = refs[s] /\ copies'[s] = copies[s] /\ One(s \in live') = a
      BY <1>1
    <3> HIDE DEF a, b, c
    <3>4. refs[s] >= a + c + copies[s]
      BY <2>1, <3>1, <3>2
    <3> QED BY <3>3, <3>4 DEF c
  <2>6. (device'[s] = 0 \/ s \in Dying(stack')) /\ copies'[s] > 0 => refs'[s] > copies'[s]
    BY <1>1, <1>2, <2>1 DEF Guarded
  <2>7. s \in Cached(cached') => device'[s] = 1 /\ s \notin Dying(stack')
    BY <1>1, <1>2, <1>4, <1>5, <1>7, <2>1 DEF Guarded
  <2> QED BY <2>3, <2>4, <2>5, <2>6, <2>7 DEF Guarded
<1>11. MemoryInv'
  BY <1>1, <1>8, MemoryKept
<1>12. /\ live' \intersect Cached(cached') = {} /\ Different(free') /\ BasePc(stack') # "evacuated"
  BY <1>1, <1>2, <1>7 DEF IInv, Different
<1> QED BY <1>1, <1>2, <1>6, <1>7, <1>8, <1>9, <1>10, <1>11, <1>12, Assembled

(* What is left when X is without the terminal, or has it back without     *)
(* anything to restore.                                                    *)
LEMMA WithoutTerminal ==
  ASSUME ConstantsAssumption, IInv, vt' # "here", vt' \in {"away", "emptied", "lost"},
         Cached(cached) = {}, UNCHANGED <<refs, bo, large, cached>>,
         live' = {}, free' = <<>>, copies' = Zero, destroys' = Zero, device' = Zero,
         stack' = <<>>, avail' \in Nat, avail' <= Vram
  PROVE  Keeps
<1>1. /\ Nested(stack') /\ BasePc(stack') = "idle" /\ Dying(stack') = {} /\ Reserved' = 0
  BY DEF Nested, BasePc, Dying, Reserved
<1>2. PhaseInv' /\ HolderInv' /\ LeavingInv'
  BY DEF PhaseInv, HolderInv, LeavingInv
<1>3. AwayInv'
  BY <1>1 DEF AwayInv, Named
<1>4. MemoryInv'
  BY <1>1 DEF MemoryInv
<1>5. TypeOK'
  <2>1. Zero \in [Surfaces -> 0 .. MaxCopies] /\ Zero \in [Surfaces -> 0 .. 1]
        /\ Zero \in [Surfaces -> Int] /\ <<>> \in Seq(Surfaces)
    BY DEF Zero, ConstantsAssumption, LifecycleAssumption
  <2> QED BY <1>1, <2>1 DEF IInv, TypeOK, Nested, Calling
<1>6. Once(cached') /\ live' \intersect Cached(cached') = {} /\ Different(free')
  BY DEF IInv, Different
<1> QED BY <1>1, <1>2, <1>3, <1>4, <1>5, <1>6 DEF Keeps, IInv, Different

LEMMA EvacuateLiveStep == ASSUME ConstantsAssumption, IInv, EvacuateLive PROVE Keeps
<1>1. Cached(cached) = {}
  BY DEF EvacuateLive, Cached
<1>2. avail \in Nat /\ avail <= Vram
  BY TypesAndNat DEF IInv, MemoryInv, ConstantsAssumption
<1> QED BY <1>1, <1>2, WithoutTerminal DEF EvacuateLive, memvars

LEMMA EnterVtEmptyStep == ASSUME ConstantsAssumption, IInv, EnterVtEmpty PROVE Keeps
<1>1. /\ vt = "emptied" /\ vt' = "lost" /\ avail' = Vram
      /\ refs' = refs /\ bo' = bo /\ large' = large /\ free' = free /\ live' = live
      /\ cached' = cached /\ copies' = copies /\ destroys' = destroys /\ device' = device
      /\ stack' = stack
  BY DEF EnterVtEmpty, listvars, devvars
<1>2. /\ live = {} /\ free = <<>> /\ Cached(cached) = {} /\ copies = Zero /\ destroys = Zero
      /\ device = Zero /\ stack = <<>>
  BY <1>1 DEF IInv, AwayInv
<1>3. Vram \in Nat
  BY DEF ConstantsAssumption, LifecycleAssumption
<1> QED BY <1>1, <1>2, <1>3, WithoutTerminal

LEMMA EnterVtStep == ASSUME ConstantsAssumption, IInv, EnterVt PROVE Keeps
<1>1. /\ vt = "away" /\ vt' = "here"
      /\ refs' = Zero /\ bo' = Zero /\ large' = {} /\ avail' = Vram /\ free' = Descending
      /\ live' = live /\ cached' = cached /\ copies' = copies /\ destroys' = destroys
      /\ device' = device /\ stack' = stack
  BY DEF EnterVt, devvars
<1>2. /\ live = {} /\ Cached(cached) = {} /\ copies = Zero /\ destroys = Zero
      /\ device = Zero /\ stack = <<>>
  BY <1>1 DEF IInv, AwayInv
<1>3. /\ NSurfaces \in Nat \ {0} /\ Vram \in Nat
  BY DEF ConstantsAssumption, LifecycleAssumption
<1>4. Descending \in Seq(Surfaces) /\ Range(Descending) = Surfaces /\ Different(Descending)
  BY <1>3, AllFree DEF Different
<1>5. /\ Nested(stack') /\ BasePc(stack') = "idle" /\ Dying(stack') = {} /\ Reserved' = 0 /\ ~Leaving'
      /\ \A s, pc : pc # "idle" => ~Doer(pc, s)'
  BY <1>1, <1>2 DEF Nested, BasePc, Dying, Reserved, Leaving, Doer
<1>6. TypeOK'
  <2>1. Zero \in [Surfaces -> Nat] /\ Zero \in [Surfaces -> 0 .. 2]
    BY DEF Zero
  <2> QED BY <1>1, <1>3, <1>4, <1>5, <2>1 DEF IInv, TypeOK, Nested, Calling
<1>7. ASSUME NEW s \in Surfaces PROVE InPhase(s)' /\ Counted(s)'
  <2>1. /\ device'[s] = 0 /\ destroys'[s] = 0 /\ copies'[s] = 0 /\ refs'[s] = 0 /\ bo'[s] = 0
        /\ s \in Range(free') /\ s \notin live' /\ s \notin Cached(cached')
        /\ ~Making(s)' /\ ~Doer("kill", s)' /\ ~Doer("copy", s)' /\ s \notin Dying(stack')
    BY <1>1, <1>2, <1>4, <1>5 DEF Zero, Making
  <2>2. InPhase(s)'
    BY <2>1 DEF InPhase, One
  <2>3. Counted(s)'
    BY <2>1 DEF Counted, One
  <2> QED BY <2>2, <2>3
<1>8. MemoryInv'
  <2> DEFINE H2 == {s \in Surfaces : bo'[s] > 0}
  <2>1. H2 = {} /\ {} \cap large' = {}
    BY <1>1 DEF Zero
  <2> HIDE DEF H2
  <2>2. UnitsOf(H2, large') = 0
    BY <2>1, FS_EmptySet DEF UnitsOf
  <2> QED BY <1>1, <1>3, <1>5, <2>2 DEF MemoryInv, H2
<1>9. PhaseInv' /\ HolderInv' /\ LeavingInv' /\ AwayInv'
  BY <1>1, <1>5, <1>7 DEF PhaseInv, HolderInv, LeavingInv, AwayInv, InPhase, Counted
<1>10. Once(cached') /\ live' \intersect Cached(cached') = {} /\ Different(free')
  BY <1>1, <1>2, <1>4 DEF IInv
<1> QED BY <1>1, <1>5, <1>6, <1>8, <1>9, <1>10 DEF Keeps, IInv, Different

-----------------------------------------------------------------------------
(* Every step keeps the invariant and follows the life cycle.              *)
LEMMA StepKeeps == ASSUME ConstantsAssumption, IInv, Next PROVE Keeps
<1>1. CASE Create
  BY <1>1, CreateHitStep, CreateMissStep, CreateBufferStep, CreateOomStep, CreateSurfaceStep,
     CreateNoSurfaceStep, CreateListOomStep, CreateSendStep, Zenon DEF Create
<1>2. CASE Collect
  BY <1>2, GcCopyStep, GcDestroyStep, GcOtherStep, GcReturnStep, OomStep DEF Collect
<1>3. CASE Destroy \/ KillUnref \/ CopySend
  BY <1>3, DestroyStep, KillUnrefStep, CopySendStep
<1>4. CASE \E s \in Surfaces : Kill(s) \/ Copy(s)
  BY <1>4, KillStep, CopyStep
<1>5. CASE LeaveVt \/ Evacuate \/ Evacuated \/ EvacuateLive \/ EnterVt \/ EnterVtEmpty
  BY <1>5, LeaveVtStep, EvacuateStep, EvacuatedStep, EvacuateLiveStep, EnterVtStep,
     EnterVtEmptyStep
<1> QED BY <1>1, <1>2, <1>3, <1>4, <1>5 DEF Next

LEMMA StutterKeeps == ASSUME IInv, UNCHANGED vars PROVE IInv'
<1>1. /\ refs' = refs /\ bo' = bo /\ large' = large /\ avail' = avail /\ free' = free
      /\ live' = live /\ cached' = cached /\ copies' = copies /\ destroys' = destroys
      /\ device' = device /\ vt' = vt /\ stack' = stack
  BY DEF vars, memvars, listvars, devvars
<1>2. TypeOK'
  BY <1>1 DEF IInv, TypeOK
<1>3. PhaseInv'
  BY <1>1 DEF IInv, PhaseInv, Making, Doer
<1>4. HolderInv'
  BY <1>1 DEF IInv, HolderInv, Making, Doer, Leaving
<1>5. LeavingInv'
  BY <1>1 DEF IInv, LeavingInv, Leaving
<1>6. AwayInv' /\ MemoryInv'
  BY <1>1 DEF IInv, AwayInv, MemoryInv, Reserved
<1> QED BY <1>1, <1>2, <1>3, <1>4, <1>5, <1>6 DEF IInv

LEMMA Invariant == ASSUME ConstantsAssumption PROVE Spec => []IInv
<1>1. Init => IInv
  BY Starting
<1>2. IInv /\ [Next]_vars => IInv'
  BY StepKeeps, StutterKeeps DEF Keeps
<1> QED BY <1>1, <1>2, PTL DEF Spec

(* At all times the count of a surface is that of its holders: the pixmap  *)
(* or the call at work on it, the cache and the unfinished copies.         *)
THEOREM RefCountTheorem == ASSUME ConstantsAssumption PROVE Spec => []RefCountExact
<1>1. IInv => RefCountExact
  BY RefCounts DEF ConstantsAssumption
<1> QED BY <1>1, Invariant, PTL

(* The device is asked to create only what it has not and to destroy only  *)
(* what it has, and nothing of a surface's last life is left when it is on *)
(* the free list.                                                          *)
THEOREM DeviceProtocolTheorem == ASSUME ConstantsAssumption PROVE Spec => []DeviceProtocol
<1>1. IInv => DeviceProtocol
  BY Protocol DEF ConstantsAssumption
<1> QED BY <1>1, Invariant, PTL

(* Every unit of surface memory is accounted for, whichever step of a      *)
(* creation fails and in whatever order destructions nest.                 *)
THEOREM MemoryTheorem == ASSUME ConstantsAssumption PROVE Spec => []MemoryExact
<1>1. IInv => MemoryExact
  BY Memory DEF ConstantsAssumption
<1> QED BY <1>1, Invariant, PTL

(* The same of any sequence of calls, so that it serves the next one too.  *)
LEMMA CallsAt ==
  ASSUME LifecycleAssumption, NEW st, Nested(st), NEW s \in Surfaces
  PROVE  /\ (\E f \in Range(st) : f.pc = "destroy" /\ f.s = s) <=> s \in Dying(st)
         /\ (\E f \in Range(st) : f.pc = "create" /\ f.s = s) <=>
              BasePc(st) = "create" /\ BaseS(st) = s
<1> DEFINE n == Len(st)
<1>1. st \in Seq(Calling) /\ n \in Nat /\ Range(st) = {st[i] : i \in 1 .. n}
  BY DEF Nested, Range
<1>2. st = <<>> <=> n = 0
  BY <1>1
<1>3. n # 0 => n \in 1 .. n
  BY <1>1
<1>4. ASSUME NEW i \in 1 .. n, st[i].pc = "create" PROVE i = n /\ st # <<>>
  BY <1>1, <1>2, <1>4 DEF Nested, Inner
<1>5. (\E f \in Range(st) : f.pc = "destroy" /\ f.s = s) <=> s \in Dying(st)
  BY <1>1 DEF Dying
<1>6. ASSUME NEW i \in 1 .. n, st[i].pc = "create", st[i].s = s
      PROVE  BasePc(st) = "create" /\ BaseS(st) = s
  BY <1>4, <1>6 DEF BasePc, BaseS
<1>7. ASSUME BasePc(st) = "create", BaseS(st) = s
      PROVE  \E i \in 1 .. n : st[i].pc = "create" /\ st[i].s = s
  BY <1>2, <1>3, <1>7 DEF BasePc, BaseS
<1> HIDE DEF n
<1> QED BY <1>1, <1>5, <1>6, <1>7

(* free => live => dead => destroyed => free: no step takes a surface out  *)
(* of the order that the head of qxl_surface_ums.c gives.                  *)
THEOREM LifeCycleTheorem == ASSUME ConstantsAssumption PROVE Spec => FollowsLifeCycle
<1>1. IInv /\ IInv' /\ [Next]_vars => [FollowsEdges]_vars
  <2> SUFFICES ASSUME IInv, IInv', Next PROVE FollowsEdges
    OBVIOUS
  <2> SUFFICES ASSUME vt = "here", vt' = "here", NEW s \in Surfaces, State(s)' # State(s)
               PROVE  <<State(s), State(s)'>> \in Edges
    BY DEF FollowsEdges, Edges
  <2>1. Place(s) = State(s)
    BY PlaceIsState DEF ConstantsAssumption, IInv
  <2>2. Place(s)' = State(s)'
    <3>1. Nested(stack)'
      BY DEF IInv
    <3>2. (Doing("destroy", s)' <=> s \in Dying(stack')) /\ (Doing("create", s)' <=> Making(s)')
      <4>1. Nested(stack')
        BY <3>1 DEF Nested, Calling
      <4> QED BY <4>1, CallsAt DEF ConstantsAssumption, Making, Doer, Doing, Frames
    <3> QED BY <3>2 DEF Place, State
  <2>3. Proceeds
    BY StepKeeps DEF Keeps
  <2> QED BY <2>1, <2>2, <2>3 DEF Proceeds
<1> QED BY <1>1, Invariant, PTL DEF Spec, FollowsLifeCycle

-----------------------------------------------------------------------------
(* SurfaceAccess: regions and their boxes.                                 *)

(* A multiple of Tile, and how it is reached from any number.              *)
LEMMA TileStart ==
  ASSUME AccessAssumption, NEW d \in Nat
  PROVE  \E b \in 0 .. d : b % Tile = 0 /\ d < b + Tile
<1> DEFINE q == d \div Tile
           b == Tile * q
           k == b \div Tile
<1>0. Tile \in Nat \ {0}
  BY DEF AccessAssumption
<1>1. q \in Int /\ d = b + (d % Tile) /\ d % Tile \in 0 .. Tile - 1
  BY <1>0
<1>2. b \in Int
  BY <1>0, <1>1
<1>3. q >= 0
  <2>1. ASSUME q < 0 PROVE FALSE
    <3>1. Tile * (0 - q - 1) >= 0
      BY <1>0, <1>1, <2>1, SMT
    <3>2. Tile * (0 - q - 1) = 0 - b - Tile
      BY <1>0, <1>1, SMT
    <3> QED BY <1>0, <1>1, <1>2, <3>1, <3>2
  <2> QED BY <1>1, <2>1
<1>4. b >= 0
  BY <1>0, <1>1, <1>3, SMT
<1>5. b % Tile = 0
  <2>1. k \in Int /\ b = Tile * k + (b % Tile) /\ b % Tile \in 0 .. Tile - 1
    BY <1>0, <1>2
  <2>2. b % Tile = Tile * (q - k)
    <3>1. Tile * (q - k) = Tile * q - Tile * k
      <4> HIDE DEF q, k
      <4> QED BY <1>0, <1>1, <2>1, SMT
    <3>2. Tile * k \in Int
      <4> HIDE DEF k
      <4> QED BY <1>0, <2>1
    <3> QED BY <1>2, <2>1, <3>1, <3>2
  <2>3. CASE q - k >= 1
    <3>1. Tile * (q - k - 1) >= 0
      BY <1>0, <1>1, <2>1, <2>3, SMT
    <3>2. Tile * (q - k - 1) = Tile * (q - k) - Tile
      BY <1>0, <1>1, <2>1, SMT
    <3> QED BY <1>0, <2>1, <2>2, <3>1, <3>2
  <2>4. CASE q - k < 0
    <3>1. Tile * (0 - (q - k)) >= Tile
      BY <1>0, <1>1, <2>1, <2>4, SMT
    <3>2. Tile * (0 - (q - k)) = 0 - Tile * (q - k)
      BY <1>0, <1>1, <2>1, SMT
    <3> QED BY <1>0, <2>1, <2>2, <3>1, <3>2
  <2>5. CASE q - k = 0
    BY <1>0, <2>2, <2>5
  <2> QED BY <1>1, <2>1, <2>3, <2>4, <2>5
<1> HIDE DEF b
<1>6. b \in 0 .. d /\ d < b + Tile
  BY <1>0, <1>1, <1>2, <1>4
<1> QED BY <1>5, <1>6

(* The tiles of a box cover the box and nothing else.                      *)
LEMMA TilesCover ==
  ASSUME AccessAssumption, NEW x1 \in Nat, NEW x2 \in Nat, x1 < x2
  PROVE  Tiles(x1, x2) = x1 .. x2 - 1
<1> DEFINE Firsts == {b \in x1 .. x2 - 1 : (b - x1) % Tile = 0}
           Cut(a) == Min({a + Tile, x2})
<1>0. Tile \in Nat \ {0}
  BY DEF AccessAssumption
<1>1. ASSUME NEW a \in x1 .. x2 - 1
      PROVE  Cut(a) \in {a + Tile, x2} /\ Cut(a) <= x2
  <2>1. {a + Tile, x2} \in SUBSET Nat
    BY <1>0
  <2> HIDE DEF Cut
  <2>2. Cut(a) \in {a + Tile, x2} /\ \A y \in {a + Tile, x2} : Cut(a) <= y
    BY <2>1, Least DEF Cut
  <2> QED BY <2>2
<1>2. Tiles(x1, x2) = UNION {a .. Cut(a) - 1 : a \in Firsts}
  BY DEF Tiles
<1> HIDE DEF Cut
<1>3. ASSUME NEW a \in Firsts PROVE a .. Cut(a) - 1 \subseteq x1 .. x2 - 1
  BY <1>0, <1>1
<1>4. ASSUME NEW p \in x1 .. x2 - 1 PROVE \E a \in Firsts : p \in a .. Cut(a) - 1
  <2>1. PICK b \in 0 .. p - x1 : b % Tile = 0 /\ p - x1 < b + Tile
    BY TileStart
  <2> DEFINE a == x1 + b
  <2>2. a \in x1 .. x2 - 1 /\ a - x1 = b
    OBVIOUS
  <2>3. a \in Firsts
    BY <2>1, <2>2
  <2>4. p \in a .. Cut(a) - 1
    BY <1>0, <1>1, <2>1, <2>2
  <2> QED BY <2>3, <2>4
<1> HIDE DEF Firsts
<1> QED BY <1>2, <1>3, <1>4

(* A region is the union of its boxes.                                     *)
LEMMA BoxesCover ==
  ASSUME AccessAssumption, NEW region \in SUBSET Pixels
  PROVE  BoxByBox(region) = region
<1>0. Width \in Nat /\ region \subseteq 1 .. Width
  BY DEF AccessAssumption, Pixels
<1>1. ASSUME NEW p \in region
      PROVE  /\ End(region, p) \in p + 1 .. Width + 1 /\ End(region, p) \notin region
             /\ Tiles(p, End(region, p)) \subseteq region
  <2> DEFINE S == {q \in p + 1 .. Width + 1 : q \notin region}
             e == End(region, p)
  <2>1. S \in SUBSET Nat /\ Width + 1 \in S
    BY <1>0
  <2>2. e \in S /\ \A q \in S : e <= q
    BY <2>1, Least DEF End
  <2> HIDE DEF e
  <2>3. Tiles(p, e) = p .. e - 1
    BY <1>0, <2>2, TilesCover
  <2>4. p .. e - 1 \subseteq region
    BY <1>0, <2>2
  <2> QED BY <2>2, <2>3, <2>4 DEF e
<1>2. ASSUME NEW q \in region
      PROVE  \E p \in Starts(region) : q \in Tiles(p, End(region, p))
  <2> DEFINE T == {c \in 1 .. q : c .. q \subseteq region}
             p == Min(T)
  <2>1. T \in SUBSET Nat /\ q \in T
    BY <1>0
  <2>2. p \in T /\ \A c \in T : p <= c
    BY <2>1, Least
  <2> HIDE DEF p
  <2>3. p \in region
    BY <1>0, <2>2
  <2>4. p - 1 \notin region
    <3>1. ASSUME p - 1 \in region PROVE FALSE
      <4>1. p - 1 \in T
        BY <1>0, <2>2, <3>1
      <4> QED BY <2>2, <4>1
    <3> QED BY <3>1
  <2> DEFINE e == End(region, p)
  <2>5. e \in p + 1 .. Width + 1 /\ e \notin region
    BY <1>1, <2>3
  <2> HIDE DEF e
  <2>6. q < e
    BY <1>0, <2>2, <2>5
  <2>7. Tiles(p, e) = p .. e - 1
    BY <1>0, <2>3, <2>5, TilesCover
  <2>8. q \in Tiles(p, e)
    BY <1>0, <2>2, <2>5, <2>6, <2>7
  <2> QED BY <2>3, <2>4, <2>8 DEF e, Starts
<1>3. Starts(region) \subseteq region
  BY DEF Starts
<1> QED BY <1>1, <1>2, <1>3, Zenon DEF BoxByBox

(* What is uploaded is what is downloaded: the region, or its extents.     *)
LEMMA UploadedIsTaken ==
  ASSUME AccessAssumption, NEW region \in SUBSET Pixels
  PROVE  /\ Uploaded(region) = Taken(region)
         /\ region \subseteq Taken(region) /\ Taken(region) \subseteq Pixels
         /\ NBoxes(region) < ManyBoxes => Taken(region) = region
<1>0. Width \in Nat /\ region \subseteq 1 .. Width /\ ManyBoxes \in Nat \ {0}
  BY DEF AccessAssumption, Pixels
<1>1. CASE NBoxes(region) < ManyBoxes
  BY <1>1, BoxesCover DEF Uploaded, Taken
<1>2. CASE ~(NBoxes(region) < ManyBoxes)
  <2>1. region # {}
    <3>1. ASSUME region = {} PROVE FALSE
      <4>1. Starts(region) = {}
        BY <3>1 DEF Starts
      <4> QED BY <1>0, <1>2, <4>1, FS_EmptySet DEF NBoxes
    <3> QED BY <3>1
  <2> DEFINE lo == Min(region)  hi == Max(region)
  <2>2. lo \in region /\ \A p \in region : lo <= p
    BY <1>0, <2>1, Least
  <2>3. hi \in region /\ \A p \in region : p <= hi
    <3>1. region \in SUBSET (0 .. Width)
      BY <1>0
    <3> QED BY <1>0, <2>1, <3>1, Greatest
  <2>4. Taken(region) = lo .. hi /\ Uploaded(region) = Tiles(lo, hi + 1)
    BY <1>2, <2>1 DEF Taken, Uploaded, Extents
  <2> HIDE DEF lo, hi
  <2>5. Tiles(lo, hi + 1) = lo .. hi
    <3> DEFINE x2 == hi + 1
    <3>1. lo \in Nat /\ x2 \in Nat /\ lo < x2 /\ x2 - 1 = hi
      BY <1>0, <2>2, <2>3
    <3> HIDE DEF x2
    <3>2. Tiles(lo, x2) = lo .. hi
      BY <3>1, TilesCover
    <3> QED BY <3>2 DEF x2
  <2>6. region \subseteq lo .. hi /\ lo .. hi \subseteq Pixels
    BY <1>0, <2>2, <2>3 DEF Pixels
  <2> QED BY <1>2, <2>4, <2>5, <2>6
<1> QED BY <1>1, <1>2

-----------------------------------------------------------------------------
(* The inductive invariant.                                                *)

Images == [Pixels -> Colours]

Shapes ==
  /\ surface \in Images /\ dev_image \in Images /\ host_image \in Images
  /\ want \in Images
  /\ access_region \in SUBSET Pixels /\ access_type \in {"RO", "RW"}
  /\ prepared \in 0 .. 2 /\ phase \in {"prepare", "draw", "finish"}

(* Nothing is accessed before the first prepare and after the first        *)
(* finish, which takes away what both prepares gave.                       *)
NoAccess == access_region = {} /\ access_type = "RO"

Bracketed ==
  /\ prepared = 0 => NoAccess /\ phase = "prepare"
  /\ phase = "finish" => NoAccess

(* The caller may only draw where the upload will pick it up.              *)
WritesAreUploaded ==
  /\ writable \subseteq access_region
  /\ writable # {} => access_type = "RW"

(* Until the caller draws, X's copy of the region is the device's, and it  *)
(* stays so when access is read-only.                                      *)
CopyIsTrue ==
  phase = "prepare" \/ access_type = "RO" =>
    \A p \in access_region : host_image[p] = surface[p]

AccessIInv == Shapes /\ Bracketed /\ WritesAreUploaded /\ CopyIsTrue
          /\ ShowsWhatWasDrawn /\ UploadIsHarmless

(* The shortcut of many boxes is for regions prepared once: two together   *)
(* stay below it.                                                          *)
FewTogether == AccessAssumption /\ Together < ManyBoxes

LEMMA InitInvariant == ASSUME AccessInit PROVE AccessIInv
BY DEF AccessInit, AccessIInv, Shapes, Images, Bracketed, NoAccess, WritesAreUploaded, CopyIsTrue,
       ShowsWhatWasDrawn, UploadIsHarmless

LEMMA PrepareInvariant ==
  ASSUME FewTogether, AccessIInv, NEW region \in Regions, NEW access \in {"RO", "RW"},
         Prepare(region, access)
  PROVE  AccessIInv'
<1> DEFINE new == region \ access_region
           box == Taken(new)
<1>0. /\ AccessAssumption /\ Together \in Nat /\ ManyBoxes \in Nat
      /\ Together < ManyBoxes
  BY DEF FewTogether, AccessAssumption
<1>1. new \in SUBSET Pixels /\ region \in SUBSET Pixels
  BY DEF Regions
<1>2. new \subseteq box /\ box \subseteq Pixels
  <2> HIDE DEF new
  <2> QED BY <1>0, <1>1, UploadedIsTaken
<1> HIDE DEF box
<1>3. /\ phase = "prepare"
      /\ prepared = 0 \/ (prepared = 1 /\ access = "RO"
                            /\ NBoxes(access_region \union region) <= Together)
      /\ dev_image' = Update(box)
      /\ host_image' = [p \in Pixels |-> IF p \in box THEN dev_image'[p] ELSE host_image[p]]
      /\ access_region' = access_region \union new
      /\ access_type' = IF access = "RW" THEN "RW" ELSE access_type
      /\ prepared' = prepared + 1
      /\ writable' = IF access = "RW" THEN region ELSE writable
      /\ surface' = surface /\ want' = want /\ phase' = phase
  BY DEF Prepare, MayPrepare, box
<1>4. access_region' = access_region \union region
  BY <1>3
<1>5. \A p \in Pixels : host_image'[p] = IF p \in box THEN surface[p] ELSE host_image[p]
  BY <1>3 DEF Update
<1>6. Shapes'
  <2>1. dev_image' \in Images
    BY <1>3 DEF Update, AccessIInv, Shapes, Images
  <2>2. host_image' \in Images
    BY <1>3, <2>1 DEF AccessIInv, Shapes, Images
  <2>3. prepared' \in 0 .. 2 /\ access_type' \in {"RO", "RW"}
    BY <1>3 DEF AccessIInv, Shapes
  <2> QED BY <1>1, <1>3, <1>4, <2>1, <2>2, <2>3 DEF AccessIInv, Shapes
<1>7. Bracketed' /\ WritesAreUploaded'
  BY <1>3, <1>4 DEF AccessIInv, Shapes, Bracketed, WritesAreUploaded, NoAccess
<1>8. CopyIsTrue'
  BY <1>1, <1>2, <1>3, <1>4, <1>5 DEF AccessIInv, Shapes, CopyIsTrue
<1>9. ShowsWhatWasDrawn'
  BY <1>1, <1>2, <1>3, <1>4, <1>5 DEF AccessIInv, Shapes, CopyIsTrue, ShowsWhatWasDrawn
<1>10. UploadIsHarmless'
  <2>1. CASE prepared = 0
    <3>1. access_region' = region /\ box = Taken(region)
      BY <1>4, <2>1 DEF AccessIInv, Bracketed, NoAccess, box
    <3>2. Uploaded(access_region') = box
      BY <1>0, <1>1, <3>1, UploadedIsTaken
    <3> QED BY <1>2, <1>3, <1>5, <3>2 DEF UploadIsHarmless
  <2>2. CASE prepared # 0
    <3>1. NBoxes(access_region') < ManyBoxes
      <4>1. NBoxes(access_region') <= Together
        BY <1>3, <1>4, <2>2
      <4> DEFINE n == NBoxes(access_region')
      <4>2. n \in Nat
        <5>1. access_region' \in SUBSET (1 .. Width) /\ Width \in Nat
          BY <1>6, <1>0 DEF Shapes, Pixels, AccessAssumption
        <5>2. IsFiniteSet(1 .. Width)
          BY <5>1, FS_Interval
        <5>3. Starts(access_region') \in SUBSET (1 .. Width)
          BY <5>1 DEF Starts
        <5>4. IsFiniteSet(Starts(access_region'))
          BY <5>2, <5>3, FS_Subset
        <5> QED BY <5>4, FS_CardinalityType DEF NBoxes
      <4> HIDE DEF n
      <4>3. n <= Together
        BY <4>1 DEF n
      <4> QED BY <1>0, <4>2, <4>3 DEF n
    <3>2. Uploaded(access_region') = access_region'
      BY <1>0, <1>6, <3>1, UploadedIsTaken DEF Shapes
    <3> QED BY <3>2 DEF UploadIsHarmless
  <2> QED BY <2>1, <2>2
<1> QED BY <1>6, <1>7, <1>8, <1>9, <1>10 DEF AccessIInv

LEMMA CpuDrawInvariant ==
  ASSUME FewTogether, AccessIInv, NEW set \in Regions, NEW c \in Colours, CpuDraw(set, c)
  PROVE  AccessIInv'
<1>1. Shapes' /\ Bracketed' /\ WritesAreUploaded'
  BY DEF CpuDraw, Drawn, AccessIInv, Shapes, Images, Bracketed, NoAccess, WritesAreUploaded, Regions
<1>2. set \subseteq access_region /\ set # {} /\ access_type = "RW"
  <2>1. set \subseteq writable /\ set # {}
    BY DEF CpuDraw, Regions
  <2> QED BY <2>1 DEF AccessIInv, WritesAreUploaded
<1>3. CopyIsTrue'
  BY <1>2 DEF CpuDraw, CopyIsTrue
<1>4. ShowsWhatWasDrawn'
  BY <1>2 DEF CpuDraw, Drawn, AccessIInv, Shapes, ShowsWhatWasDrawn
<1>5. UploadIsHarmless'
  <2>1. Uploaded(access_region) \subseteq Pixels
    BY UploadedIsTaken DEF FewTogether, AccessIInv, Shapes
  <2> QED BY <1>2, <2>1 DEF CpuDraw, Drawn, AccessIInv, UploadIsHarmless
<1> QED BY <1>1, <1>3, <1>4, <1>5 DEF AccessIInv

LEMMA FinishInvariant == ASSUME FewTogether, AccessIInv, Finish PROVE AccessIInv'
<1> DEFINE up == Uploaded(access_region)
<1>0. access_region \subseteq up /\ up \subseteq Pixels /\ access_region \in SUBSET Pixels
  <2>1. access_region \in SUBSET Pixels
    BY DEF AccessIInv, Shapes
  <2> QED BY <2>1, UploadedIsTaken DEF FewTogether
<1> HIDE DEF up
<1>1. /\ surface' = IF access_type = "RW"
                     THEN [p \in Pixels |-> IF p \in up THEN host_image[p] ELSE surface[p]]
                     ELSE surface
      /\ access_region' = {} /\ access_type' = "RO" /\ writable' = {}
      /\ prepared > 0 /\ prepared' = prepared - 1
      /\ phase' = IF prepared = 1 THEN "prepare" ELSE "finish"
      /\ UNCHANGED <<dev_image, host_image, want>>
  BY DEF Finish, up
<1>2. Shapes'
  <2>1. surface' \in Images
    BY <1>1 DEF AccessIInv, Shapes, Images
  <2> QED BY <1>1, <2>1 DEF AccessIInv, Shapes
<1>3. Bracketed' /\ WritesAreUploaded' /\ CopyIsTrue' /\ UploadIsHarmless'
  BY <1>1 DEF AccessIInv, Shapes, Bracketed, NoAccess, WritesAreUploaded, CopyIsTrue, UploadIsHarmless
<1>4. ShowsWhatWasDrawn'
  <2>1. SUFFICES ASSUME NEW p \in Pixels PROVE want[p] = surface'[p]
    BY <1>1 DEF ShowsWhatWasDrawn
  <2>2. want[p] = IF p \in access_region THEN host_image[p] ELSE surface[p]
    BY DEF AccessIInv, ShowsWhatWasDrawn
  <2>3. CASE access_type = "RW"
    <3>1. p \in up \ access_region => host_image[p] = surface[p]
      BY <2>3 DEF AccessIInv, UploadIsHarmless, up
    <3> QED BY <1>0, <1>1, <2>2, <2>3, <3>1
  <2>4. CASE access_type = "RO"
    BY <1>1, <2>2, <2>4 DEF AccessIInv, CopyIsTrue
  <2> QED BY <2>3, <2>4 DEF AccessIInv, Shapes
<1> QED BY <1>2, <1>3, <1>4 DEF AccessIInv

LEMMA SolidInvariant ==
  ASSUME AccessIInv, NEW set \in Regions, NEW c \in Colours, Solid(set, c)
  PROVE  AccessIInv'
<1>1. NoAccess /\ writable = {} /\ NoAccess'
  BY DEF Solid, callvars, AccessIInv, Bracketed, WritesAreUploaded, NoAccess
<1>2. Shapes' /\ Bracketed'
  BY DEF Solid, Drawn, callvars, AccessIInv, Shapes, Images, Bracketed, NoAccess
<1> QED BY <1>1, <1>2 DEF Solid, Drawn, callvars, AccessIInv, NoAccess, Shapes, WritesAreUploaded,
                          CopyIsTrue, ShowsWhatWasDrawn, UploadIsHarmless

LEMMA RenderInvariant == ASSUME AccessIInv, Render PROVE AccessIInv'
BY DEF Render, callvars, AccessIInv, Shapes, Bracketed, NoAccess, WritesAreUploaded, CopyIsTrue,
       ShowsWhatWasDrawn, UploadIsHarmless

LEMMA NextInvariant == ASSUME FewTogether, AccessIInv, AccessNext PROVE AccessIInv'
BY PrepareInvariant, CpuDrawInvariant, FinishInvariant, SolidInvariant, RenderInvariant DEF AccessNext

LEMMA StutterInvariant == ASSUME AccessIInv, UNCHANGED accessvars PROVE AccessIInv'
BY DEF accessvars, callvars, AccessIInv, Shapes, Bracketed, NoAccess, WritesAreUploaded, CopyIsTrue,
       ShowsWhatWasDrawn, UploadIsHarmless

LEMMA SpecInvariant == ASSUME FewTogether PROVE AccessSpec => []AccessIInv
<1>1. ASSUME AccessIInv, [AccessNext]_accessvars PROVE AccessIInv'
  BY <1>1, NextInvariant, StutterInvariant
<1> QED BY <1>1, InitInvariant, PTL DEF AccessSpec

-----------------------------------------------------------------------------
(* Whatever regions callers access, draw and give back, before and after   *)
(* drawing by the device, the client finds each pixel as it was last       *)
(* drawn: prepare_access and finish_access move every one of them to where *)
(* it is looked for (qxl_surface.c).                                       *)
THEOREM ShowsWhatWasDrawnTheorem ==
  ASSUME FewTogether PROVE AccessSpec => []ShowsWhatWasDrawn
<1>1. AccessIInv => ShowsWhatWasDrawn
  BY DEF AccessIInv
<1> QED BY <1>1, SpecInvariant, PTL

(* The upload of the extents, when a region has many boxes, overwrites     *)
(* nothing on the device with an old pixel.                                *)
THEOREM UploadIsHarmlessTheorem ==
  ASSUME FewTogether PROVE AccessSpec => []UploadIsHarmless
<1>1. AccessIInv => UploadIsHarmless
  BY DEF AccessIInv
<1> QED BY <1>1, SpecInvariant, PTL
=============================================================================
