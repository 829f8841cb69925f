-------------------------- MODULE GlyphCacheProofs --------------------------
(***************************************************************************)
(* Proofs about GlyphCache, for any glyphs and requests, any number of     *)
(* classes and tiles, and any history of the cache.                        *)
(***************************************************************************)
EXTENDS GlyphCache, SequenceTheorems, WellFoundedInduction, TLAPS

-----------------------------------------------------------------------------
(* Induction up to a bound, and what it gives: that a function defined by   *)
(* recursion on its argument exists.                                       *)

LEMMA LeastNumber ==
  ASSUME NEW T \in SUBSET Nat, T # {}
  PROVE  \E n \in T : \A m \in T : n <= m
<1>1. PICK n \in T : \A m \in T : <<m, n>> \notin OpToRel(<, Nat)
  BY NatLessThanWellFounded, WFMin
<1>2. ASSUME NEW m \in T PROVE n <= m
  <2>1. <<m, n>> \notin {ss \in Nat \X Nat : ss[1] < ss[2]}
    BY <1>1, Zenon DEF OpToRel
  <2> QED BY <2>1
<1> QED BY <1>2

LEMMA UpTo ==
  ASSUME NEW n \in Nat, NEW T, 0 \in T, \A i \in 0 .. n - 1 : i \in T => i + 1 \in T
  PROVE  \A i \in 0 .. n : i \in T
<1> DEFINE out == {i \in 0 .. n : i \notin T}
<1> SUFFICES ASSUME out # {} PROVE FALSE
  OBVIOUS
<1>1. out \in SUBSET Nat
  OBVIOUS
<1>2. PICK i \in out : \A j \in out : i <= j
  <2> HIDE DEF out
  <2> QED BY <1>1, LeastNumber
<1>3. i \in 0 .. n /\ i \notin T /\ i # 0
  BY <1>2
<1>4. i - 1 \in 0 .. n - 1 /\ i - 1 \notin out
  BY <1>2, <1>3
<1>5. i - 1 \in T
  BY <1>3, <1>4
<1>6. (i - 1) + 1 \in T
  BY <1>4, <1>5
<1>7. (i - 1) + 1 = i
  BY <1>3
<1> QED BY <1>3, <1>6, <1>7

(* P starts with b, and H says how each value follows from the one before. *)
Iterates(P, n, b, H) == P[0] = b /\ \A k \in 1 .. n : P[k] = H[<<k, P[k - 1]>>]

LEMMA Recursion ==
  ASSUME NEW n \in Nat, NEW V, NEW b \in V, NEW H \in [(1 .. n) \X V -> V]
  PROVE  \E P \in [0 .. n -> V] : Iterates(P, n, b, H)
<1> DEFINE Part(m, P) == P[0] = b /\ \A k \in 1 .. m : P[k] = H[<<k, P[k - 1]>>]
           T == {m \in 0 .. n : \E P \in [0 .. m -> V] : Part(m, P)}
<1>1. 0 \in T
  <2> DEFINE P == [k \in 0 .. 0 |-> b]
  <2>1. P \in [0 .. 0 -> V] /\ Part(0, P)
    OBVIOUS
  <2> HIDE DEF P, Part
  <2> QED BY <2>1
<1>2. ASSUME NEW m \in 0 .. n - 1, m \in T PROVE m + 1 \in T
  <2>1. PICK P \in [0 .. m -> V] : Part(m, P)
    BY <1>2
  <2> DEFINE Q == [k \in 0 .. m + 1 |-> IF k = m + 1 THEN H[<<m + 1, P[m]>>] ELSE P[k]]
  <2>2. m \in 0 .. m /\ m + 1 \in 1 .. n /\ P[m] \in V
    OBVIOUS
  <2>3. H[<<m + 1, P[m]>>] \in V
    BY <2>2
  <2>4. Q \in [0 .. m + 1 -> V]
    BY <2>3
  <2>5. ASSUME NEW k \in 1 .. m + 1 PROVE Q[k] = H[<<k, Q[k - 1]>>]
    <3>1. k - 1 \in 0 .. m + 1 /\ k - 1 # m + 1
      OBVIOUS
    <3>2. Q[k - 1] = P[k - 1]
      BY <3>1
    <3>3. CASE k = m + 1
      <4>1. Q[k] = H[<<m + 1, P[m]>>] /\ k - 1 = m
        BY <3>3
      <4> QED BY <3>2, <3>3, <4>1
    <3>4. CASE k # m + 1
      <4>1. k \in 1 .. m /\ Q[k] = P[k]
        BY <3>4
      <4> QED BY <2>1, <3>2, <4>1
    <3> QED BY <3>3, <3>4
  <2>6. Q[0] = b
    BY <2>1
  <2>7. Part(m + 1, Q)
    BY <2>5, <2>6
  <2>8. m + 1 \in 0 .. n
    OBVIOUS
  <2> HIDE DEF Q, Part
  <2> QED BY <2>4, <2>7, <2>8
<1>3. n \in T
  <2> HIDE DEF T
  <2>1. \A i \in 0 .. n : i \in T
    BY <1>1, <1>2, UpTo
  <2> HIDE DEF T
  <2> QED BY <2>1
<1> QED BY <1>3 DEF Iterates

-----------------------------------------------------------------------------
(* Sizes and counts of the classes.                                        *)

LEMMA Bounds ==
  ASSUME GlyphCacheAssumption
  PROVE  /\ Levels \in Nat /\ Tiles \in Nat \ {0} /\ Levels \in Classes /\ 0 \in Classes
         /\ \A k \in Classes : k \in Nat /\ k <= Levels
         /\ \A k \in Classes : k # 0 => k - 1 \in Classes /\ k \in 1 .. Levels
  BY DEF GlyphCacheAssumption, Classes

LEMMA SideUnfolds ==
  ASSUME GlyphCacheAssumption
  PROVE  Side = [k \in Classes |-> IF k = 0 THEN 1 ELSE 2 * Side[k - 1]]
<1> DEFINE H == [x \in (1 .. Levels) \X Nat |-> 2 * x[2]]
<1>1. Levels \in Nat /\ Classes = 0 .. Levels
  BY Bounds DEF Classes
<1>2. H \in [(1 .. Levels) \X Nat -> Nat]
  OBVIOUS
<1>0. 1 \in Nat
  OBVIOUS
<1>3. PICK P \in [0 .. Levels -> Nat] : Iterates(P, Levels, 1, H)
  <2> HIDE DEF H
  <2> QED BY <1>0, <1>1, <1>2, Recursion, Zenon
<1>4. ASSUME NEW k \in Classes PROVE P[k] = IF k = 0 THEN 1 ELSE 2 * P[k - 1]
  <2>1. CASE k = 0
    BY <1>3, <2>1 DEF Iterates
  <2>2. CASE k # 0
    <3>1. k \in 1 .. Levels /\ k - 1 \in 0 .. Levels
      BY <1>1, <2>2
    <3>2. P[k] = H[<<k, P[k - 1]>>] /\ P[k - 1] \in Nat
      BY <1>3, <3>1 DEF Iterates
    <3> QED BY <2>2, <3>1, <3>2
  <2> QED BY <2>1, <2>2
<1>5. P = [k \in Classes |-> IF k = 0 THEN 1 ELSE 2 * P[k - 1]]
  BY <1>1, <1>3, <1>4
<1> DEFINE S == CHOOSE S : S = [k \in Classes |-> IF k = 0 THEN 1 ELSE 2 * S[k - 1]]
<1>6. S = [k \in Classes |-> IF k = 0 THEN 1 ELSE 2 * S[k - 1]]
  BY <1>5, Zenon
<1>7. Side = S
  BY Zenon DEF Side
<1> HIDE DEF S
<1> QED BY <1>6, <1>7

LEMMA SideFacts ==
  ASSUME GlyphCacheAssumption
  PROVE  \A k \in Classes :
           /\ Side[k] \in Nat \ {0} /\ Count(k) \in Nat \ {0}
           /\ k = 0 => Side[k] = 1 /\ Count(k) = 1
           /\ k # 0 => Side[k] = 2 * Side[k - 1] /\ Count(k) = 4 * Count(k - 1)
<1> DEFINE T == {k \in Classes : Side[k] \in Nat \ {0}}
<1>1. ASSUME NEW k \in Classes
      PROVE  Side[k] = IF k = 0 THEN 1 ELSE 2 * Side[k - 1]
  <2> DEFINE S == [i \in Classes |-> IF i = 0 THEN 1 ELSE 2 * Side[i - 1]]
  <2>1. S[k] = IF k = 0 THEN 1 ELSE 2 * Side[k - 1]
    OBVIOUS
  <2>2. Side = S
    BY SideUnfolds
  <2> HIDE DEF S
  <2> QED BY <2>1, <2>2
<1>2. 0 \in T
  BY <1>1, Bounds
<1>3. ASSUME NEW k \in 0 .. Levels - 1, k \in T PROVE k + 1 \in T
  <2>1. k + 1 \in Classes /\ k + 1 # 0 /\ (k + 1) - 1 = k
    BY Bounds DEF Classes
  <2>2. Side[k + 1] = 2 * Side[k]
    BY <1>1, <2>1
  <2> QED BY <1>3, <2>1, <2>2
<1>4. \A k \in 0 .. Levels : k \in T
  <2> HIDE DEF T
  <2> QED BY <1>2, <1>3, Bounds, UpTo
<1> TAKE k \in Classes
<1>5. Side[k] \in Nat \ {0}
  BY <1>4 DEF Classes
<1>6. Count(k) \in Nat \ {0}
  <2>1. \A n \in Nat \ {0} : n * n \in Nat \ {0}
    OBVIOUS
  <2> QED BY <1>5, <2>1 DEF Count
<1>7. CASE k = 0
  BY <1>1, <1>5, <1>6, <1>7 DEF Count
<1>8. CASE k # 0
  <2>1. k - 1 \in Classes /\ Side[k] = 2 * Side[k - 1] /\ Side[k - 1] \in Nat
    BY <1>1, <1>4, <1>8, Bounds DEF Classes
  <2>2. \A n \in Nat : (2 * n) * (2 * n) = 4 * (n * n)
    OBVIOUS
  <2> QED BY <1>5, <1>6, <1>8, <2>1, <2>2 DEF Count
<1> QED BY <1>7, <1>8

-----------------------------------------------------------------------------
(* Aligned squares.                                                        *)

LEMMA Dividing ==
  ASSUME NEW n \in Nat \ {0}, NEW a \in Int
  PROVE  /\ a \div n \in Int /\ a % n \in 0 .. n - 1
         /\ a = n * (a \div n) + (a % n)
         /\ a \in Nat => a \div n \in Nat
<1>1. a \div n \in Int /\ a % n \in 0 .. n - 1 /\ a = n * (a \div n) + (a % n)
  OBVIOUS
<1>2. ASSUME a \in Nat, a \div n < 0 PROVE FALSE
  <2>1. n * ((a \div n) + 1) <= 0
    BY <1>1, <1>2
  <2>2. n * ((a \div n) + 1) = n * (a \div n) + n
    BY <1>1
  <2> QED BY <1>1, <1>2, <2>1, <2>2
<1> QED BY <1>1, <1>2

LEMMA NextMultiple ==
  ASSUME NEW n \in Nat, NEW k \in Int, NEW m \in Int, m < k
  PROVE  n * k >= n * m + n
<1>1. n * (k - m - 1) >= 0
  OBVIOUS
<1>2. n * (k - m - 1) = n * k - n * m - n
  OBVIOUS
<1> QED BY <1>1, <1>2

LEMMA DividedBy ==
  ASSUME NEW n \in Nat \ {0}, NEW q \in Int, NEW r \in 0 .. n - 1
  PROVE  (n * q + r) % n = r /\ (n * q + r) \div n = q
<1> DEFINE a == n * q + r
<1>1. a \in Int
  OBVIOUS
<1>2. /\ a \div n \in Int /\ a % n \in 0 .. n - 1
      /\ a = n * (a \div n) + (a % n)
  BY <1>1, Dividing
<1>3. CASE q = a \div n
  <2>1. n * q = n * (a \div n)
    BY <1>3
  <2> QED BY <1>2, <1>3, <2>1
<1>4. CASE q > a \div n
  BY <1>2, <1>4, NextMultiple
<1>5. CASE q < a \div n
  BY <1>2, <1>5, NextMultiple
<1> QED BY <1>2, <1>3, <1>4, <1>5

LEMMA Multiple ==
  ASSUME NEW n \in Nat \ {0}, NEW q \in Int
  PROVE  (n * q) % n = 0
<1> DEFINE a == n * q
<1>1. a \in Int
  OBVIOUS
<1>2. /\ a \div n \in Int /\ a % n \in 0 .. n - 1
      /\ a = n * (a \div n) + (a % n)
  BY <1>1, Dividing
<1>3. CASE q = a \div n
  <2>1. n * q = n * (a \div n)
    BY <1>3
  <2> QED BY <1>2, <2>1
<1>4. CASE q > a \div n
  BY <1>2, <1>4, NextMultiple
<1>5. CASE q < a \div n
  BY <1>2, <1>5, NextMultiple
<1> QED BY <1>2, <1>3, <1>4, <1>5

Aligned(p, k) == p \in Nat /\ p % Count(k) = 0

LEMMA AlignedIs ==
  ASSUME GlyphCacheAssumption, NEW k \in Classes, NEW p
  PROVE  Aligned(p, k) <=> \E a \in Nat : p = Count(k) * a
<1> DEFINE n == Count(k)
<1>1. n \in Nat \ {0}
  BY SideFacts
<1>2. ASSUME p \in Nat, p % n = 0 PROVE \E a \in Nat : p = n * a
  <2> HIDE DEF n
  <2>1. p \div n \in Nat /\ p = n * (p \div n)
    BY <1>1, <1>2, Dividing
  <2> QED BY <2>1
<1>3. ASSUME NEW a \in Nat, p = n * a PROVE p \in Nat /\ p % n = 0
  <2> HIDE DEF n
  <2>1. n * a \in Nat
    BY <1>1
  <2>2. (n * a) % n = 0
    BY <1>1, Multiple
  <2> QED BY <1>3, <2>1, <2>2
<1> QED BY <1>2, <1>3 DEF Aligned

LEMMA Divides ==
  ASSUME GlyphCacheAssumption, NEW j \in Classes
  PROVE  \A k \in Classes : j <= k => \E d \in Nat \ {0} : Count(k) = Count(j) * d
<1> DEFINE T == {i \in 0 .. Levels - j : \E d \in Nat \ {0} : Count(j + i) = Count(j) * d}
<1>0. Levels - j \in Nat /\ j \in Nat /\ Count(j) \in Nat
  BY Bounds, SideFacts
<1>1. 0 \in T
  <2>1. Count(j + 0) = Count(j) * 1
    BY <1>0 DEF Count
  <2> QED BY <1>0, <2>1
<1>2. ASSUME NEW i \in 0 .. (Levels - j) - 1, i \in T PROVE i + 1 \in T
  <2>1. PICK d \in Nat \ {0} : Count(j + i) = Count(j) * d
    BY <1>2
  <2>2. j + (i + 1) \in Classes /\ j + (i + 1) # 0 /\ (j + (i + 1)) - 1 = j + i
    BY <1>0, Bounds DEF Classes
  <2>3. Count(j + (i + 1)) = 4 * Count(j + i)
    BY <2>2, SideFacts
  <2>4. 4 * (Count(j) * d) = Count(j) * (4 * d) /\ 4 * d \in Nat \ {0}
    BY <1>0
  <2>5. i + 1 \in 0 .. Levels - j
    BY <1>0
  <2> QED BY <2>1, <2>3, <2>4, <2>5
<1>3. \A i \in 0 .. Levels - j : i \in T
  <2> HIDE DEF T
  <2> QED BY <1>0, <1>1, <1>2, UpTo
<1> SUFFICES ASSUME NEW k \in Classes, j <= k
             PROVE  \E d \in Nat \ {0} : Count(k) = Count(j) * d
  OBVIOUS
<1>4. k - j \in 0 .. Levels - j /\ j + (k - j) = k
  BY <1>0, Bounds DEF Classes
<1>5. k - j \in T
  BY <1>3, <1>4
<1> QED BY <1>4, <1>5

LEMMA Coarser ==
  ASSUME GlyphCacheAssumption, NEW j \in Classes, NEW k \in Classes, j <= k,
         NEW p, Aligned(p, k)
  PROVE  Aligned(p, j)
<1>1. PICK d \in Nat \ {0} : Count(k) = Count(j) * d
  BY Divides
<1>2. PICK a \in Nat : p = Count(k) * a
  BY AlignedIs
<1>3. Count(j) \in Nat
  BY SideFacts
<1>4. (Count(j) * d) * a = Count(j) * (d * a) /\ d * a \in Nat
  BY <1>3
<1> QED BY <1>1, <1>2, <1>4, AlignedIs

LEMMA AlignedSum ==
  ASSUME GlyphCacheAssumption, NEW k \in Classes, NEW p, NEW q, Aligned(p, k), Aligned(q, k)
  PROVE  /\ Aligned(p + q, k) /\ Aligned(p + Count(k), k)
         /\ p < q => p + Count(k) <= q
<1>1. PICK a \in Nat : p = Count(k) * a
  BY AlignedIs
<1>2. PICK b \in Nat : q = Count(k) * b
  BY AlignedIs
<1> DEFINE n == Count(k)
<1>3. n \in Nat \ {0}
  BY SideFacts
<1> HIDE DEF n
<1>4. n * a + n * b = n * (a + b) /\ a + b \in Nat
  BY <1>3
<1>5. n * a + n = n * (a + 1) /\ a + 1 \in Nat
  BY <1>3
<1>6. ASSUME n * a < n * b PROVE n * a + n <= n * b
  <2>1. a < b
    <3> SUFFICES ASSUME a >= b PROVE n * a >= n * b
      BY <1>3, <1>6
    <3>1. CASE a = b
      BY <1>3, <3>1
    <3>2. CASE b < a
      BY <1>3, <3>2, NextMultiple
    <3> QED BY <3>1, <3>2
  <2> QED BY <1>3, <2>1, NextMultiple
<1> QED BY <1>1, <1>2, <1>4, <1>5, <1>6, AlignedIs DEF n

LEMMA AlignIs ==
  ASSUME GlyphCacheAssumption, NEW k \in Classes, NEW c \in Nat
  PROVE  /\ Aligned(Align(c, k), k) /\ c \in Square(Align(c, k), k)
         /\ Align(c, k) <= c /\ c < Align(c, k) + Count(k)
<1> DEFINE n == Count(k)
<1>1. n \in Nat \ {0}
  BY SideFacts
<1>2. c \div n \in Nat /\ c % n \in 0 .. n - 1 /\ c = n * (c \div n) + (c % n)
  <2>0. c \in Int
    OBVIOUS
  <2>1. \A d \in Nat \ {0} : c \div d \in Nat /\ c % d \in 0 .. d - 1
                                /\ c = d * (c \div d) + (c % d)
    BY <2>0, Dividing, Zenon
  <2> HIDE DEF n
  <2> QED BY <1>1, <2>1
<1>3. Align(c, k) = n * (c \div n)
  <2>1. n * (c \div n) \in Int
    BY <1>1, <1>2
  <2> QED BY <1>2, <2>1 DEF Align
<1>4. Align(c, k) \in Int /\ Align(c, k) <= c /\ c < Align(c, k) + n
  <2>1. Align(c, k) = c - (c % n)
    BY DEF Align
  <2> HIDE DEF n
  <2> QED BY <1>1, <1>2, <2>1
<1>5. Aligned(Align(c, k), k)
  BY <1>2, <1>3, AlignedIs
<1>6. c \in Square(Align(c, k), k)
  <2> HIDE DEF Align
  <2> QED BY <1>1, <1>4 DEF Square
<1> QED BY <1>4, <1>5, <1>6

LEMMA SquareIs ==
  ASSUME GlyphCacheAssumption, NEW k \in Classes, NEW p \in Nat
  PROVE  p \in Square(p, k) /\ \A c : c \in Square(p, k) <=> c \in Nat /\ p <= c /\ c < p + Count(k)
  BY SideFacts DEF Square

(* Of two aligned squares that meet, the larger holds the smaller.         *)
LEMMA Nested ==
  ASSUME GlyphCacheAssumption, NEW j \in Classes, NEW k \in Classes, j <= k,
         NEW p, NEW q, Aligned(p, j), Aligned(q, k)
  PROVE  \/ Square(p, j) \subseteq Square(q, k)
         \/ Square(p, j) \cap Square(q, k) = {}
<1>1. Aligned(q, j) /\ p \in Nat /\ q \in Nat /\ Aligned(Count(k), j)
  <2>1. Count(k) \in Nat /\ Count(k) * 1 = Count(k)
    BY SideFacts
  <2>2. Aligned(Count(k), k)
    BY <2>1, AlignedIs
  <2> QED BY <2>2, Coarser DEF Aligned
<1>2. Aligned(q + Count(k), j) /\ Count(k) \in Nat /\ Count(j) \in Nat
  BY <1>1, AlignedSum, SideFacts
<1>3. CASE p < q
  <2>1. p + Count(j) <= q
    BY <1>1, <1>3, AlignedSum
  <2>2. ASSUME NEW c \in Square(p, j), c \in Square(q, k) PROVE FALSE
    <3>1. c \in Nat /\ q <= c /\ c < p + Count(j)
      BY <1>1, <2>2, SquareIs
    <3> QED BY <1>1, <1>2, <2>1, <3>1
  <2> QED BY <2>2
<1>4. CASE q <= p /\ p < q + Count(k)
  <2>1. p + Count(j) <= q + Count(k)
    BY <1>1, <1>2, <1>4, AlignedSum
  <2>2. ASSUME NEW c \in Square(p, j) PROVE c \in Square(q, k)
    <3>1. c \in Nat /\ p <= c /\ c < p + Count(j)
      BY <1>1, SquareIs
    <3>2. c \in Nat /\ q <= c /\ c < q + Count(k)
      BY <1>1, <1>2, <1>4, <2>1, <3>1
    <3> QED BY <1>1, <3>2, SquareIs
  <2> QED BY <2>2
<1>5. CASE q + Count(k) <= p
  <2>1. ASSUME NEW c \in Square(p, j), c \in Square(q, k) PROVE FALSE
    <3>1. c \in Nat /\ p <= c /\ c < q + Count(k)
      BY <1>1, <2>1, SquareIs
    <3> QED BY <1>1, <1>2, <1>5, <3>1
  <2> QED BY <2>1
<1> QED BY <1>1, <1>2, <1>3, <1>4, <1>5

-----------------------------------------------------------------------------
(* Places in the picture: glyphs whose squares of cells are disjoint have  *)
(* disjoint boxes.                                                         *)

Point == [x : Nat, y : Nat]

Origin == [x |-> 0, y |-> 0]

Quartered(k, before) ==
  [pos \in Nat |->
     LET quarter == pos \div Count(k - 1)
         at == before[pos % Count(k - 1)]
     IN [x |-> at.x + IF quarter \in {1, 3} THEN Side[k - 1] ELSE 0,
         y |-> at.y + IF quarter \in {2, 3} THEN Side[k - 1] ELSE 0]]

LEMMA QuarteredType ==
  ASSUME GlyphCacheAssumption, NEW k \in 1 .. Levels, NEW W \in [Nat -> Point]
  PROVE  Quartered(k, W) \in [Nat -> Point]
<1>1. k - 1 \in Classes /\ Side[k - 1] \in Nat /\ Count(k - 1) \in Nat \ {0}
  BY Bounds, SideFacts DEF Classes
<1>2. ASSUME NEW pos \in Nat PROVE Quartered(k, W)[pos] \in Point
  <2> DEFINE quarter == pos \div Count(k - 1)
             at == W[pos % Count(k - 1)]
  <2>1. pos % Count(k - 1) \in Nat
    <3>1. pos \in Int
      OBVIOUS
    <3>2. pos % Count(k - 1) \in 0 .. Count(k - 1) - 1
      BY <1>1, <3>1, Dividing
    <3> QED BY <1>1, <3>2
  <2>2. at \in Point
    BY <2>1
  <2>3. Quartered(k, W)[pos] =
          [x |-> at.x + IF quarter \in {1, 3} THEN Side[k - 1] ELSE 0,
           y |-> at.y + IF quarter \in {2, 3} THEN Side[k - 1] ELSE 0]
    BY DEF Quartered
  <2>4. at.x \in Nat /\ at.y \in Nat
    BY <2>2 DEF Point
  <2> HIDE DEF at
  <2>5. /\ at.x + (IF quarter \in {1, 3} THEN Side[k - 1] ELSE 0) \in Nat
        /\ at.y + (IF quarter \in {2, 3} THEN Side[k - 1] ELSE 0) \in Nat
    <3> HIDE DEF quarter
    <3> QED BY <1>1, <2>4
  <2> HIDE DEF quarter
  <2> QED BY <2>3, <2>5 DEF Point
<1>3. Quartered(k, W) = [pos \in Nat |-> Quartered(k, W)[pos]]
  BY DEF Quartered
<1> HIDE DEF Quartered
<1> QED BY <1>2, <1>3

LEMMA WithinUnfolds ==
  ASSUME GlyphCacheAssumption
  PROVE  /\ \A k \in Classes : Within[k] \in [Nat -> Point]
         /\ Within[0] = [pos \in Nat |-> Origin]
         /\ \A k \in 1 .. Levels : Within[k] = Quartered(k, Within[k - 1])
<1> DEFINE V == [Nat -> Point]
           b == [pos \in Nat |-> Origin]
           H == [z \in (1 .. Levels) \X V |-> Quartered(z[1], z[2])]
<1>1. Levels \in Nat /\ Classes = 0 .. Levels
  BY Bounds DEF Classes
<1>2. b \in V
  BY DEF Origin, Point
<1>3. H \in [(1 .. Levels) \X V -> V]
  <2>1. ASSUME NEW z \in (1 .. Levels) \X V PROVE Quartered(z[1], z[2]) \in V
    BY QuarteredType
  <2> QED BY <2>1
<1>4. PICK P \in [0 .. Levels -> V] : Iterates(P, Levels, b, H)
  <2> HIDE DEF H, b, V
  <2> QED BY <1>1, <1>2, <1>3, Recursion, Zenon
<1>5. ASSUME NEW k \in 1 .. Levels PROVE P[k] = Quartered(k, P[k - 1])
  <2>1. k - 1 \in 0 .. Levels
    BY <1>1
  <2>2. P[k] = H[<<k, P[k - 1]>>] /\ P[k - 1] \in V
    BY <1>4, <2>1 DEF Iterates
  <2> HIDE DEF V
  <2> QED BY <2>2
<1> DEFINE Body(W) ==
      [k \in Classes |->
         [pos \in Nat |->
            IF k = 0 THEN [x |-> 0, y |-> 0]
            ELSE LET quarter == pos \div Count(k - 1)
                     at == W[k - 1][pos % Count(k - 1)]
                 IN [x |-> at.x + IF quarter \in {1, 3} THEN Side[k - 1] ELSE 0,
                     y |-> at.y + IF quarter \in {2, 3} THEN Side[k - 1] ELSE 0]]]
<1>6. ASSUME NEW W
      PROVE  /\ Body(W)[0] = b
             /\ \A k \in 1 .. Levels : Body(W)[k] = Quartered(k, W[k - 1])
  <2>1. Body(W)[0] = b
    BY <1>1 DEF Origin
  <2>2. ASSUME NEW k \in 1 .. Levels PROVE Body(W)[k] = Quartered(k, W[k - 1])
    <3>1. k \in Classes /\ k # 0
      BY <1>1
    <3> QED BY <3>1 DEF Quartered
  <2> QED BY <2>1, <2>2
<1>7. P = Body(P)
  <2>1. ASSUME NEW k \in Classes PROVE P[k] = Body(P)[k]
    <3>1. CASE k = 0
      <4>1. P[0] = b
        BY <1>4 DEF Iterates
      <4> HIDE DEF Body, b
      <4> QED BY <1>6, <3>1, <4>1
    <3>2. CASE k # 0
      <4>1. k \in 1 .. Levels
        BY <1>1, <3>2
      <4> HIDE DEF Body
      <4> QED BY <1>5, <1>6, <4>1
    <3> QED BY <3>1, <3>2
  <2>2. Body(P) = [k \in Classes |-> Body(P)[k]]
    OBVIOUS
  <2>3. P = [k \in Classes |-> P[k]]
    BY <1>1
  <2> HIDE DEF Body
  <2> QED BY <2>1, <2>2, <2>3
<1> DEFINE L == CHOOSE W : W = Body(W)
<1>8. L = Body(L)
  <2> HIDE DEF Body
  <2> QED BY <1>7, Zenon
<1>9. Within = L
  BY Zenon DEF Within
<1> HIDE DEF Body, L
<1>10. Within[0] = b /\ \A k \in 1 .. Levels : Within[k] = Quartered(k, Within[k - 1])
  BY <1>6, <1>8, <1>9, Zenon
<1> DEFINE T == {k \in Classes : Within[k] \in V}
<1>11. 0 \in T
  <2>1. Within[0] = b
    BY <1>10, Zenon
  <2> HIDE DEF b, V
  <2>2. 0 \in Classes /\ b \in V
    BY <1>1, <1>2
  <2> QED BY <2>1, <2>2
<1>12. ASSUME NEW k \in 0 .. Levels - 1, k \in T PROVE k + 1 \in T
  <2>1. k + 1 \in 1 .. Levels /\ (k + 1) - 1 = k /\ k + 1 \in Classes
    BY <1>1
  <2>2. Quartered(k + 1, Within[k]) \in V
    BY <1>12, <2>1, QuarteredType
  <2>3. Within[k + 1] = Quartered(k + 1, Within[k])
    BY <1>10, <2>1
  <2> QED BY <2>1, <2>2, <2>3
<1>13. \A k \in 0 .. Levels : k \in T
  <2> HIDE DEF T
  <2> QED BY <1>1, <1>11, <1>12, UpTo
<1> QED BY <1>1, <1>10, <1>13

(* A cell in the picture of a class above the smallest: its quarter, and   *)
(* where it is in it.                                                      *)
LEMMA InQuarter ==
  ASSUME GlyphCacheAssumption, NEW k \in Classes, k # 0, NEW pos \in Nat
  PROVE  LET C == Count(k - 1)
             q == pos \div C
             rest == pos % C
         IN /\ q \in Nat /\ rest \in Nat /\ rest < C /\ pos = C * q + rest
            /\ pos < Count(k) => q \in 0 .. 3
            /\ Within[k - 1][rest] \in Point
            /\ Within[k][pos] \in Point
            /\ Within[k][pos].x =
                 Within[k - 1][rest].x + IF q \in {1, 3} THEN Side[k - 1] ELSE 0
            /\ Within[k][pos].y =
                 Within[k - 1][rest].y + IF q \in {2, 3} THEN Side[k - 1] ELSE 0
            /\ \A j \in Classes : j < k /\ Aligned(pos, j) => Aligned(rest, j)
<1> DEFINE C == Count(k - 1)
           q == pos \div C
           rest == pos % C
<1>1. k \in 1 .. Levels /\ k - 1 \in Classes
  BY Bounds DEF Classes
<1>2. C \in Nat \ {0} /\ Side[k - 1] \in Nat /\ Count(k) = 4 * C
  BY <1>1, SideFacts
<1>3. q \in Nat /\ rest \in 0 .. C - 1 /\ pos = C * q + rest
  <2>1. pos \in Int
    OBVIOUS
  <2> HIDE DEF C
  <2> QED BY <1>2, <2>1, Dividing
<1>4. rest \in Nat /\ rest < C
  <2> HIDE DEF C, rest
  <2> QED BY <1>2, <1>3
<1>5. pos < Count(k) => q \in 0 .. 3
  <2> HIDE DEF C, q, rest
  <2>1. q >= 4 => C * q >= C * 3 + C
    BY <1>2, <1>3, NextMultiple
  <2> QED BY <1>2, <1>3, <1>4, <2>1
<1>6. Within[k - 1] \in [Nat -> Point] /\ Within[k] \in [Nat -> Point]
      /\ Within[k] = Quartered(k, Within[k - 1])
  BY <1>1, WithinUnfolds
<1>7. Within[k - 1][rest] \in Point /\ Within[k][pos] \in Point
  BY <1>4, <1>6
<1>8. /\ Within[k][pos].x =
           Within[k - 1][rest].x + IF q \in {1, 3} THEN Side[k - 1] ELSE 0
      /\ Within[k][pos].y =
           Within[k - 1][rest].y + IF q \in {2, 3} THEN Side[k - 1] ELSE 0
  BY <1>6 DEF Quartered
<1>9. ASSUME NEW j \in Classes, j < k, Aligned(pos, j) PROVE Aligned(rest, j)
  <2>1. j <= k - 1 /\ Count(j) \in Nat \ {0}
    BY <1>9, Bounds, SideFacts
  <2>2. PICK d \in Nat \ {0} : C = Count(j) * d
    BY <1>1, <2>1, Divides
  <2>3. PICK a \in Nat : pos = Count(j) * a
    BY <1>9, AlignedIs
  <2> HIDE DEF C, q, rest
  <2>4. rest = Count(j) * (a - d * q)
    <3>1. Count(j) * (a - d * q) = Count(j) * a - (Count(j) * d) * q
      BY <1>3, <2>1
    <3> QED BY <1>3, <1>4, <2>2, <2>3, <3>1
  <2>5. a - d * q \in Int
    BY <1>3
  <2>6. a - d * q >= 0
    <3>1. ASSUME a - d * q < 0 PROVE FALSE
      <4>1. Count(j) * 0 >= Count(j) * (a - d * q) + Count(j)
        BY <2>1, <2>5, <3>1, NextMultiple
      <4>2. Count(j) * (a - d * q) \in Int /\ Count(j) * 0 = 0
        BY <2>1, <2>5
      <4> QED BY <1>4, <2>1, <2>4, <4>1, <4>2
    <3> QED BY <2>5, <3>1
  <2> QED BY <2>4, <2>5, <2>6, AlignedIs
<1> QED BY <1>3, <1>4, <1>5, <1>7, <1>8, <1>9

LEMMA WithinZero ==
  ASSUME GlyphCacheAssumption
  PROVE  \A k \in Classes : Within[k][0] = Origin
<1> DEFINE T == {k \in Classes : Within[k][0] = Origin}
<1>1. 0 \in T
  BY WithinUnfolds, Bounds
<1>2. ASSUME NEW k \in 0 .. Levels - 1, k \in T PROVE k + 1 \in T
  <2>1. k + 1 \in Classes /\ k + 1 # 0 /\ (k + 1) - 1 = k /\ k \in Classes
    BY Bounds DEF Classes
  <2>2. Count(k) \in Nat \ {0} /\ Count(k) * 0 = 0
    BY <2>1, SideFacts
  <2>3. 0 % Count(k) = 0 /\ 0 \div Count(k) = 0
    <3>1. (Count(k) * 0 + 0) % Count(k) = 0 /\ (Count(k) * 0 + 0) \div Count(k) = 0
      BY <2>2, DividedBy
    <3>2. Count(k) * 0 + 0 = 0
      BY <2>2
    <3> QED BY <3>1, <3>2
  <2>4. Within[k + 1][0].x = Within[k][0].x + 0 /\ Within[k + 1][0].y = Within[k][0].y + 0
        /\ Within[k + 1][0] \in Point
    BY <2>1, <2>3, InQuarter
  <2>5. Within[k + 1][0].x = 0 /\ Within[k + 1][0].y = 0
    BY <1>2, <2>4 DEF Origin
  <2> QED BY <2>1, <2>4, <2>5 DEF Origin, Point
<1>3. \A k \in 0 .. Levels : k \in T
  <2> HIDE DEF T
  <2> QED BY <1>1, <1>2, Bounds, UpTo
<1> QED BY <1>3 DEF Classes

(* The only aligned square as large as the picture is the picture.         *)
LEMMA WholeIsZero ==
  ASSUME GlyphCacheAssumption, NEW k \in Classes, NEW pos, Aligned(pos, k), pos < Count(k)
  PROVE  pos = 0
<1>1. Aligned(0, k)
  <2>1. Count(k) \in Nat /\ Count(k) * 0 = 0
    BY SideFacts
  <2> QED BY <2>1, AlignedIs
<1>2. 0 < pos => 0 + Count(k) <= pos
  BY <1>1, AlignedSum
<1> QED BY <1>2, SideFacts DEF Aligned

(* The box of a square lies inside the picture.                            *)
Fits(k) ==
  \A pos \in Nat, j \in Classes :
    j <= k /\ pos < Count(k) /\ Aligned(pos, j)
      => /\ Within[k][pos] \in Point
         /\ Within[k][pos].x + Side[j] <= Side[k]
         /\ Within[k][pos].y + Side[j] <= Side[k]

LEMMA WithinFits ==
  ASSUME GlyphCacheAssumption
  PROVE  \A k \in Classes : Fits(k)
<1> DEFINE T == {k \in Classes : Fits(k)}
<1>1. ASSUME NEW k \in Classes, k # 0 => Fits(k - 1) PROVE Fits(k)
  <2> SUFFICES ASSUME NEW pos \in Nat, NEW j \in Classes,
                      j <= k, pos < Count(k), Aligned(pos, j)
               PROVE  /\ Within[k][pos] \in Point
                      /\ Within[k][pos].x + Side[j] <= Side[k]
                      /\ Within[k][pos].y + Side[j] <= Side[k]
    BY DEF Fits
  <2>1. Side[j] \in Nat /\ Side[k] \in Nat /\ j \in Nat /\ k \in Nat
    BY SideFacts, Bounds
  <2>2. CASE j = k
    <3>1. pos = 0
      BY <2>2, WholeIsZero
    <3>2. Within[k][pos] = Origin
      BY <3>1, WithinZero
    <3> QED BY <2>1, <2>2, <3>2 DEF Origin, Point
  <2>3. CASE j < k
    <3> DEFINE q == pos \div Count(k - 1)
               rest == pos % Count(k - 1)
               at == Within[k - 1][rest]
    <3>1. k # 0 /\ k - 1 \in Classes /\ j <= k - 1
      BY <2>1, <2>3, Bounds
    <3>2. /\ rest \in Nat /\ rest < Count(k - 1) /\ at \in Point
          /\ Within[k][pos] \in Point /\ Aligned(rest, j)
          /\ Within[k][pos].x = at.x + IF q \in {1, 3} THEN Side[k - 1] ELSE 0
          /\ Within[k][pos].y = at.y + IF q \in {2, 3} THEN Side[k - 1] ELSE 0
      BY <2>3, <3>1, InQuarter
    <3>3. Side[k - 1] \in Nat /\ Side[k] = 2 * Side[k - 1]
      BY <3>1, SideFacts
    <3>4. at.x + Side[j] <= Side[k - 1] /\ at.y + Side[j] <= Side[k - 1]
      BY <1>1, <3>1, <3>2 DEF Fits
    <3>5. at.x \in Nat /\ at.y \in Nat
      BY <3>2 DEF Point
    <3> HIDE DEF at, q, rest
    <3> QED BY <2>1, <3>2, <3>3, <3>4, <3>5
  <2> QED BY <2>1, <2>2, <2>3
<1>2. 0 \in T
  BY <1>1, Bounds
<1>3. ASSUME NEW k \in 0 .. Levels - 1, k \in T PROVE k + 1 \in T
  <2>1. k + 1 \in Classes /\ (k + 1) - 1 = k
    BY Bounds DEF Classes
  <2> QED BY <1>1, <1>3, <2>1
<1>4. \A k \in 0 .. Levels : k \in T
  <2> HIDE DEF T
  <2> QED BY <1>2, <1>3, Bounds, UpTo
<1> QED BY <1>4 DEF Classes

(* Two boxes, of sides s and t at points p and q, have no pixel in common. *)
Beside(p, s, q, t) ==
  \/ p.x + s <= q.x \/ q.x + t <= p.x
  \/ p.y + s <= q.y \/ q.y + t <= p.y

(* Two disjoint aligned squares inside the picture of class k.             *)
Disjoint(k, p, i, q, j) ==
  /\ i <= k /\ p < Count(k) /\ Aligned(p, i)
  /\ j <= k /\ q < Count(k) /\ Aligned(q, j)
  /\ Square(p, i) \cap Square(q, j) = {}

Separates(k) ==
  \A p \in Nat, q \in Nat, i \in Classes, j \in Classes :
    Disjoint(k, p, i, q, j) => Beside(Within[k][p], Side[i], Within[k][q], Side[j])

LEMMA WithinSeparates ==
  ASSUME GlyphCacheAssumption
  PROVE  \A k \in Classes : Separates(k)
<1> DEFINE T == {k \in Classes : Separates(k)}
<1>1. ASSUME NEW k \in Classes, k # 0 => Separates(k - 1) PROVE Separates(k)
  <2> SUFFICES ASSUME NEW p \in Nat, NEW q \in Nat, NEW i \in Classes, NEW j \in Classes,
                      Disjoint(k, p, i, q, j)
               PROVE  Beside(Within[k][p], Side[i], Within[k][q], Side[j])
    BY DEF Separates
  <2>0. /\ i <= k /\ p < Count(k) /\ Aligned(p, i)
        /\ j <= k /\ q < Count(k) /\ Aligned(q, j)
        /\ Square(p, i) \cap Square(q, j) = {}
    BY DEF Disjoint
  <2> USE <2>0
  <2>1. i \in Nat /\ j \in Nat /\ k \in Nat /\ p \in Square(p, i) /\ q \in Square(q, j)
    BY Bounds, SquareIs
  <2>2. i # k
    <3> SUFFICES ASSUME i = k PROVE FALSE
      OBVIOUS
    <3>1. p = 0
      BY WholeIsZero
    <3>2. q \in Square(p, i)
      BY <3>1, SquareIs, SideFacts
    <3> QED BY <2>1, <3>2
  <2>3. j # k
    <3> SUFFICES ASSUME j = k PROVE FALSE
      OBVIOUS
    <3>1. q = 0
      BY WholeIsZero
    <3>2. p \in Square(q, j)
      BY <3>1, SquareIs, SideFacts
    <3> QED BY <2>1, <3>2
  <2> DEFINE C == Count(k - 1)
             S == Side[k - 1]
             pq == p \div C
             pr == p % C
             pa == Within[k - 1][pr]
             qq == q \div C
             qr == q % C
             qa == Within[k - 1][qr]
  <2>4. k # 0 /\ k - 1 \in Classes /\ i < k /\ j < k /\ i <= k - 1 /\ j <= k - 1
    BY <2>1, <2>2, <2>3, Bounds
  <2>5. /\ pq \in 0 .. 3 /\ pr \in Nat /\ pr < C /\ p = C * pq + pr /\ pa \in Point
        /\ Aligned(pr, i)
        /\ Within[k][p].x = pa.x + IF pq \in {1, 3} THEN S ELSE 0
        /\ Within[k][p].y = pa.y + IF pq \in {2, 3} THEN S ELSE 0
    BY <2>4, InQuarter
  <2>6. /\ qq \in 0 .. 3 /\ qr \in Nat /\ qr < C /\ q = C * qq + qr /\ qa \in Point
        /\ Aligned(qr, j)
        /\ Within[k][q].x = qa.x + IF qq \in {1, 3} THEN S ELSE 0
        /\ Within[k][q].y = qa.y + IF qq \in {2, 3} THEN S ELSE 0
    BY <2>4, InQuarter
  <2>7. /\ C \in Nat /\ S \in Nat /\ Side[i] \in Nat /\ Side[j] \in Nat
        /\ Count(i) \in Nat /\ Count(j) \in Nat
    BY <2>4, SideFacts
  <2>8. /\ pa.x \in Nat /\ pa.y \in Nat /\ pa.x + Side[i] <= S /\ pa.y + Side[i] <= S
        /\ qa.x \in Nat /\ qa.y \in Nat /\ qa.x + Side[j] <= S /\ qa.y + Side[j] <= S
    <3>1. Fits(k - 1)
      BY <2>4, WithinFits
    <3> HIDE DEF pr, qr
    <3> QED BY <2>4, <2>5, <2>6, <3>1 DEF Fits, Point
  <2> HIDE DEF C, S, pq, pr, qq, qr
  <2>9. CASE pq = qq
    <3>1. Square(pr, i) \cap Square(qr, j) = {}
      <4> SUFFICES ASSUME NEW c \in Square(pr, i), c \in Square(qr, j) PROVE FALSE
        OBVIOUS
      <4>1. /\ c \in Nat /\ pr <= c /\ c < pr + Count(i)
            /\ qr <= c /\ c < qr + Count(j)
        BY <2>5, <2>6, SquareIs
      <4>2. C * pq \in Nat
        BY <2>5, <2>7
      <4>3. c + C * pq \in Nat /\ p <= c + C * pq /\ c + C * pq < p + Count(i)
        BY <2>5, <2>7, <4>1, <4>2
      <4>4. q <= c + C * pq /\ c + C * pq < q + Count(j)
        BY <2>6, <2>7, <2>9, <4>1, <4>2
      <4>5. c + C * pq \in Square(p, i) /\ c + C * pq \in Square(q, j)
        BY <4>3, <4>4, SquareIs
      <4> QED BY <4>5
    <3>2. Beside(pa, Side[i], qa, Side[j])
      BY <1>1, <2>4, <2>5, <2>6, <3>1 DEF Separates, Disjoint, C
    <3> HIDE DEF pa, qa
    <3> QED BY <2>5, <2>6, <2>7, <2>8, <2>9, <3>2 DEF Beside
  <2>10. CASE pq # qq
    <3> HIDE DEF pa, qa
    <3>1. CASE (pq \in {1, 3}) # (qq \in {1, 3})
      BY <2>5, <2>6, <2>7, <2>8, <3>1 DEF Beside
    <3>2. CASE (pq \in {2, 3}) # (qq \in {2, 3})
      BY <2>5, <2>6, <2>7, <2>8, <3>2 DEF Beside
    <3>3. CASE (pq \in {1, 3}) = (qq \in {1, 3}) /\ (pq \in {2, 3}) = (qq \in {2, 3})
      BY <2>5, <2>6, <2>10, <3>3
    <3> QED BY <3>1, <3>2, <3>3
  <2> QED BY <2>9, <2>10
<1>2. 0 \in T
  BY <1>1, Bounds
<1>3. ASSUME NEW k \in 0 .. Levels - 1, k \in T PROVE k + 1 \in T
  <2>1. k + 1 \in Classes /\ (k + 1) - 1 = k
    BY Bounds DEF Classes
  <2> QED BY <1>1, <1>3, <2>1
<1>4. \A k \in 0 .. Levels : k \in T
  <2> HIDE DEF T
  <2> QED BY <1>2, <1>3, Bounds, UpTo
<1> QED BY <1>4 DEF Classes

LEMMA PlacesSeparate ==
  ASSUME GlyphCacheAssumption,
         NEW p \in Nat, NEW q \in Nat, NEW i \in Classes, NEW j \in Classes,
         Aligned(p, i), Aligned(q, j), Square(p, i) \cap Square(q, j) = {}
  PROVE  /\ Place(p).x \in Int /\ Place(p).y \in Int
         /\ Beside(Place(p), Side[i], Place(q), Side[j])
<1> DEFINE C == Count(Levels)
           S == Side[Levels]
           pt == p \div C
           pr == p % C
           pa == Within[Levels][pr]
           qt == q \div C
           qr == q % C
           qa == Within[Levels][qr]
<1>1. /\ Levels \in Classes /\ i \in Nat /\ j \in Nat /\ i <= Levels /\ j <= Levels
      /\ Tiles \in Nat \ {0}
  BY Bounds
<1>2. /\ C \in Nat \ {0} /\ S \in Nat \ {0} /\ Side[i] \in Nat /\ Side[j] \in Nat
      /\ Count(i) \in Nat /\ Count(j) \in Nat
  BY <1>1, SideFacts
<1>3. /\ pt \in Nat /\ pr \in 0 .. C - 1 /\ p = C * pt + pr
      /\ qt \in Nat /\ qr \in 0 .. C - 1 /\ q = C * qt + qr
  <2>1. p \in Int /\ q \in Int
    OBVIOUS
  <2> HIDE DEF C
  <2> QED BY <1>2, <2>1, Dividing
<1>4. ASSUME NEW a \in Nat, NEW k \in Classes, Aligned(a, k)
      PROVE  Aligned(a % C, k)
  <2>1. a \div C \in Nat /\ a % C \in Nat /\ a = C * (a \div C) + (a % C)
    <3>1. a \in Int
      OBVIOUS
    <3> HIDE DEF C
    <3>2. a \div C \in Nat /\ a % C \in 0 .. C - 1 /\ a = C * (a \div C) + (a % C)
      BY <1>2, <3>1, Dividing
    <3> QED BY <1>2, <3>2
  <2>2. PICK d \in Nat \ {0} : C = Count(k) * d
    BY <1>1, Bounds, Divides
  <2>3. PICK b \in Nat : a = Count(k) * b
    BY <1>4, AlignedIs
  <2> DEFINE t == a \div C
             r == a % C
  <2>4. Count(k) \in Nat \ {0} /\ t \in Nat /\ r \in Nat /\ a = C * t + r
    BY <2>1, SideFacts
  <2> HIDE DEF C, t, r
  <2>5. r = Count(k) * (b - d * t)
    <3>1. Count(k) * (b - d * t) = Count(k) * b - (Count(k) * d) * t
      BY <2>4
    <3> QED BY <1>2, <2>2, <2>3, <2>4, <3>1
  <2>6. b - d * t \in Int
    BY <2>4
  <2>7. b - d * t >= 0
    <3>1. ASSUME b - d * t < 0 PROVE FALSE
      <4>1. Count(k) * 0 >= Count(k) * (b - d * t) + Count(k)
        BY <2>4, <2>6, <3>1, NextMultiple
      <4>2. Count(k) * (b - d * t) \in Int /\ Count(k) * 0 = 0
        BY <2>4, <2>6
      <4> QED BY <2>4, <2>5, <4>1, <4>2
    <3> QED BY <2>6, <3>1
  <2>8. Aligned(r, k)
    BY <2>5, <2>6, <2>7, AlignedIs
  <2> QED BY <2>8 DEF r
<1>5. Aligned(pr, i) /\ Aligned(qr, j)
  BY <1>4
<1>6. pr \in Nat /\ pr < C /\ qr \in Nat /\ qr < C
  <2> HIDE DEF C, pr, qr
  <2> QED BY <1>2, <1>3
<1>7. /\ pa.x \in Nat /\ pa.y \in Nat /\ pa.x + Side[i] <= S /\ pa.y + Side[i] <= S
      /\ qa.x \in Nat /\ qa.y \in Nat /\ qa.x + Side[j] <= S /\ qa.y + Side[j] <= S
  <2>1. Fits(Levels)
    BY <1>1, WithinFits
  <2> HIDE DEF pr, qr
  <2> QED BY <1>1, <1>5, <1>6, <2>1 DEF Fits, Point
<1>8. /\ Place(p).x = (pt % Tiles) * S + pa.x /\ Place(p).y = (pt \div Tiles) * S + pa.y
      /\ Place(q).x = (qt % Tiles) * S + qa.x /\ Place(q).y = (qt \div Tiles) * S + qa.y
  BY DEF Place, MaxSize
<1>9. /\ pt % Tiles \in Nat /\ pt \div Tiles \in Nat /\ pt = Tiles * (pt \div Tiles) + (pt % Tiles)
      /\ qt % Tiles \in Nat /\ qt \div Tiles \in Nat /\ qt = Tiles * (qt \div Tiles) + (qt % Tiles)
  <2>1. ASSUME NEW t \in Nat
        PROVE  t % Tiles \in Nat /\ t \div Tiles \in Nat /\ t = Tiles * (t \div Tiles) + (t % Tiles)
    <3>1. t \in Int
      OBVIOUS
    <3>2. t \div Tiles \in Nat /\ t % Tiles \in 0 .. Tiles - 1
          /\ t = Tiles * (t \div Tiles) + (t % Tiles)
      BY <1>1, <3>1, Dividing
    <3> QED BY <1>1, <3>2
  <2> HIDE DEF pt, qt
  <2> QED BY <1>3, <2>1
<1> DEFINE px == pt % Tiles
           py == pt \div Tiles
           qx == qt % Tiles
           qy == qt \div Tiles
<1> HIDE DEF C, S, pr, qr
<1>10. Place(p).x \in Int /\ Place(p).y \in Int
  <2> HIDE DEF pa, qa, pt, qt, px, py
  <2>1. px * S \in Int /\ py * S \in Int
    BY <1>2, <1>9 DEF px, py
  <2> QED BY <1>7, <1>8, <2>1 DEF px, py
<1>11. CASE pt = qt
  <2>1. Square(pr, i) \cap Square(qr, j) = {}
    <3> SUFFICES ASSUME NEW c \in Square(pr, i), c \in Square(qr, j) PROVE FALSE
      OBVIOUS
    <3> HIDE DEF pt, qt
    <3>1. /\ c \in Nat /\ pr <= c /\ c < pr + Count(i)
          /\ qr <= c /\ c < qr + Count(j)
      BY <1>6, SquareIs
    <3>2. C * pt \in Nat
      BY <1>2, <1>3
    <3>3. c + C * pt \in Nat /\ p <= c + C * pt /\ c + C * pt < p + Count(i)
      BY <1>2, <1>3, <1>6, <3>1, <3>2
    <3>4. q <= c + C * pt /\ c + C * pt < q + Count(j)
      BY <1>2, <1>3, <1>6, <1>11, <3>1, <3>2
    <3>5. c + C * pt \in Square(p, i) /\ c + C * pt \in Square(q, j)
      BY <3>3, <3>4, SquareIs
    <3> QED BY <3>5
  <2>2. Separates(Levels)
    BY <1>1, WithinSeparates
  <2>3. Beside(pa, Side[i], qa, Side[j])
    BY <1>1, <1>5, <1>6, <2>1, <2>2 DEF Separates, Disjoint, C
  <2>4. Place(p).x - pa.x = Place(q).x - qa.x /\ Place(p).y - pa.y = Place(q).y - qa.y
    <3> HIDE DEF pa, qa
    <3>1. px = qx /\ py = qy /\ px * S \in Int /\ py * S \in Int
      BY <1>2, <1>9, <1>11
    <3> HIDE DEF px, py, qx, qy, pt, qt
    <3> QED BY <1>7, <1>8, <3>1 DEF px, py, qx, qy
  <2>5. Place(q).x \in Int /\ Place(q).y \in Int
    <3> HIDE DEF pa, qa, qx, qy, qt
    <3>1. qx * S \in Int /\ qy * S \in Int
      BY <1>2, <1>9 DEF qx, qy
    <3> QED BY <1>7, <1>8, <3>1 DEF qx, qy
  <2> HIDE DEF pa, qa, pt, qt
  <2> QED BY <1>2, <1>7, <1>10, <2>3, <2>4, <2>5 DEF Beside
<1>12. CASE pt # qt
  <2>1. px # qx \/ py # qy
    BY <1>9, <1>12
  <2>2. ASSUME NEW a \in Nat, NEW b \in Nat, a < b PROVE a * S + S <= b * S
    <3>1. S * b >= S * a + S
      BY <1>2, <2>2, NextMultiple
    <3> QED BY <1>2, <3>1
  <2>3. ASSUME NEW a \in Nat, NEW b \in Nat, a # b, NEW v \in Nat, NEW w \in Nat,
               v + Side[i] <= S, w + Side[j] <= S
        PROVE  a * S + v + Side[i] <= b * S + w \/ b * S + w + Side[j] <= a * S + v
    <3>1. a * S \in Nat /\ b * S \in Nat
      BY <1>2
    <3>2. CASE a < b
      BY <1>2, <2>2, <2>3, <3>1, <3>2
    <3>3. CASE b < a
      BY <1>2, <2>2, <2>3, <3>1, <3>3
    <3> QED BY <2>3, <3>2, <3>3
  <2> HIDE DEF pa, qa, pt, qt
  <2>4. CASE px # qx
    <3>1. px * S + pa.x + Side[i] <= qx * S + qa.x \/ qx * S + qa.x + Side[j] <= px * S + pa.x
      BY <1>7, <1>9, <2>3, <2>4
    <3> QED BY <1>8, <1>10, <3>1 DEF Beside
  <2>5. CASE py # qy
    <3>1. py * S + pa.y + Side[i] <= qy * S + qa.y \/ qy * S + qa.y + Side[j] <= py * S + pa.y
      BY <1>7, <1>9, <2>3, <2>5
    <3> QED BY <1>8, <1>10, <3>1 DEF Beside
  <2> QED BY <2>1, <2>4, <2>5
<1> QED BY <1>10, <1>11, <1>12

-----------------------------------------------------------------------------
(* The cache.  Nobody evicts into the last tile (the code may: see          *)
(* GlyphOverlap), where cells can still be free when eviction begins.       *)

LastTileSpared == \A e \in Evictions : e + Count(Levels) < CacheSize

LEMMA LeastIs ==
  ASSUME NEW T \in SUBSET Nat, T # {}
  PROVE  Min(T) \in T /\ \A m \in T : Min(T) <= m
<1>1. \E n \in T : \A m \in T : n <= m
  BY LeastNumber
<1> QED BY <1>1 DEF Min

LEMMA ClassIs ==
  ASSUME GlyphCacheAssumption, NEW g \in Glyphs, Cacheable(g)
  PROVE  Class(g) \in Classes /\ g.width <= Side[Class(g)] /\ g.height <= Side[Class(g)]
<1> DEFINE T == {k \in Classes : g.width <= Side[k] /\ g.height <= Side[k]}
<1>1. Levels \in T /\ T \subseteq Nat
  BY Bounds DEF Cacheable, MaxSize
<1>2. Min(T) \in T
  <2> HIDE DEF T
  <2> QED BY <1>1, LeastIs
<1> QED BY <1>2 DEF Class

LEMMA CacheSizeIs ==
  ASSUME GlyphCacheAssumption
  PROVE  /\ CacheSize \in Nat /\ \A k \in Classes : Aligned(CacheSize, k)
         /\ \A c : c \in Cells <=> c \in Nat /\ c < CacheSize
         /\ \A f \in Formats : f \in BOOLEAN
         /\ \A g \in Glyphs : g.argb \in Formats /\ g # Nobody
<1>1. Tiles * Tiles \in Nat /\ Count(Levels) \in Nat /\ Levels \in Classes
  BY Bounds, SideFacts
<1>2. CacheSize \in Nat /\ CacheSize = Count(Levels) * (Tiles * Tiles)
  BY <1>1 DEF CacheSize
<1>3. Aligned(CacheSize, Levels)
  BY <1>1, <1>2, AlignedIs
<1>4. \A k \in Classes : Aligned(CacheSize, k)
  BY <1>1, <1>3, Coarser, Bounds
<1> HIDE DEF CacheSize
<1>5. \A c : c \in Cells <=> c \in Nat /\ c < CacheSize
  BY <1>2 DEF Cells
<1> QED BY <1>2, <1>4, <1>5 DEF Formats, GlyphCacheAssumption

CacheTypes ==
  /\ count \in [Formats -> 0 .. CacheSize] /\ evict \in [Formats -> Evictions]
  /\ glyphs \in [Formats -> [Cells -> Glyphs \cup {Nobody}]]
  /\ priv \in [Glyphs -> [pos : Cells, class : Classes] \cup {NoPriv}]

Cached(g) == priv[g] # NoPriv

(* A glyph that is cached has an aligned square of its class, all of which *)
(* the cache has given out.                                                *)
HasSquare(g) ==
  /\ Cacheable(g) /\ priv[g].class = Class(g) /\ Aligned(priv[g].pos, Class(g))
  /\ priv[g].pos + Count(Class(g)) <= count[g.argb]

CacheInv ==
  /\ CacheTypes /\ TablesAgree /\ GlyphsAreStored
  /\ \A g \in Glyphs : Cached(g) => HasSquare(g)

SquareOf(g) == Square(priv[g].pos, priv[g].class)

LEMMA CachedFacts ==
  ASSUME GlyphCacheAssumption, CacheInv, NEW g \in Glyphs, Cached(g)
  PROVE  /\ g.argb \in Formats /\ priv[g].class \in Classes /\ priv[g].class = Class(g)
         /\ priv[g].pos \in Cells /\ priv[g].pos \in Nat
         /\ Aligned(priv[g].pos, priv[g].class)
         /\ priv[g].pos + Count(priv[g].class) <= count[g.argb]
         /\ count[g.argb] \in Nat /\ count[g.argb] <= CacheSize
         /\ glyphs[g.argb][priv[g].pos] = g
         /\ \A c \in SquareOf(g) : glyphs[g.argb][c] \in {g, Nobody}
<1>1. priv[g] \in [pos : Cells, class : Classes] /\ g.argb \in Formats
  BY CacheSizeIs DEF CacheInv, CacheTypes, Cached
<1>2. HasSquare(g) /\ TablesAgree
  BY DEF CacheInv
<1>3. count[g.argb] \in 0 .. CacheSize
  BY <1>1 DEF CacheInv, CacheTypes
<1>4. /\ glyphs[g.argb][priv[g].pos] = g
      /\ \A c \in SquareOf(g) : glyphs[g.argb][c] \in {g, Nobody}
  BY <1>2 DEF TablesAgree, Cached, SquareOf
<1>5. priv[g].pos \in Cells /\ priv[g].class \in Classes
  BY <1>1
<1> QED BY <1>1, <1>2, <1>3, <1>4, <1>5, CacheSizeIs DEF HasSquare

LEMMA TableFacts ==
  ASSUME GlyphCacheAssumption, CacheInv, NEW f \in Formats, NEW c \in Cells,
         glyphs[f][c] # Nobody
  PROVE  /\ glyphs[f][c] \in Glyphs /\ glyphs[f][c].argb = f
         /\ Cached(glyphs[f][c]) /\ priv[glyphs[f][c]].pos = c
<1>1. glyphs[f][c] \in Glyphs
  BY DEF CacheInv, CacheTypes
<1>2. glyphs[f][c].argb = f /\ priv[glyphs[f][c]].pos = c
  BY DEF CacheInv, TablesAgree
<1>3. c # -1
  BY CacheSizeIs
<1> QED BY <1>1, <1>2, <1>3 DEF Cached, NoPriv

(* No two glyphs of an atlas share a cell.                                 *)
LEMMA SquaresApart ==
  ASSUME GlyphCacheAssumption, CacheInv, NEW g \in Glyphs, NEW h \in Glyphs,
         Cached(g), Cached(h), g.argb = h.argb, g # h
  PROVE  SquareOf(g) \cap SquareOf(h) = {}
<1>1. ASSUME NEW a \in {g, h}, NEW b \in {g, h}, a # b, priv[a].class <= priv[b].class,
             SquareOf(a) \cap SquareOf(b) # {}
      PROVE  FALSE
  <2>1. a \in Glyphs /\ b \in Glyphs /\ Cached(a) /\ Cached(b) /\ a.argb = b.argb
    BY <1>1
  <2>2. SquareOf(a) \subseteq SquareOf(b)
    BY <1>1, <2>1, CachedFacts, Nested DEF SquareOf
  <2>3. priv[a].pos \in SquareOf(a)
    BY <2>1, CachedFacts, SquareIs DEF SquareOf
  <2>4. a \in {b, Nobody}
    BY <2>1, <2>2, <2>3, CachedFacts
  <2> QED BY <1>1, <2>1, <2>4, CacheSizeIs
<1>2. priv[g].class \in Nat /\ priv[h].class \in Nat
  BY CachedFacts, Bounds
<1>3. SquareOf(g) \cap SquareOf(h) = SquareOf(h) \cap SquareOf(g)
  OBVIOUS
<1>4. CASE priv[g].class <= priv[h].class
  BY <1>1, <1>4
<1>5. CASE priv[h].class <= priv[g].class
  BY <1>1, <1>3, <1>5
<1> QED BY <1>2, <1>4, <1>5

-----------------------------------------------------------------------------
(* Eviction: who stays is not in the way.                                  *)

LEMMA EvictionIs ==
  ASSUME GlyphCacheAssumption, CacheInv, NEW f \in Formats, NEW k \in Classes
  PROVE  /\ evict[f] \in Nat /\ evict[f] \in Cells
         /\ Aligned(Align(evict[f], k), k) /\ Align(evict[f], k) \in Cells
         /\ evict[f] \in Square(Align(evict[f], k), k)
         /\ Align(evict[f], k) + Count(k) <= CacheSize
         /\ Square(Align(evict[f], k), k) \subseteq Cells
<1>1. evict[f] \in Evictions
  BY DEF CacheInv, CacheTypes
<1>2. evict[f] \in Cells /\ evict[f] \in Nat /\ evict[f] < CacheSize
  BY <1>1, CacheSizeIs DEF GlyphCacheAssumption
<1> DEFINE p == Align(evict[f], k)
<1>3. Aligned(p, k) /\ evict[f] \in Square(p, k) /\ p <= evict[f]
  BY <1>2, AlignIs
<1>4. p \in Nat
  BY <1>3 DEF Aligned
<1>5. p < CacheSize
  <2> HIDE DEF p
  <2> QED BY <1>2, <1>3, <1>4, CacheSizeIs
<1>6. p + Count(k) <= CacheSize
  BY <1>3, <1>5, CacheSizeIs, AlignedSum
<1>7. Square(p, k) \subseteq Cells
  <2> HIDE DEF p
  <2> SUFFICES ASSUME NEW c \in Square(p, k) PROVE c \in Cells
    OBVIOUS
  <2>1. c \in Nat /\ c < p + Count(k)
    BY <1>4, SquareIs
  <2> QED BY <1>4, <1>6, <2>1, CacheSizeIs, SideFacts
<1> QED BY <1>2, <1>3, <1>4, <1>5, <1>6, <1>7, CacheSizeIs

(* The square of a class that holds the eviction position.                 *)
Hit(f, k) == Square(Align(evict[f], k), k)

LEMMA HitsNest ==
  ASSUME GlyphCacheAssumption, CacheInv, NEW f \in Formats,
         NEW j \in Classes, NEW k \in Classes, j <= k
  PROVE  Hit(f, j) \subseteq Hit(f, k)
<1>1. evict[f] \in Hit(f, j) \cap Hit(f, k)
  BY EvictionIs DEF Hit
<1>2. Aligned(Align(evict[f], j), j) /\ Aligned(Align(evict[f], k), k)
  BY EvictionIs
<1> QED BY <1>1, <1>2, Nested DEF Hit

LEMMA ExpelledAreCached ==
  ASSUME GlyphCacheAssumption, CacheInv, NEW f \in Formats, NEW k \in Classes,
         NEW x \in Expelled(f, k)
  PROVE  x \in Glyphs /\ x.argb = f /\ Cached(x)
<1>1. CASE Covering(f, k) # {}
  <2> DEFINE starting == {j \in k .. Levels : At(f, Align(evict[f], j)) # Nobody}
             first == At(f, Align(evict[f], Min(starting)))
  <2>1. starting # {} /\ Covering(f, k) = {first}
    BY <1>1 DEF Covering
  <2>2. x = first
    BY <1>1, <2>1 DEF Expelled
  <2>3. starting \in SUBSET Nat /\ starting \subseteq Classes
    BY Bounds DEF Classes
  <2>4. Min(starting) \in starting
    <3> HIDE DEF starting
    <3> QED BY <2>1, <2>3, LeastIs
  <2>5. first # Nobody /\ Min(starting) \in Classes
    BY <2>3, <2>4
  <2>6. Align(evict[f], Min(starting)) \in Cells
    BY <2>5, EvictionIs
  <2> HIDE DEF starting
  <2> QED BY <2>2, <2>5, <2>6, TableFacts DEF At
<1>2. CASE Covering(f, k) = {}
  <2>1. PICK c \in Hit(f, k) : x = At(f, c) /\ x # Nobody
    BY <1>2 DEF Expelled, Hit
  <2>2. c \in Cells
    BY <2>1, EvictionIs DEF Hit
  <2> QED BY <2>1, <2>2, TableFacts DEF At
<1> QED BY <1>1, <1>2

LEMMA StayersAreApart ==
  ASSUME GlyphCacheAssumption, CacheInv, NEW f \in Formats, NEW k \in Classes,
         NEW h \in Glyphs, Cached(h), h.argb = f, h \notin Expelled(f, k)
  PROVE  SquareOf(h) \cap Hit(f, k) = {}
<1> SUFFICES ASSUME SquareOf(h) \cap Hit(f, k) # {} PROVE FALSE
  OBVIOUS
<1> DEFINE starting == {j \in k .. Levels : At(f, Align(evict[f], j)) # Nobody}
           least == Min(starting)
           first == At(f, Align(evict[f], least))
<1>1. /\ priv[h].class \in Classes /\ Aligned(priv[h].pos, priv[h].class)
      /\ priv[h].pos \in Cells /\ priv[h].pos \in SquareOf(h)
  BY CachedFacts, SquareIs DEF SquareOf
<1>2. Aligned(Align(evict[f], k), k) /\ evict[f] \in Hit(f, k) /\ k \in Nat
      /\ priv[h].class \in Nat
  BY <1>1, EvictionIs, Bounds DEF Hit
<1>3. starting \in SUBSET Nat /\ \A j \in starting : j \in Classes /\ k <= j
  BY Bounds DEF Classes
<1>4. ASSUME starting # {}
      PROVE  /\ least \in starting /\ least \in Classes /\ k <= least
             /\ \A j \in starting : least <= j
             /\ first # Nobody /\ first \in Glyphs /\ first.argb = f /\ Cached(first)
             /\ priv[first].pos = Align(evict[f], least)
  <2>1. least \in starting /\ \A j \in starting : least <= j
    <3> HIDE DEF starting
    <3> QED BY <1>3, <1>4, LeastIs
  <2>2. first # Nobody
    BY <2>1
  <2>3. least \in Classes /\ k <= least
    BY <1>3, <2>1
  <2>4. Align(evict[f], least) \in Cells
    BY <2>3, EvictionIs
  <2> HIDE DEF starting, least
  <2> QED BY <2>1, <2>2, <2>3, <2>4, TableFacts DEF At
<1>5. CASE priv[h].class <= k
  <2>1. SquareOf(h) \subseteq Hit(f, k)
    BY <1>1, <1>2, <1>5, Nested DEF SquareOf, Hit
  <2>2. priv[h].pos \in Hit(f, k) /\ At(f, priv[h].pos) = h /\ h # Nobody
    BY <1>1, <2>1, CachedFacts, CacheSizeIs DEF At
  <2>3. CASE Covering(f, k) = {}
    BY <2>2, <2>3 DEF Expelled, Hit
  <2>4. CASE Covering(f, k) # {}
    <3>1. starting # {} /\ priv[first].class >= least /\ Covering(f, k) = {first}
      BY <2>4 DEF Covering
    <3>2. first # h
      BY <2>4, <3>1 DEF Expelled
    <3> HIDE DEF starting, least, first
    <3>3. priv[first].class \in Classes /\ Aligned(priv[first].pos, priv[first].class)
          /\ least \in Classes /\ k <= least /\ priv[first].pos = Align(evict[f], least)
      BY <1>4, <3>1, CachedFacts
    <3>0. least \in Nat /\ priv[first].class \in Nat
      BY <3>3, Bounds
    <3>4. k <= priv[first].class
      BY <1>2, <3>0, <3>1, <3>3
    <3>5. Align(evict[f], least) \in Nat /\ evict[f] \in Hit(f, least)
          /\ Aligned(Align(evict[f], least), least)
      BY <3>3, EvictionIs DEF Hit, Aligned
    <3>6. Align(evict[f], least) \in SquareOf(first) \cap Hit(f, least)
      BY <3>3, <3>5, SquareIs DEF SquareOf, Hit
    <3>7. Hit(f, least) \subseteq SquareOf(first)
      BY <3>0, <3>1, <3>3, <3>5, <3>6, Nested DEF SquareOf, Hit
    <3>8. Hit(f, k) \subseteq SquareOf(first)
      BY <3>3, <3>7, HitsNest
    <3>9. SquareOf(h) \cap SquareOf(first) = {}
      BY <1>4, <3>1, <3>2, SquaresApart
    <3> QED BY <1>1, <2>1, <3>8, <3>9
  <2> QED BY <2>3, <2>4
<1>6. CASE k < priv[h].class
  <2> DEFINE kh == priv[h].class
  <2>1. Hit(f, k) \subseteq SquareOf(h)
    BY <1>1, <1>2, <1>6, Nested DEF SquareOf, Hit
  <2>2. evict[f] \in SquareOf(h) \cap Hit(f, kh)
    BY <1>1, <1>2, <2>1, EvictionIs DEF Hit
  <2>3. Aligned(Align(evict[f], kh), kh) /\ Align(evict[f], kh) \in Nat
    BY <1>1, EvictionIs DEF Aligned
  <2>4. SquareOf(h) \subseteq Hit(f, kh) /\ Hit(f, kh) \subseteq SquareOf(h)
    BY <1>1, <1>2, <2>2, <2>3, Nested DEF SquareOf, Hit
  <2>5. priv[h].pos = Align(evict[f], kh)
    <3>1. Align(evict[f], kh) \in Hit(f, kh) /\ priv[h].pos \in Nat
      BY <1>1, <2>3, SquareIs DEF Hit, Aligned
    <3>2. Align(evict[f], kh) \in SquareOf(h) /\ priv[h].pos \in Hit(f, kh)
      BY <1>1, <2>4, <3>1
    <3>3. priv[h].pos <= Align(evict[f], kh)
      BY <1>1, <3>1, <3>2, SquareIs DEF SquareOf
    <3>4. Align(evict[f], kh) <= priv[h].pos
      BY <1>1, <2>3, <3>2, SquareIs DEF Hit
    <3> QED BY <2>3, <3>1, <3>3, <3>4
  <2>6. kh \in starting
    <3>1. At(f, Align(evict[f], kh)) = h /\ h # Nobody
      BY <2>5, CachedFacts, CacheSizeIs DEF At
    <3>2. kh \in k .. Levels
      BY <1>1, <1>2, <1>6, Bounds
    <3> QED BY <3>1, <3>2
  <2>7. least <= kh /\ least \in Classes /\ first \in Glyphs
        /\ first # Nobody
    BY <1>4, <2>6
  <2> HIDE DEF starting
  <2>8. Align(evict[f], least) \in SquareOf(h)
    <3> HIDE DEF least
    <3>1. Hit(f, least) \subseteq Hit(f, kh)
      BY <1>1, <2>7, HitsNest
    <3>2. Align(evict[f], least) \in Hit(f, least)
      BY <2>7, EvictionIs, SquareIs DEF Hit, Aligned
    <3> QED BY <2>4, <3>1, <3>2
  <2>9. first = h
    <3> HIDE DEF least
    <3> QED BY <2>7, <2>8, CachedFacts DEF At
  <2>10. Covering(f, k) = {h}
    <3>1. priv[h].class >= least
      <4> HIDE DEF least
      <4> QED BY <1>2, <2>7, Bounds
    <3> QED BY <2>6, <2>9, <3>1 DEF Covering, starting
  <2> QED BY <2>10 DEF Expelled
<1> QED BY <1>2, <1>5, <1>6

-----------------------------------------------------------------------------
(* A glyph enters the cache.                                               *)

Free(f, k) == Following(f, k) < CacheSize
PosFor(f, k) == IF Free(f, k) THEN Following(f, k) ELSE Align(evict[f], k)
OutFor(f, k) == IF Free(f, k) THEN {} ELSE Expelled(f, k)
CountAfter(f, k) == IF Free(f, k) THEN PosFor(f, k) + Count(k) ELSE count[f]

LEMMA PlaceFor ==
  ASSUME GlyphCacheAssumption, LastTileSpared, CacheInv, NEW f \in Formats, NEW k \in Classes
  PROVE  /\ PosFor(f, k) \in Cells /\ Aligned(PosFor(f, k), k)
         /\ CountAfter(f, k) \in 0 .. CacheSize /\ count[f] <= CountAfter(f, k)
         /\ PosFor(f, k) + Count(k) <= CountAfter(f, k)
         /\ \A x \in OutFor(f, k) : x \in Glyphs /\ x.argb = f /\ Cached(x)
         /\ \A h \in Glyphs : Cached(h) /\ h.argb = f /\ h \notin OutFor(f, k)
              => SquareOf(h) \cap Square(PosFor(f, k), k) = {}
<1> DEFINE c == count[f]
           n == Count(k)
           p == Following(f, k)
<1>1. c \in Nat /\ c <= CacheSize /\ n \in Nat \ {0} /\ CacheSize \in Nat
  <2>1. count[f] \in 0 .. CacheSize
    BY DEF CacheInv, CacheTypes
  <2> QED BY <2>1, CacheSizeIs, SideFacts
<1>2. /\ c + n - 1 \in Nat /\ p = Align(c + n - 1, k)
  BY <1>1 DEF Following
<1>3. Aligned(p, k) /\ p <= c + n - 1 /\ c + n - 1 < p + n /\ p \in Nat
  BY <1>2, AlignIs DEF Aligned
<1>4. c <= p
  <2> HIDE DEF c, n, p
  <2> QED BY <1>1, <1>3
<1>5. CASE Free(f, k)
  <2>1. p < CacheSize /\ PosFor(f, k) = p /\ OutFor(f, k) = {} /\ CountAfter(f, k) = p + n
    BY <1>5 DEF Free, PosFor, OutFor, CountAfter
  <2>2. p + n <= CacheSize
    BY <1>3, <2>1, CacheSizeIs, AlignedSum
  <2>3. ASSUME NEW h \in Glyphs, Cached(h), h.argb = f
        PROVE  SquareOf(h) \cap Square(p, k) = {}
    <3> SUFFICES ASSUME NEW x \in SquareOf(h), x \in Square(p, k) PROVE FALSE
      OBVIOUS
    <3> DEFINE s == priv[h].pos
               m == Count(priv[h].class)
    <3>1. s \in Nat /\ s + m <= c /\ m \in Nat /\ priv[h].class \in Classes
      BY <2>3, CachedFacts, SideFacts
    <3>2. x \in Nat /\ x < s + m
      BY <3>1, SquareIs DEF SquareOf
    <3>3. p <= x
      BY <1>3, SquareIs
    <3> HIDE DEF s, m, c, p
    <3> QED BY <1>1, <1>3, <1>4, <3>1, <3>2, <3>3
  <2> HIDE DEF c, n, p
  <2>4. p + n \in 0 .. CacheSize /\ c <= p + n
    BY <1>1, <1>3, <1>4, <2>2
  <2>5. p \in Cells
    BY <1>3, <2>1, CacheSizeIs
  <2>6. c = count[f] /\ n = Count(k) /\ p + n <= p + n
    BY <1>1, <1>3 DEF c, n
  <2> QED BY <1>3, <2>1, <2>3, <2>4, <2>5, <2>6
<1>6. CASE ~ Free(f, k)
  <2>1. /\ CacheSize <= p /\ PosFor(f, k) = Align(evict[f], k)
        /\ OutFor(f, k) = Expelled(f, k) /\ CountAfter(f, k) = c
    <3>1. ~ (p < CacheSize)
      BY <1>6 DEF Free
    <3>2. CacheSize <= p
      <4> HIDE DEF p
      <4> QED BY <1>1, <1>3, <3>1
    <3> QED BY <1>6, <3>2 DEF PosFor, OutFor, CountAfter
  <2> DEFINE e == evict[f]
             a == Align(evict[f], k)
             big == Count(Levels)
  <2>2. /\ e \in Nat /\ e + big < CacheSize /\ big \in Nat /\ n <= big
        /\ Levels \in Classes
    <3>1. e \in Evictions /\ e \in Nat
      BY EvictionIs DEF CacheInv, CacheTypes
    <3>2. PICK d \in Nat \ {0} : big = n * d
      BY Bounds, Divides
    <3>3. n <= n * d
      <4> HIDE DEF n
      <4> QED BY <1>1
    <3> QED BY <3>1, <3>2, <3>3, Bounds, SideFacts DEF LastTileSpared
  <2>3. Aligned(a, k) /\ a <= e /\ a \in Nat /\ a \in Cells
    BY <2>2, AlignIs, EvictionIs DEF Aligned
  <2>4. a + n <= c
    <3>1. Aligned(CacheSize - big, k)
      <4>1. PICK t \in Nat : CacheSize = big * t
        BY <2>2, CacheSizeIs, AlignedIs
      <4>2. t # 0
        <5> HIDE DEF e, big
        <5> QED BY <2>2, <4>1
      <4>3. CacheSize - big = big * (t - 1) /\ t - 1 \in Nat
        <5> HIDE DEF e, big
        <5> QED BY <2>2, <4>1, <4>2
      <4>4. Aligned(CacheSize - big, Levels)
        BY <2>2, <4>3, AlignedIs
      <4> QED BY <2>2, <4>4, Coarser, Bounds
    <3>2. a < CacheSize - big => a + n <= CacheSize - big
      BY <2>3, <3>1, AlignedSum
    <3> HIDE DEF e, a, c, n, p, big
    <3> QED BY <1>1, <1>3, <2>1, <2>2, <2>3, <3>2
  <2>5. \A x \in Expelled(f, k) : x \in Glyphs /\ x.argb = f /\ Cached(x)
    BY ExpelledAreCached
  <2>6. \A h \in Glyphs : Cached(h) /\ h.argb = f /\ h \notin Expelled(f, k)
          => SquareOf(h) \cap Square(a, k) = {}
    BY StayersAreApart DEF Hit
  <2>7. c \in 0 .. CacheSize /\ c <= c
    <3> HIDE DEF c
    <3> QED BY <1>1
  <2> HIDE DEF a
  <2>8. PosFor(f, k) = a
    BY <2>1 DEF a
  <2> QED BY <2>1, <2>3, <2>4, <2>5, <2>6, <2>7, <2>8
<1> QED BY <1>5, <1>6

(* What an upload puts over is nobody's who is still cached.               *)
LEMMA NotOverwritten ==
  ASSUME GlyphCacheAssumption, CacheInv, NEW g \in Glyphs, Cacheable(g),
         NEW pos \in Cells, Aligned(pos, Class(g)),
         NEW h \in Glyphs, Cached(h),
         SquareOf(h) \cap Square(pos, Class(g)) = {}
  PROVE  ~ Meet(g, Place(pos), h, Place(priv[h].pos))
<1>1. Class(g) \in Classes /\ g.width <= Side[Class(g)] /\ g.height <= Side[Class(g)]
  BY ClassIs
<1>2. /\ priv[h].class \in Classes /\ Aligned(priv[h].pos, priv[h].class)
      /\ priv[h].pos \in Nat /\ priv[h].class = Class(h) /\ Cacheable(h)
  BY CachedFacts DEF CacheInv, HasSquare
<1>3. h.width <= Side[priv[h].class] /\ h.height <= Side[priv[h].class]
  BY <1>2, ClassIs
<1>4. pos \in Nat /\ Square(pos, Class(g)) \cap SquareOf(h) = {}
  BY CacheSizeIs
<1>5. /\ Beside(Place(pos), Side[Class(g)], Place(priv[h].pos), Side[priv[h].class])
      /\ Place(pos).x \in Int /\ Place(pos).y \in Int
  BY <1>1, <1>2, <1>4, PlacesSeparate DEF SquareOf
<1>6. Place(priv[h].pos).x \in Int /\ Place(priv[h].pos).y \in Int
  BY <1>1, <1>2, <1>4, PlacesSeparate DEF SquareOf
<1>7. Side[Class(g)] \in Nat /\ Side[priv[h].class] \in Nat
  BY <1>1, <1>2, SideFacts
<1>8. /\ g.width \in Nat /\ g.height \in Nat /\ h.width \in Nat /\ h.height \in Nat
  BY DEF GlyphCacheAssumption
<1> HIDE DEF Place, Class
<1> QED BY <1>1, <1>3, <1>5, <1>6, <1>7, <1>8 DEF Beside, Meet

(* The whole of Enter, with the counters of CacheGlyph.                    *)
LEMMA EnterStep ==
  ASSUME GlyphCacheAssumption, LastTileSpared, CacheInv,
         NEW g \in Glyphs, ~ Cached(g), Cacheable(g), NEW gc \in BOOLEAN,
         count' = [count EXCEPT ![g.argb] = CountAfter(g.argb, Class(g))],
         evict' \in [Formats -> Evictions],
         Enter(g, PosFor(g.argb, Class(g)), OutFor(g.argb, Class(g)), gc)
  PROVE  CacheInv' /\ g \in stored' \cup unloaded'
<1> DEFINE f == g.argb
           k == Class(g)
           pos == PosFor(f, k)
           out == OutFor(f, k)
           stay == {h \in Glyphs \ out : priv[h] # NoPriv} \cup {g}
<1>1. f \in Formats /\ k \in Classes /\ g # Nobody
  BY ClassIs, CacheSizeIs
<1>2. /\ pos \in Cells /\ Aligned(pos, k)
      /\ CountAfter(f, k) \in 0 .. CacheSize /\ count[f] <= CountAfter(f, k)
      /\ pos + Count(k) <= CountAfter(f, k)
      /\ \A x \in out : x \in Glyphs /\ x.argb = f /\ Cached(x)
      /\ \A h \in Glyphs : Cached(h) /\ h.argb = f /\ h \notin out
           => SquareOf(h) \cap Square(pos, k) = {}
  BY <1>1, PlaceFor
<1>3. /\ glyphs' = [glyphs EXCEPT ![f] = [Without(@, out) EXCEPT ![pos] = g]]
      /\ priv' = [h \in Glyphs |-> IF h = g THEN [pos |-> pos, class |-> k]
                                   ELSE IF h \in out THEN NoPriv ELSE priv[h]]
      /\ stored' = IF gc THEN Upload(g, pos, stay \ {g}) ELSE stored \cap stay
      /\ unloaded' = IF gc THEN unloaded \ (out \cup {g}) ELSE (unloaded \ out) \cup {g}
  BY Zenon DEF Enter
<1>4. g \notin out
  BY <1>2
<1> HIDE DEF f, k, pos, out, stay
<1>5. CacheTypes /\ TablesAgree
  BY DEF CacheInv
<1>6. /\ glyphs' \in [Formats -> [Cells -> Glyphs \cup {Nobody}]]
      /\ \A e \in Formats, c \in Cells :
           glyphs'[e][c] = IF e = f
                             THEN IF c = pos THEN g
                                  ELSE IF glyphs[f][c] \in out THEN Nobody ELSE glyphs[f][c]
                             ELSE glyphs[e][c]
  <2> DEFINE row == [Without(glyphs[f], out) EXCEPT ![pos] = g]
  <2>1. glyphs \in [Formats -> [Cells -> Glyphs \cup {Nobody}]]
    BY <1>5 DEF CacheTypes
  <2>2. Without(glyphs[f], out) \in [Cells -> Glyphs \cup {Nobody}]
    BY <1>1, <2>1 DEF Without
  <2>3. row \in [Cells -> Glyphs \cup {Nobody}]
    BY <2>2
  <2>4. \A c \in Cells :
          row[c] = IF c = pos THEN g ELSE IF glyphs[f][c] \in out THEN Nobody ELSE glyphs[f][c]
    BY <2>2 DEF Without
  <2>5. glyphs' = [glyphs EXCEPT ![f] = row]
    BY <1>3
  <2> HIDE DEF row
  <2> QED BY <1>1, <2>1, <2>3, <2>4, <2>5
<1>7. /\ priv' \in [Glyphs -> [pos : Cells, class : Classes] \cup {NoPriv}]
      /\ priv'[g] = [pos |-> pos, class |-> k]
      /\ \A h \in Glyphs : h # g => priv'[h] = IF h \in out THEN NoPriv ELSE priv[h]
  <2>1. priv \in [Glyphs -> [pos : Cells, class : Classes] \cup {NoPriv}]
    BY <1>5 DEF CacheTypes
  <2>2. [pos |-> pos, class |-> k] \in [pos : Cells, class : Classes]
    BY <1>1, <1>2
  <2> QED BY <1>3, <2>1, <2>2
<1>8. /\ count' \in [Formats -> 0 .. CacheSize]
      /\ \A e \in Formats : count[e] <= count'[e] /\ count[e] \in Nat /\ count'[e] \in Nat
      /\ pos + Count(k) <= count'[f]
  <2>1. count \in [Formats -> 0 .. CacheSize] /\ CacheSize \in Nat
    BY <1>5, CacheSizeIs DEF CacheTypes
  <2>2. count' = [count EXCEPT ![f] = CountAfter(f, k)]
    BY DEF f, k
  <2> HIDE DEF CountAfter
  <2>3. /\ count' \in [Formats -> 0 .. CacheSize] /\ count'[f] = CountAfter(f, k)
        /\ \A e \in Formats : e # f => count'[e] = count[e]
    BY <1>1, <1>2, <2>1, <2>2
  <2>4. \A e \in Formats : count[e] \in 0 .. CacheSize /\ count'[e] \in 0 .. CacheSize
    BY <2>1, <2>3
  <2>5. \A e \in Formats : count[e] <= count'[e]
    BY <1>2, <2>3, <2>4
  <2> QED BY <1>2, <2>3, <2>4, <2>5
<1>9. CacheTypes'
  BY <1>6, <1>7, <1>8 DEF CacheTypes
<1>10. ASSUME NEW h \in Glyphs, h # g, priv'[h] # NoPriv
       PROVE  /\ Cached(h) /\ h \notin out /\ priv'[h] = priv[h]
              /\ h.argb = f => SquareOf(h) \cap Square(pos, k) = {}
  <2>1. h \notin out /\ priv'[h] = priv[h]
    BY <1>7, <1>10
  <2>2. Cached(h)
    BY <1>10, <2>1 DEF Cached
  <2> QED BY <1>2, <2>1, <2>2
<1>11. pos \in Square(pos, k) /\ pos \in Nat
  BY <1>1, <1>2, CacheSizeIs, SquareIs
<1>12. ASSUME NEW e \in Formats, NEW c \in Cells, glyphs'[e][c] # Nobody
       PROVE  glyphs'[e][c].argb = e /\ priv'[glyphs'[e][c]].pos = c
  <2>1. CASE e = f /\ c = pos
    BY <1>6, <1>7, <2>1 DEF f
  <2>2. CASE ~ (e = f /\ c = pos)
    <3> DEFINE h == glyphs[e][c]
    <3>1. glyphs'[e][c] = h /\ h # Nobody /\ (e = f => h \notin out)
      BY <1>6, <1>12, <2>2
    <3>2. h \in Glyphs /\ h.argb = e /\ Cached(h) /\ priv[h].pos = c
      BY <3>1, TableFacts
    <3>3. h # g /\ h \notin out
      BY <1>2, <3>1, <3>2 DEF f
    <3>4. priv'[h] = priv[h]
      BY <1>7, <3>2, <3>3
    <3> HIDE DEF h
    <3> QED BY <3>1, <3>2, <3>4
  <2> QED BY <2>1, <2>2
<1>13. ASSUME NEW h \in Glyphs, priv'[h] # NoPriv
       PROVE  /\ glyphs'[h.argb][priv'[h].pos] = h
              /\ \A c \in Square(priv'[h].pos, priv'[h].class) :
                   glyphs'[h.argb][c] \in {h, Nobody}
  <2>1. CASE h = g
    <3>1. priv'[h].pos = pos /\ priv'[h].class = k /\ h.argb = f
      BY <1>7, <2>1 DEF f
    <3>2. glyphs'[f][pos] = g
      BY <1>1, <1>2, <1>6
    <3>3. ASSUME NEW c \in Square(pos, k), c # pos PROVE glyphs'[f][c] = Nobody
      <4>1. c \in Cells
        <5>1. c \in Nat /\ c < pos + Count(k)
          BY <1>1, <1>11, SquareIs
        <5>2. pos + Count(k) <= CacheSize /\ Count(k) \in Nat /\ CacheSize \in Nat
          BY <1>1, <1>2, CacheSizeIs, SideFacts, AlignedSum
        <5> QED BY <1>11, <5>1, <5>2, CacheSizeIs
      <4>2. glyphs'[f][c] = IF glyphs[f][c] \in out THEN Nobody ELSE glyphs[f][c]
        BY <1>1, <1>6, <3>3, <4>1
      <4>3. ASSUME glyphs[f][c] # Nobody PROVE glyphs[f][c] \in out
        <5> DEFINE x == glyphs[f][c]
        <5>1. x \in Glyphs /\ x.argb = f /\ Cached(x) /\ priv[x].pos = c
          BY <1>1, <4>1, <4>3, TableFacts
        <5>2. c \in SquareOf(x)
          BY <5>1, CachedFacts, SquareIs DEF SquareOf
        <5> HIDE DEF x
        <5>3. x \in out
          BY <1>2, <3>3, <5>1, <5>2
        <5> QED BY <5>3 DEF x
      <4> QED BY <4>2, <4>3
    <3> QED BY <2>1, <3>1, <3>2, <3>3
  <2>2. CASE h # g
    <3>1. /\ Cached(h) /\ h \notin out /\ priv'[h] = priv[h]
          /\ h.argb = f => SquareOf(h) \cap Square(pos, k) = {}
      BY <1>10, <1>13, <2>2
    <3>2. /\ h.argb \in Formats /\ priv[h].pos \in Cells /\ priv[h].pos \in Nat
          /\ priv[h].class \in Classes
          /\ Aligned(priv[h].pos, priv[h].class)
          /\ glyphs[h.argb][priv[h].pos] = h
          /\ \A c \in SquareOf(h) : glyphs[h.argb][c] \in {h, Nobody}
      BY <3>1, CachedFacts
    <3>3. h.argb = f => pos \notin SquareOf(h)
      BY <1>11, <3>1
    <3>4. ASSUME NEW c \in SquareOf(h)
          PROVE  c \in Cells
      <4>1. c \in Nat /\ c < priv[h].pos + Count(priv[h].class)
        BY <3>2, SquareIs DEF SquareOf
      <4>2. /\ priv[h].pos + Count(priv[h].class) <= CacheSize
            /\ Count(priv[h].class) \in Nat /\ CacheSize \in Nat
        BY <3>2, CacheSizeIs, SideFacts, AlignedSum
      <4> QED BY <3>2, <4>1, <4>2, CacheSizeIs
    <3>5. ASSUME NEW c \in SquareOf(h)
          PROVE  glyphs'[h.argb][c] \in {glyphs[h.argb][c], Nobody}
      <4>1. h.argb = f => c # pos
        BY <3>3
      <4> QED BY <1>6, <3>2, <3>4, <4>1
    <3>6. \A c \in SquareOf(h) : glyphs'[h.argb][c] \in {h, Nobody}
      BY <3>2, <3>5
    <3>7. glyphs'[h.argb][priv[h].pos] = h
      <4>1. priv[h].pos \in SquareOf(h)
        BY <3>2, SquareIs DEF SquareOf
      <4>2. h.argb = f => priv[h].pos # pos
        BY <3>3, <4>1
      <4> QED BY <1>6, <3>1, <3>2, <4>2
    <3> QED BY <3>1, <3>6, <3>7 DEF SquareOf
  <2> QED BY <2>1, <2>2
<1>14. TablesAgree'
  BY <1>12, <1>13 DEF TablesAgree
<1>15. ASSUME NEW h \in Glyphs, priv'[h] # NoPriv
       PROVE  HasSquare(h)'
  <2>1. CASE h = g
    <3>1. priv'[h].pos = pos /\ priv'[h].class = k /\ h.argb = f
      BY <1>7, <2>1 DEF f
    <3> QED BY <1>2, <1>8, <2>1, <3>1 DEF HasSquare, k, Aligned, Class, Cacheable
  <2>2. CASE h # g
    <3>1. Cached(h) /\ priv'[h] = priv[h]
      BY <1>10, <1>15, <2>2
    <3>2. HasSquare(h)
      BY <3>1 DEF CacheInv
    <3>3. h.argb \in Formats /\ priv[h].pos \in Nat /\ Class(h) \in Classes
      BY <3>1, CachedFacts
    <3>4. Count(Class(h)) \in Nat
      BY <3>3, SideFacts
    <3>5. priv[h].pos + Count(Class(h)) <= count'[h.argb]
      <4>1. priv[h].pos + Count(Class(h)) <= count[h.argb]
        BY <3>2 DEF HasSquare
      <4> HIDE DEF Count, Class
      <4> QED BY <1>8, <3>3, <3>4, <4>1
    <3> QED BY <3>1, <3>2, <3>5 DEF HasSquare, Aligned, Class, Cacheable, Count
  <2> QED BY <2>1, <2>2
<1>16. g \in stored' \cup unloaded'
  BY <1>3 DEF Upload
<1>17. ASSUME NEW h \in Glyphs, priv'[h] # NoPriv
       PROVE  h \in stored' \cup unloaded'
  <2>1. CASE h = g
    BY <1>16, <2>1
  <2>2. CASE h # g
    <3>1. /\ Cached(h) /\ h \notin out /\ priv'[h] = priv[h]
          /\ h.argb = f => SquareOf(h) \cap Square(pos, k) = {}
      BY <1>10, <1>17, <2>2
    <3>2. h \in stay \ {g}
      BY <2>2, <3>1 DEF stay, Cached
    <3>3. CASE h \in unloaded
      BY <1>3, <2>2, <3>1, <3>3
    <3>4. CASE h \in stored /\ gc
      <4>1. h.argb = g.argb => ~ Meet(g, Place(pos), h, Place(priv[h].pos))
        BY <1>2, <3>1, NotOverwritten DEF f, k
      <4>2. h \in Upload(g, pos, stay \ {g})
        BY <3>2, <3>4, <4>1 DEF Upload
      <4> QED BY <1>3, <3>4, <4>2
    <3>5. CASE h \in stored /\ ~ gc
      BY <1>3, <3>2, <3>5
    <3>6. h \in stored \cup unloaded
      BY <3>1 DEF CacheInv, GlyphsAreStored, Cached
    <3> QED BY <3>3, <3>4, <3>5, <3>6
  <2> QED BY <2>1, <2>2
<1> QED BY <1>9, <1>14, <1>15, <1>16, <1>17 DEF CacheInv, GlyphsAreStored, Cached

(* The counters of CacheGlyph, whoever enters.                             *)
LEMMA CountersStep ==
  ASSUME GlyphCacheAssumption, LastTileSpared, CacheInv,
         NEW g \in Glyphs, Cacheable(g), NEW memory \in BOOLEAN, NEW gc \in BOOLEAN,
         CacheGlyph(g, memory, gc)
  PROVE  /\ g.argb \in Formats /\ Class(g) \in Classes
         /\ count' = [count EXCEPT ![g.argb] = CountAfter(g.argb, Class(g))]
         /\ evict' \in [Formats -> Evictions]
         /\ IF memory THEN Enter(g, PosFor(g.argb, Class(g)), OutFor(g.argb, Class(g)), gc)
            ELSE UNCHANGED <<glyphs, priv, stored, unloaded>>
<1> DEFINE f == g.argb
           k == Class(g)
<1>1. f \in Formats /\ k \in Classes
  BY ClassIs, CacheSizeIs
<1>2. count \in [Formats -> 0 .. CacheSize] /\ evict \in [Formats -> Evictions]
  BY DEF CacheInv, CacheTypes
<1>3. count' = IF Free(f, k) THEN [count EXCEPT ![f] = PosFor(f, k) + Count(k)] ELSE count
  BY Zenon DEF CacheGlyph, Free, PosFor
<1>4. IF Free(f, k) THEN UNCHANGED evict ELSE \E r \in Evictions : evict' = [evict EXCEPT ![f] = r]
  BY Zenon DEF CacheGlyph, Free
<1>5. IF memory THEN Enter(g, PosFor(f, k), OutFor(f, k), gc)
      ELSE UNCHANGED <<glyphs, priv, stored, unloaded>>
  BY Zenon DEF CacheGlyph, Free, PosFor, OutFor
<1> HIDE DEF f, k
<1>6. count' = [count EXCEPT ![f] = CountAfter(f, k)]
  <2>1. CASE Free(f, k)
    BY <1>3, <2>1 DEF CountAfter
  <2>2. CASE ~ Free(f, k)
    <3>1. count' = count /\ CountAfter(f, k) = count[f]
      BY <1>3, <2>2 DEF CountAfter
    <3> HIDE DEF CountAfter
    <3> QED BY <1>1, <1>2, <3>1
  <2> QED BY <2>1, <2>2
<1>7. evict' \in [Formats -> Evictions]
  BY <1>1, <1>2, <1>4
<1> QED BY <1>1, <1>5, <1>6, <1>7 DEF f, k

LEMMA CountGrows ==
  ASSUME GlyphCacheAssumption, CacheInv,
         count' \in [Formats -> 0 .. CacheSize], evict' \in [Formats -> Evictions],
         \A e \in Formats : count[e] <= count'[e],
         UNCHANGED <<glyphs, priv, stored, unloaded>>
  PROVE  CacheInv'
<1>1. CacheTypes' /\ TablesAgree' /\ GlyphsAreStored'
  BY DEF CacheInv, CacheTypes, TablesAgree, GlyphsAreStored
<1>2. ASSUME NEW g \in Glyphs, Cached(g)
      PROVE  HasSquare(g)'
  <2>1. HasSquare(g) /\ g.argb \in Formats /\ priv[g].pos \in Nat /\ Class(g) \in Classes
    BY <1>2, CachedFacts DEF CacheInv
  <2>2. Count(Class(g)) \in Nat /\ count[g.argb] \in Nat /\ count'[g.argb] \in Nat
        /\ count[g.argb] <= count'[g.argb]
    <3>1. count[g.argb] \in 0 .. CacheSize /\ count'[g.argb] \in 0 .. CacheSize
      BY <2>1 DEF CacheInv, CacheTypes
    <3> QED BY <2>1, <3>1, SideFacts, CacheSizeIs
  <2>3. priv[g].pos + Count(Class(g)) <= count[g.argb]
    BY <2>1 DEF HasSquare
  <2>4. priv[g].pos + Count(Class(g)) <= count'[g.argb]
    <3> HIDE DEF Count, Class
    <3> QED BY <2>1, <2>2, <2>3
  <2> QED BY <2>1, <2>4 DEF HasSquare, Aligned, Class, Cacheable, Count
<1> QED BY <1>1, <1>2 DEF CacheInv, Cached

LEMMA CacheGlyphStep ==
  ASSUME GlyphCacheAssumption, LastTileSpared, CacheInv,
         NEW g \in Glyphs, ~ Cached(g), Cacheable(g),
         NEW memory \in BOOLEAN, NEW gc \in BOOLEAN, CacheGlyph(g, memory, gc)
  PROVE  CacheInv' /\ (memory => g \in stored' \cup unloaded')
<1>1. CASE memory
  <2>1. /\ count' = [count EXCEPT ![g.argb] = CountAfter(g.argb, Class(g))]
        /\ evict' \in [Formats -> Evictions]
        /\ Enter(g, PosFor(g.argb, Class(g)), OutFor(g.argb, Class(g)), gc)
    BY <1>1, CountersStep
  <2> QED BY <2>1, EnterStep
<1>2. CASE ~ memory
  <2>1. /\ g.argb \in Formats /\ Class(g) \in Classes
        /\ count' = [count EXCEPT ![g.argb] = CountAfter(g.argb, Class(g))]
        /\ evict' \in [Formats -> Evictions]
        /\ UNCHANGED <<glyphs, priv, stored, unloaded>>
    BY <1>2, CountersStep
  <2>2. /\ CountAfter(g.argb, Class(g)) \in 0 .. CacheSize
        /\ count[g.argb] <= CountAfter(g.argb, Class(g))
    BY <2>1, PlaceFor
  <2>3. count \in [Formats -> 0 .. CacheSize]
    BY DEF CacheInv, CacheTypes
  <2>4. /\ count' \in [Formats -> 0 .. CacheSize]
        /\ \A e \in Formats : count[e] <= count'[e]
    <3> DEFINE n == CountAfter(g.argb, Class(g))
    <3> HIDE DEF n
    <3>1. \A e \in Formats : count'[e] = IF e = g.argb THEN n ELSE count[e]
      BY <2>1, <2>3 DEF n
    <3>2. \A e \in Formats : count[e] <= count[e]
      BY <2>3, CacheSizeIs
    <3> QED BY <2>1, <2>2, <2>3, <3>1, <3>2 DEF n
  <2> QED BY <1>2, <2>1, <2>4, CountGrows
<1> QED BY <1>1, <1>2

LEMMA UnrealizeStep ==
  ASSUME GlyphCacheAssumption, CacheInv, NEW g \in Glyphs, Unrealize(g)
  PROVE  CacheInv'
<1> DEFINE f == g.argb
           p == priv[g].pos
<1>1. Cached(g) /\ f \in Formats /\ p \in Cells /\ glyphs[f][p] = g
  BY CachedFacts DEF Unrealize, Cached
<1>2. CacheTypes /\ TablesAgree /\ GlyphsAreStored
  BY DEF CacheInv
<1>3. /\ glyphs' = [glyphs EXCEPT ![f][p] = Nobody]
      /\ priv' = [priv EXCEPT ![g] = NoPriv]
      /\ stored' = stored \ {g} /\ unloaded' = unloaded \ {g}
      /\ count' = count /\ evict' = evict
  BY DEF Unrealize
<1> HIDE DEF f, p
<1>4. /\ glyphs' \in [Formats -> [Cells -> Glyphs \cup {Nobody}]]
      /\ \A e \in Formats, c \in Cells :
           glyphs'[e][c] = IF e = f /\ c = p THEN Nobody ELSE glyphs[e][c]
  <2>1. glyphs \in [Formats -> [Cells -> Glyphs \cup {Nobody}]]
    BY <1>2 DEF CacheTypes
  <2>2. glyphs[f] \in [Cells -> Glyphs \cup {Nobody}]
    BY <1>1, <2>1
  <2> DEFINE row == [glyphs[f] EXCEPT ![p] = Nobody]
  <2>3. /\ row \in [Cells -> Glyphs \cup {Nobody}]
        /\ \A c \in Cells : row[c] = IF c = p THEN Nobody ELSE glyphs[f][c]
    BY <2>2
  <2>4. glyphs' = [glyphs EXCEPT ![f] = row]
    BY <1>3
  <2> HIDE DEF row
  <2> QED BY <1>1, <2>1, <2>3, <2>4
<1>5. /\ priv' \in [Glyphs -> [pos : Cells, class : Classes] \cup {NoPriv}]
      /\ \A h \in Glyphs : priv'[h] = IF h = g THEN NoPriv ELSE priv[h]
  BY <1>2, <1>3 DEF CacheTypes
<1>6. CacheTypes'
  BY <1>2, <1>3, <1>4, <1>5 DEF CacheTypes
<1>7. ASSUME NEW e \in Formats, NEW c \in Cells, glyphs'[e][c] # Nobody
      PROVE  glyphs'[e][c].argb = e /\ priv'[glyphs'[e][c]].pos = c
  <2> DEFINE h == glyphs[e][c]
  <2>1. glyphs'[e][c] = h /\ h # Nobody /\ ~ (e = f /\ c = p)
    BY <1>4, <1>7
  <2>2. h \in Glyphs /\ h.argb = e /\ priv[h].pos = c
    BY <2>1, TableFacts
  <2>3. h # g
    BY <2>1, <2>2 DEF f, p
  <2> HIDE DEF h
  <2> QED BY <1>5, <2>1, <2>2, <2>3
<1>8. ASSUME NEW h \in Glyphs, priv'[h] # NoPriv
      PROVE  h # g /\ Cached(h) /\ priv'[h] = priv[h]
  BY <1>5, <1>8 DEF Cached
<1>9. ASSUME NEW h \in Glyphs, priv'[h] # NoPriv
      PROVE  /\ glyphs'[h.argb][priv'[h].pos] = h
             /\ \A c \in Square(priv'[h].pos, priv'[h].class) :
                  glyphs'[h.argb][c] \in {h, Nobody}
  <2>1. h # g /\ Cached(h) /\ priv'[h] = priv[h]
    BY <1>8, <1>9
  <2>2. /\ h.argb \in Formats /\ priv[h].pos \in Cells /\ priv[h].pos \in Nat
        /\ priv[h].class \in Classes
        /\ Aligned(priv[h].pos, priv[h].class)
        /\ glyphs[h.argb][priv[h].pos] = h
        /\ \A c \in SquareOf(h) : glyphs[h.argb][c] \in {h, Nobody}
    BY <2>1, CachedFacts
  <2>3. ~ (h.argb = f /\ priv[h].pos = p)
    BY <1>1, <2>1, <2>2
  <2>4. ASSUME NEW c \in SquareOf(h)
        PROVE  c \in Cells
    <3>1. c \in Nat /\ c < priv[h].pos + Count(priv[h].class)
      BY <2>2, SquareIs DEF SquareOf
    <3>2. /\ priv[h].pos + Count(priv[h].class) <= CacheSize
          /\ Count(priv[h].class) \in Nat /\ CacheSize \in Nat
      BY <2>2, CacheSizeIs, SideFacts, AlignedSum
    <3> QED BY <2>2, <3>1, <3>2, CacheSizeIs
  <2>5. \A c \in SquareOf(h) : glyphs'[h.argb][c] \in {h, Nobody}
    BY <1>4, <2>2, <2>4
  <2>6. glyphs'[h.argb][priv[h].pos] = h
    BY <1>4, <2>2, <2>3
  <2> QED BY <2>1, <2>5, <2>6 DEF SquareOf
<1>10. TablesAgree'
  BY <1>7, <1>9 DEF TablesAgree
<1>11. GlyphsAreStored'
  BY <1>2, <1>3, <1>8 DEF GlyphsAreStored, Cached
<1>12. ASSUME NEW h \in Glyphs, priv'[h] # NoPriv
       PROVE  HasSquare(h)'
  <2>1. HasSquare(h) /\ priv'[h] = priv[h]
    BY <1>8, <1>12 DEF CacheInv
  <2> QED BY <1>3, <2>1 DEF HasSquare, Aligned, Class, Cacheable, Count
<1> QED BY <1>6, <1>10, <1>11, <1>12 DEF CacheInv, Cached

LEMMA CacheStays ==
  ASSUME CacheInv, UNCHANGED cache
  PROVE  CacheInv'
BY DEF cache, CacheInv, CacheTypes, TablesAgree, GlyphsAreStored, Cached, HasSquare,
       Aligned, Class, Cacheable, Count

LEMMA CacheStarts ==
  ASSUME GlyphCacheAssumption, GlyphInit
  PROVE  CacheInv
<1>1. CacheTypes
  BY CacheSizeIs DEF GlyphInit, CacheTypes, GlyphCacheAssumption
<1>2. \A g \in Glyphs : ~ Cached(g)
  BY DEF GlyphInit, Cached
<1>3. TablesAgree
  BY <1>2 DEF TablesAgree, Cached, GlyphInit
<1> QED BY <1>1, <1>2, <1>3 DEF CacheInv, GlyphsAreStored, Cached

-----------------------------------------------------------------------------
(* Requests and what is drawn of them.                                     *)

Asked == Requests \cup {<<>>}

LEMMA RequestIs ==
  ASSUME GlyphCacheAssumption, NEW r \in Asked
  PROVE  /\ r \in Seq([glyph : Glyphs, x : Int, y : Int]) /\ Len(r) \in Nat
         /\ DOMAIN r = 1 .. Len(r)
         /\ \A n \in 1 .. Len(r) : /\ r[n].glyph \in Glyphs /\ r[n].x \in Int /\ r[n].y \in Int
                                  /\ r[n].glyph.width \in Nat /\ r[n].glyph.height \in Nat
<1> DEFINE R == [glyph : Glyphs, x : Int, y : Int]
<1>1. r \in Seq(R)
  <2>1. Requests \subseteq Seq(R)
    BY DEF GlyphCacheAssumption
  <2> HIDE DEF R
  <2>2. <<>> \in Seq(R)
    OBVIOUS
  <2> QED BY <2>1, <2>2, Zenon DEF Asked
<1>2. Len(r) \in Nat /\ DOMAIN r = 1 .. Len(r) /\ \A n \in 1 .. Len(r) : r[n] \in R
  <2> HIDE DEF R
  <2> QED BY <1>1
<1>3. \A n \in 1 .. Len(r) : r[n].glyph \in Glyphs /\ r[n].x \in Int /\ r[n].y \in Int
  BY <1>2
<1> QED BY <1>1, <1>2, <1>3 DEF GlyphCacheAssumption

(* What a longer part of a request adds to the glyphs drawn of it.         *)
LEMMA NotEmptyUnfolds ==
  ASSUME GlyphCacheAssumption, NEW r \in Asked
  PROVE  /\ NotEmpty(r)[0] = <<>>
         /\ \A n \in 1 .. Len(r) :
              NotEmpty(r)[n] = IF Empty(r[n].glyph) THEN NotEmpty(r)[n - 1]
                               ELSE Append(NotEmpty(r)[n - 1], r[n].glyph)
<1> DEFINE L == Len(r)
           V == Seq(Glyphs)
           H == [z \in (1 .. L) \X V |-> IF Empty(r[z[1]].glyph) THEN z[2]
                                        ELSE Append(z[2], r[z[1]].glyph)]
<1>1. L \in Nat /\ \A n \in 1 .. L : r[n].glyph \in Glyphs
  BY RequestIs
<1>2. H \in [(1 .. L) \X V -> V]
  BY <1>1
<1>3. <<>> \in V
  OBVIOUS
<1>4. PICK P \in [0 .. L -> V] : Iterates(P, L, <<>>, H)
  <2> HIDE DEF H, V, L
  <2> QED BY <1>1, <1>2, <1>3, Recursion, Zenon
<1>5. ASSUME NEW n \in 0 .. L
      PROVE  P[n] = IF n = 0 THEN <<>>
                    ELSE IF Empty(r[n].glyph) THEN P[n - 1] ELSE Append(P[n - 1], r[n].glyph)
  <2>1. CASE n = 0
    BY <1>4, <2>1 DEF Iterates
  <2>2. CASE n # 0
    <3>1. n \in 1 .. L /\ n - 1 \in 0 .. L
      BY <1>1, <2>2
    <3>2. P[n] = H[<<n, P[n - 1]>>] /\ P[n - 1] \in V
      BY <1>4, <3>1 DEF Iterates
    <3> QED BY <2>2, <3>1, <3>2
  <2> QED BY <2>1, <2>2
<1>6. P = [n \in 0 .. L |->
            IF n = 0 THEN <<>>
            ELSE IF Empty(r[n].glyph) THEN P[n - 1] ELSE Append(P[n - 1], r[n].glyph)]
  BY <1>1, <1>4, <1>5
<1> DEFINE A == CHOOSE A : A = [n \in 0 .. L |->
                  IF n = 0 THEN <<>>
                  ELSE IF Empty(r[n].glyph) THEN A[n - 1] ELSE Append(A[n - 1], r[n].glyph)]
<1>7. A = [n \in 0 .. L |->
            IF n = 0 THEN <<>>
            ELSE IF Empty(r[n].glyph) THEN A[n - 1] ELSE Append(A[n - 1], r[n].glyph)]
  BY <1>6, Zenon
<1>8. NotEmpty(r) = A
  BY Zenon DEF NotEmpty
<1> HIDE DEF A
<1>9. /\ A[0] = <<>>
      /\ \A n \in 1 .. L : A[n] = IF Empty(r[n].glyph) THEN A[n - 1]
                                 ELSE Append(A[n - 1], r[n].glyph)
  <2>1. 0 \in 0 .. L /\ \A n \in 1 .. L : n \in 0 .. L /\ n # 0
    BY <1>1
  <2> HIDE DEF L
  <2> QED BY <1>7, <2>1
<1> QED BY <1>8, <1>9

(* What is known between two glyphs: the driver is prepared for what the    *)
(* loop believes, and what there was so far has been drawn.                *)
Prepared == glyphAtlas # None => source = glyphAtlas

DrawInv ==
  /\ request \in Asked /\ upcoming \in 1 .. Len(request) + 1
  /\ Prepared /\ DrawnRight

LEMMA Pictures ==
  ASSUME NEW g \in Glyphs
  PROVE  /\ Atlas(g.argb) # None /\ Picture(g) # None /\ Picture(g) # Atlas(g.argb)
         /\ None # Atlas(g.argb) /\ None # Picture(g)
BY DEF Atlas, Picture, None

LEMMA CompositeStep ==
  ASSUME GlyphCacheAssumption, DrawInv, Drawing, upcoming <= Len(request),
         NEW g, g = request[upcoming].glyph, ~ Empty(g),
         NEW atlas, NEW local, NEW prepared, local = atlas => prepared = atlas,
         atlas = Atlas(g.argb) => g \in stored' \cup unloaded',
         Composite(g, atlas, local, prepared)
  PROVE  DrawInv'
<1>1. /\ glyphAtlas' = atlas /\ source' = atlas /\ drawn' = Append(drawn, g)
      /\ upcoming' = upcoming + 1 /\ request' = request /\ mode' = mode
  BY Zenon DEF Composite
<1>2. request \in Asked /\ upcoming \in 1 .. Len(request) /\ Len(request) \in Nat
  BY RequestIs DEF DrawInv
<1>3. drawn = NotEmpty(request)[upcoming - 1]
  BY DEF DrawInv, DrawnRight
<1>4. NotEmpty(request)[upcoming] = Append(drawn, g)
  BY <1>2, <1>3, NotEmptyUnfolds
<1>5. upcoming' \in 1 .. Len(request) + 1 /\ upcoming' - 1 = upcoming
  BY <1>1, <1>2
<1>6. DrawnRight'
  <2>1. drawn' = NotEmpty(request')[upcoming' - 1]
    BY <1>1, <1>4, <1>5
  <2> QED BY <2>1 DEF DrawnRight
<1>7. Prepared'
  BY <1>1 DEF Prepared
<1> QED BY <1>1, <1>2, <1>5, <1>6, <1>7 DEF DrawInv

(* Every step keeps both halves of the invariant.                          *)
IInv == CacheInv /\ DrawInv

LEMMA DrawGlyphStep ==
  ASSUME GlyphCacheAssumption, LastTileSpared, IInv, DrawGlyph
  PROVE  IInv'
<1> DEFINE g == request[upcoming].glyph
<1>1. CacheInv /\ DrawInv /\ Drawing /\ upcoming <= Len(request)
  BY DEF IInv, DrawGlyph
<1>2. request \in Asked /\ upcoming \in 1 .. Len(request) /\ Len(request) \in Nat
  BY <1>1, RequestIs DEF DrawInv
<1>3. g \in Glyphs
  BY <1>2, RequestIs
<1>4. CASE Empty(g) /\ upcoming' = upcoming + 1
             /\ UNCHANGED <<cache, request, mode, glyphAtlas, source, drawn>>
  <2>1. CacheInv'
    BY <1>1, <1>4, CacheStays
  <2>2. /\ request' = request /\ mode' = mode /\ glyphAtlas' = glyphAtlas
        /\ source' = source /\ drawn' = drawn
    BY <1>4
  <2>3. upcoming' \in 1 .. Len(request) + 1 /\ upcoming' - 1 = upcoming
    BY <1>2, <1>4
  <2>4. NotEmpty(request)[upcoming] = NotEmpty(request)[upcoming - 1]
    BY <1>2, <1>4, NotEmptyUnfolds
  <2>5. drawn = NotEmpty(request)[upcoming - 1]
    BY <1>1 DEF DrawInv, DrawnRight
  <2>6. DrawnRight'
    <3>1. drawn' = NotEmpty(request')[upcoming' - 1]
      BY <2>2, <2>3, <2>4, <2>5
    <3> QED BY <3>1 DEF DrawnRight
  <2>7. Prepared'
    BY <1>1, <2>2 DEF DrawInv, Prepared
  <2> QED BY <1>2, <2>1, <2>2, <2>3, <2>6, <2>7 DEF IInv, DrawInv
<1>5. CASE ~ Empty(g) /\ DrawCached(g)
  <2> HIDE DEF g
  <2>1. Cached(g) /\ UNCHANGED cache /\ Composite(g, Atlas(g.argb), glyphAtlas, source)
    BY <1>5 DEF DrawCached, Cached
  <2>2. CacheInv'
    BY <1>1, <2>1, CacheStays
  <2>3. g \in stored' \cup unloaded'
    BY <1>1, <1>3, <2>1 DEF CacheInv, GlyphsAreStored, Cached, cache
  <2>4. glyphAtlas = Atlas(g.argb) => source = Atlas(g.argb)
    BY <1>1, <1>3, Pictures DEF DrawInv, Prepared
  <2>5. DrawInv'
    BY <1>1, <1>5, <2>1, <2>3, <2>4, CompositeStep DEF g
  <2> QED BY <2>2, <2>5 DEF IInv
<1>6. ASSUME ~ Empty(g), NEW gc \in BOOLEAN, DrawNew(g, gc)
      PROVE  IInv'
  <2> HIDE DEF g
  <2>1. /\ ~ Cached(g) /\ Cacheable(g) /\ CacheGlyph(g, TRUE, gc)
        /\ Composite(g, Atlas(g.argb), None, None)
    BY <1>6 DEF DrawNew, Cached, AfterMiss
  <2>2. CacheInv' /\ g \in stored' \cup unloaded'
    BY <1>1, <1>3, <2>1, CacheGlyphStep
  <2>3. None = Atlas(g.argb) => None = Atlas(g.argb)
    OBVIOUS
  <2>4. DrawInv'
    BY <1>1, <1>6, <2>1, <2>2, <2>3, CompositeStep DEF g
  <2> QED BY <2>2, <2>4 DEF IInv
<1>7. ASSUME ~ Empty(g), NEW onDevice \in BOOLEAN, DrawPicture(g, onDevice)
      PROVE  IInv'
  <2> HIDE DEF g
  <2>1. CacheInv'
    <3>1. CASE Cacheable(g)
      <4>1. ~ Cached(g) /\ CacheGlyph(g, FALSE, FALSE)
        BY <1>7, <3>1 DEF DrawPicture, Cached
      <4> QED BY <1>1, <1>3, <3>1, <4>1, CacheGlyphStep
    <3>2. CASE ~ Cacheable(g)
      <4>1. UNCHANGED cache
        BY <1>7, <3>2 DEF DrawPicture
      <4> QED BY <1>1, <4>1, CacheStays
    <3> QED BY <3>1, <3>2
  <2>2. CASE onDevice
    <3>1. Composite(g, Picture(g), None, None)
      BY <1>7, <2>2 DEF DrawPicture, AfterMiss
    <3>2. Picture(g) # Atlas(g.argb)
      BY <1>3, Pictures
    <3>3. None = Picture(g) => None = Picture(g)
      OBVIOUS
    <3>4. DrawInv'
      BY <1>1, <1>7, <3>1, <3>2, <3>3, CompositeStep DEF g
    <3> QED BY <2>1, <3>4 DEF IInv
  <2>3. CASE ~ onDevice
    <3>1. mode' = "aborted" /\ UNCHANGED <<request, upcoming, glyphAtlas, source, drawn>>
      BY <1>7, <2>3 DEF DrawPicture
    <3>2. DrawnRight'
      BY <3>1 DEF DrawnRight, Drawing
    <3>3. Prepared'
      BY <1>1, <3>1 DEF DrawInv, Prepared
    <3> QED BY <1>1, <2>1, <3>1, <3>2, <3>3 DEF IInv, DrawInv
  <2> QED BY <2>2, <2>3
<1>8. \/ Empty(g) /\ upcoming' = upcoming + 1
           /\ UNCHANGED <<cache, request, mode, glyphAtlas, source, drawn>>
      \/ ~ Empty(g) /\ DrawCached(g)
      \/ ~ Empty(g) /\ \E gc \in BOOLEAN : DrawNew(g, gc)
      \/ ~ Empty(g) /\ \E onDevice \in BOOLEAN : DrawPicture(g, onDevice)
  BY Zenon DEF DrawGlyph
<1> QED BY <1>4, <1>5, <1>6, <1>7, <1>8

LEMMA IInvStarts ==
  ASSUME GlyphCacheAssumption, GlyphInit
  PROVE  IInv
<1>1. CacheInv
  BY CacheStarts
<1>2. request \in Asked /\ upcoming \in 1 .. Len(request) + 1
  BY DEF GlyphInit, Asked
<1>3. Prepared /\ DrawnRight
  BY DEF GlyphInit, Prepared, DrawnRight, Drawing
<1> QED BY <1>1, <1>2, <1>3 DEF IInv, DrawInv

LEMMA IInvStep ==
  ASSUME GlyphCacheAssumption, LastTileSpared, IInv, [GlyphNext]_glyphvars
  PROVE  IInv'
<1>0. CacheInv /\ DrawInv
  BY DEF IInv
<1>1. ASSUME NEW r \in Requests, NEW masked \in BOOLEAN, Start(r, masked)
      PROVE  IInv'
  <2>1. /\ request' = r /\ upcoming' = 1 /\ drawn' = <<>> /\ UNCHANGED cache
        /\ glyphAtlas' = glyphAtlas /\ source' = source
    BY <1>1 DEF Start
  <2>2. r \in Asked /\ NotEmpty(r)[0] = <<>> /\ Len(r) \in Nat
    BY NotEmptyUnfolds, RequestIs DEF Asked
  <2>3. DrawnRight'
    <3>1. drawn' = NotEmpty(request')[upcoming' - 1]
      BY <2>1, <2>2
    <3> QED BY <3>1 DEF DrawnRight
  <2>4. Prepared'
    BY <1>0, <2>1 DEF DrawInv, Prepared
  <2>5. CacheInv'
    BY <1>0, <2>1, CacheStays
  <2> QED BY <2>1, <2>2, <2>3, <2>4, <2>5 DEF IInv, DrawInv
<1>2. ASSUME NEW r \in Requests, NEW lost \in BOOLEAN, Fallback(r, lost)
      PROVE  IInv'
  <2>1. /\ request' = r /\ upcoming' = Len(r) + 1 /\ UNCHANGED cache
        /\ mode' = (IF lost THEN "lost" ELSE "dst")
        /\ drawn' = (IF lost THEN <<>> ELSE NotEmpty(r)[Len(r)])
        /\ glyphAtlas' = glyphAtlas /\ source' = source
    BY <1>2 DEF Fallback
  <2>2. r \in Asked /\ Len(r) \in Nat
    BY RequestIs DEF Asked
  <2>3. DrawnRight'
    <3>1. CASE lost
      BY <2>1, <3>1 DEF DrawnRight, Drawing
    <3>2. CASE ~ lost
      <4>1. upcoming' - 1 = Len(r)
        BY <2>1, <2>2
      <4>2. drawn' = NotEmpty(request')[upcoming' - 1]
        BY <2>1, <3>2, <4>1
      <4> QED BY <4>2 DEF DrawnRight
    <3> QED BY <3>1, <3>2
  <2>4. Prepared'
    BY <1>0, <2>1 DEF DrawInv, Prepared
  <2>5. CacheInv'
    BY <1>0, <2>1, CacheStays
  <2> QED BY <2>1, <2>2, <2>3, <2>4, <2>5 DEF IInv, DrawInv
<1>3. CASE DrawGlyph
  BY <1>3, DrawGlyphStep
<1>4. CASE Finish
  <2>1. /\ mode' = "idle" /\ glyphAtlas' = None /\ request' = <<>> /\ upcoming' = 1
        /\ UNCHANGED cache
    BY <1>4 DEF Finish
  <2>2. DrawnRight' /\ Prepared'
    BY <2>1 DEF DrawnRight, Drawing, Prepared
  <2>3. CacheInv'
    BY <1>0, <2>1, CacheStays
  <2> QED BY <2>1, <2>2, <2>3 DEF IInv, DrawInv, Asked
<1>5. ASSUME NEW g \in Freed, Unrealize(g)
      PROVE  IInv'
  <2>1. CacheInv'
    BY <1>0, <1>5, UnrealizeStep DEF GlyphCacheAssumption
  <2>2. mode = "idle" /\ UNCHANGED <<request, upcoming, mode, glyphAtlas, source, drawn>>
    BY <1>5 DEF Unrealize
  <2>3. DrawnRight'
    BY <2>2 DEF DrawnRight, Drawing
  <2> QED BY <1>0, <2>1, <2>2, <2>3 DEF IInv, DrawInv, Prepared
<1>6. CASE UNCHANGED glyphvars
  <2>1. UNCHANGED <<cache, request, upcoming, mode, glyphAtlas, source, drawn>>
    BY <1>6 DEF glyphvars
  <2>2. CacheInv'
    BY <1>0, <2>1, CacheStays
  <2>3. DrawnRight'
    BY <1>0, <2>1 DEF DrawInv, DrawnRight, Drawing
  <2> QED BY <1>0, <2>1, <2>2, <2>3 DEF IInv, DrawInv, Prepared
<1> QED BY <1>1, <1>2, <1>3, <1>4, <1>5, <1>6 DEF GlyphNext

(* Table and privates agree, and no two cached glyphs share a cell, unless *)
(* the eviction position falls in the last tile.                           *)
THEOREM TablesAgreeTheorem ==
  ASSUME GlyphCacheAssumption, LastTileSpared
  PROVE  GlyphSpec => []TablesAgree
<1>1. GlyphInit => IInv
  BY IInvStarts
<1>2. IInv /\ [GlyphNext]_glyphvars => IInv'
  BY IInvStep
<1>3. IInv => TablesAgree
  BY DEF IInv, CacheInv
<1> QED BY <1>1, <1>2, <1>3, PTL DEF GlyphSpec

(* With the last tile spared the place of a cached glyph shows it: what    *)
(* run GlyphOverlap shows to fail where it is not.                         *)
THEOREM GlyphsAreStoredTheorem ==
  ASSUME GlyphCacheAssumption, LastTileSpared
  PROVE  GlyphSpec => []GlyphsAreStored
<1>1. GlyphInit => IInv
  BY IInvStarts
<1>2. IInv /\ [GlyphNext]_glyphvars => IInv'
  BY IInvStep
<1>3. IInv => GlyphsAreStored
  BY DEF IInv, CacheInv
<1> QED BY <1>1, <1>2, <1>3, PTL DEF GlyphSpec

(* Every glyph of a request is drawn once, in order, from its own pixels.  *)
THEOREM DrawnRightTheorem ==
  ASSUME GlyphCacheAssumption, LastTileSpared
  PROVE  GlyphSpec => []DrawnRight
<1>1. GlyphInit => IInv
  BY IInvStarts
<1>2. IInv /\ [GlyphNext]_glyphvars => IInv'
  BY IInvStep
<1>3. IInv => DrawnRight
  BY DEF IInv, DrawInv
<1> QED BY <1>1, <1>2, <1>3, PTL DEF GlyphSpec

-----------------------------------------------------------------------------
(* The mask that X chooses itself.                                         *)

(* The greatest of finitely many numbers, v[i] for i in I.                 *)
LEMMA GreatestOf ==
  ASSUME NEW n \in Nat, NEW v \in [1 .. n -> Int], NEW I \in SUBSET (1 .. n), I # {}
  PROVE  \E i \in I : \A j \in I : v[j] <= v[i]
<1> DEFINE Top(J) == \E i \in J : \A j \in J : v[j] <= v[i]
           T == {m \in 0 .. n : \A J \in SUBSET (1 .. m) : J # {} => Top(J)}
<1>1. 0 \in T
  <2>1. \A J \in SUBSET (1 .. 0) : J = {}
    OBVIOUS
  <2>2. 0 \in 0 .. n
    OBVIOUS
  <2> HIDE DEF Top
  <2> QED BY <2>1, <2>2
<1>2. ASSUME NEW m \in 0 .. n - 1, m \in T PROVE m + 1 \in T
  <2>1. ASSUME NEW J \in SUBSET (1 .. m + 1), J # {} PROVE Top(J)
    <3> DEFINE K == J \ {m + 1}
    <3>1. K \in SUBSET (1 .. m) /\ J \subseteq 1 .. n
      OBVIOUS
    <3>2. \A j \in J : v[j] \in Int
      BY <3>1
    <3>3. CASE m + 1 \notin J
      <4>1. K = J
        BY <3>3
      <4> QED BY <1>2, <2>1, <3>1, <4>1
    <3>4. CASE m + 1 \in J /\ K = {}
      <4>1. \A j \in J : j = m + 1
        BY <3>4
      <4>2. v[m + 1] \in Int
        BY <3>2, <3>4
      <4> QED BY <3>4, <4>1, <4>2
    <3>5. CASE m + 1 \in J /\ K # {}
      <4>1. PICK i \in K : \A j \in K : v[j] <= v[i]
        BY <1>2, <3>1, <3>5
      <4>2. i \in J /\ v[i] \in Int /\ v[m + 1] \in Int
        BY <3>2, <3>5
      <4>3. \A j \in J : j = m + 1 \/ v[j] <= v[i]
        BY <4>1
      <4>4. CASE v[m + 1] <= v[i]
        BY <4>2, <4>3, <4>4
      <4>5. CASE v[i] <= v[m + 1]
        <5>1. \A j \in J : v[j] <= v[m + 1]
          BY <3>2, <4>2, <4>3, <4>5
        <5> QED BY <3>5, <5>1
      <4> QED BY <4>2, <4>4, <4>5
    <3> QED BY <3>3, <3>4, <3>5
  <2>2. m + 1 \in 0 .. n
    OBVIOUS
  <2> HIDE DEF Top
  <2> QED BY <2>1, <2>2
<1>3. n \in T
  <2> HIDE DEF T
  <2>1. \A i \in 0 .. n : i \in T
    BY <1>1, <1>2, UpTo
  <2> QED BY <2>1
<1> QED BY <1>3

(* Min and Max of such numbers bound them.                                 *)
LEMMA ExtremesBound ==
  ASSUME NEW n \in Nat, NEW v \in [1 .. n -> Int], NEW I \in SUBSET (1 .. n), I # {}
  PROVE  LET S == {v[i] : i \in I}
         IN  Max(S) \in Int /\ Min(S) \in Int /\ \A i \in I : Min(S) <= v[i] /\ v[i] <= Max(S)
<1> DEFINE S == {v[i] : i \in I}
           w == [i \in 1 .. n |-> - v[i]]
<1>1. S \subseteq Int /\ \A i \in I : v[i] \in S /\ v[i] \in Int
  OBVIOUS
<1>2. PICK a \in I : \A j \in I : v[j] <= v[a]
  BY GreatestOf
<1>3. w \in [1 .. n -> Int] /\ \A i \in I : w[i] = - v[i]
  OBVIOUS
<1>4. PICK b \in I : \A j \in I : w[j] <= w[b]
  <2> HIDE DEF w
  <2> QED BY <1>3, GreatestOf
<1>5. ASSUME NEW j \in I PROVE v[b] <= v[j]
  <2> HIDE DEF w
  <2>1. - v[j] <= - v[b] /\ v[j] \in Int /\ v[b] \in Int
    BY <1>1, <1>3, <1>4
  <2> QED BY <2>1
<1>6. \E x \in S : \A y \in S : x >= y
  BY <1>1, <1>2
<1>7. \E x \in S : \A y \in S : x =< y
  BY <1>1, <1>5
<1> HIDE DEF S
<1>8. Max(S) \in S /\ \A y \in S : Max(S) >= y
  BY <1>6 DEF Max
<1>9. Min(S) \in S /\ \A y \in S : Min(S) =< y
  BY <1>7 DEF Min
<1>10. Max(S) \in Int /\ Min(S) \in Int /\ \A i \in I : Min(S) <= v[i] /\ v[i] <= Max(S)
  BY <1>1, <1>8, <1>9
<1> QED BY <1>10 DEF S

(* The extents of some boxes of a request hold each of them.               *)
LEMMA ExtentsHold ==
  ASSUME GlyphCacheAssumption, NEW r \in Asked, NEW I \in SUBSET (1 .. Len(r)), NEW i \in I
  PROVE  LET e == Extents(r, I)
         IN  /\ e.x1 \in Int /\ e.x2 \in Int /\ e.y1 \in Int /\ e.y2 \in Int
             /\ e.x1 <= r[i].x /\ r[i].x + r[i].glyph.width <= e.x2
             /\ e.y1 <= r[i].y /\ r[i].y + r[i].glyph.height <= e.y2
<1> DEFINE n == Len(r)
           left == [k \in 1 .. n |-> r[k].x]
           right == [k \in 1 .. n |-> r[k].x + r[k].glyph.width]
           top == [k \in 1 .. n |-> r[k].y]
           low == [k \in 1 .. n |-> r[k].y + r[k].glyph.height]
<1>1. n \in Nat /\ I # {}
  BY RequestIs
<1>2. /\ left \in [1 .. n -> Int] /\ right \in [1 .. n -> Int]
      /\ top \in [1 .. n -> Int] /\ low \in [1 .. n -> Int]
  <2>1. ASSUME NEW k \in 1 .. n
        PROVE  /\ r[k].x \in Int /\ r[k].x + r[k].glyph.width \in Int
               /\ r[k].y \in Int /\ r[k].y + r[k].glyph.height \in Int
    <3>1. /\ r[k].x \in Int /\ r[k].y \in Int
          /\ r[k].glyph.width \in Nat /\ r[k].glyph.height \in Nat
      BY RequestIs
    <3> QED BY <3>1
  <2> HIDE DEF n
  <2> QED BY <2>1
<1>3. /\ {left[k] : k \in I} = {r[k].x : k \in I}
      /\ {right[k] : k \in I} = {r[k].x + r[k].glyph.width : k \in I}
      /\ {top[k] : k \in I} = {r[k].y : k \in I}
      /\ {low[k] : k \in I} = {r[k].y + r[k].glyph.height : k \in I}
  OBVIOUS
<1>4. /\ left[i] = r[i].x /\ right[i] = r[i].x + r[i].glyph.width
      /\ top[i] = r[i].y /\ low[i] = r[i].y + r[i].glyph.height
  OBVIOUS
<1>5. LET S == {left[k] : k \in I} IN Min(S) \in Int /\ Min(S) <= left[i]
  <2> HIDE DEF left, n
  <2> QED BY <1>1, <1>2, ExtremesBound DEF n
<1>6. LET S == {right[k] : k \in I} IN Max(S) \in Int /\ right[i] <= Max(S)
  <2> HIDE DEF right, n
  <2> QED BY <1>1, <1>2, ExtremesBound DEF n
<1>7. LET S == {top[k] : k \in I} IN Min(S) \in Int /\ Min(S) <= top[i]
  <2> HIDE DEF top, n
  <2> QED BY <1>1, <1>2, ExtremesBound DEF n
<1>8. LET S == {low[k] : k \in I} IN Max(S) \in Int /\ low[i] <= Max(S)
  <2> HIDE DEF low, n
  <2> QED BY <1>1, <1>2, ExtremesBound DEF n
<1> HIDE DEF left, right, top, low
<1> QED BY <1>3, <1>4, <1>5, <1>6, <1>7, <1>8 DEF Extents

(* A glyph that meets an earlier one meets the extents of those before it. *)
LEMMA MeetingIntersects ==
  ASSUME GlyphCacheAssumption, NEW r \in Asked, NEW i \in Visible(r), NEW j \in Visible(r),
         i < j, Meet(r[i].glyph, r[i], r[j].glyph, r[j])
  PROVE  Intersect(r)
<1> DEFINE before == {k \in Visible(r) : k < j}
           e == Extents(r, before)
<1>1. before \in SUBSET (1 .. Len(r)) /\ i \in before /\ before # {}
  BY RequestIs DEF Visible
<1>2. /\ e.x1 \in Int /\ e.x2 \in Int /\ e.y1 \in Int /\ e.y2 \in Int
      /\ e.x1 <= r[i].x /\ r[i].x + r[i].glyph.width <= e.x2
      /\ e.y1 <= r[i].y /\ r[i].y + r[i].glyph.height <= e.y2
  <2> HIDE DEF before
  <2> QED BY <1>1, ExtentsHold
<1>3. /\ r[i].x \in Int /\ r[i].y \in Int /\ r[j].x \in Int /\ r[j].y \in Int
      /\ r[i].glyph.width \in Nat /\ r[i].glyph.height \in Nat
      /\ r[j].glyph.width \in Nat /\ r[j].glyph.height \in Nat
  BY RequestIs DEF Visible
<1>4. /\ r[i].x < r[j].x + r[j].glyph.width /\ r[j].x < r[i].x + r[i].glyph.width
      /\ r[i].y < r[j].y + r[j].glyph.height /\ r[j].y < r[i].y + r[i].glyph.height
  BY DEF Meet
<1>5. /\ r[j].x < e.x2 /\ r[j].x + r[j].glyph.width > e.x1
      /\ r[j].y < e.y2 /\ r[j].y + r[j].glyph.height > e.y1
  <2> HIDE DEF e
  <2> QED BY <1>2, <1>3, <1>4
<1> QED BY <1>1, <1>5, Zenon DEF Intersect

LEMMA NoneMeet ==
  ASSUME GlyphCacheAssumption, NEW r \in Asked, ~ Intersect(r),
         NEW i \in Visible(r), NEW j \in Visible(r), i # j
  PROVE  ~ Meet(r[i].glyph, r[i], r[j].glyph, r[j])
<1>1. i \in 1 .. Len(r) /\ j \in 1 .. Len(r) /\ Len(r) \in Nat
  BY RequestIs DEF Visible
<1>2. i < j \/ j < i
  BY <1>1
<1>3. CASE i < j
  BY <1>3, MeetingIntersects
<1>4. CASE j < i
  <2>1. ~ Meet(r[j].glyph, r[j], r[i].glyph, r[i])
    BY <1>4, MeetingIntersects
  <2> QED BY <2>1 DEF Meet
<1> QED BY <1>2, <1>3, <1>4

MaskInv == request \in Asked /\ (mode = "own mask" => ~ Intersect(request))

(* Glyphs added up on a mask the client did not ask for do not overlap,    *)
(* whatever the boxes: the extents are coarser than the boxes they hold.   *)
THEOREM OwnMaskIsSafeTheorem ==
  ASSUME GlyphCacheAssumption
  PROVE  GlyphSpec => []OwnMaskIsSafe
<1>1. GlyphInit => MaskInv
  BY DEF GlyphInit, MaskInv, Asked
<1>2. MaskInv /\ [GlyphNext]_glyphvars => MaskInv'
  <2> SUFFICES ASSUME MaskInv, [GlyphNext]_glyphvars PROVE MaskInv'
    OBVIOUS
  <2>1. ASSUME NEW r \in Requests, NEW masked \in BOOLEAN, Start(r, masked)
        PROVE  MaskInv'
    BY <2>1 DEF Start, MaskInv, Asked, ChoosesMask
  <2>2. ASSUME NEW r \in Requests, NEW lost \in BOOLEAN, Fallback(r, lost)
        PROVE  MaskInv'
    BY <2>2 DEF Fallback, MaskInv, Asked
  <2>3. ASSUME DrawGlyph
        PROVE  request' = request /\ mode' \in {mode, "aborted"}
    BY <2>3 DEF DrawGlyph, DrawCached, DrawNew, DrawPicture, Composite
  <2>4. CASE DrawGlyph
    BY <2>3, <2>4 DEF MaskInv
  <2>5. CASE Finish
    BY <2>5 DEF Finish, MaskInv, Asked
  <2>6. ASSUME NEW g \in Freed, Unrealize(g)
        PROVE  MaskInv'
    BY <2>6 DEF Unrealize, MaskInv
  <2>7. CASE UNCHANGED glyphvars
    BY <2>7 DEF glyphvars, MaskInv
  <2> QED BY <2>1, <2>2, <2>4, <2>5, <2>6, <2>7 DEF GlyphNext
<1>3. MaskInv => OwnMaskIsSafe
  BY NoneMeet, Zenon DEF MaskInv, OwnMaskIsSafe
<1> QED BY <1>1, <1>2, <1>3, PTL DEF GlyphSpec
=============================================================================
