------------------------ MODULE CommandBuffersProofs ------------------------
(***************************************************************************)
(* Proofs about CommandBuffers, for any number of buffers, surfaces,       *)
(* chunks and pending commands.                                            *)
(***************************************************************************)
EXTENDS CommandBuffers, SequenceTheorems, FiniteSetTheorems,
        WellFoundedInduction, TLAPS

-----------------------------------------------------------------------------
(* Induction up to a bound, and what it gives: that a function defined by   *)
(* recursion on its argument exists.                                       *)

LEMMA LeastNumber ==
  ASSUME NEW T \in SUBSET Nat, T # {}
  PROVE  \E n \in T : \A m \in T : n <= m
<1>1. PICK n \in T : \A m \in T : <<m, n>> \notin OpToRel(<, Nat)
  BY NatLessThanWellFounded, WFMin
<1>2. ASSUME NEW m \in T PROVE n <= m
  <2>1. <<m, n>> \notin {ss \in Nat \X Nat : ss[1] < ss[2]}
    BY <1>1, Zenon DEF OpToRel
  <2> QED BY <2>1
<1> QED BY <1>2

LEMMA UpTo ==
  ASSUME NEW n \in Nat, NEW T, 0 \in T, \A i \in 0 .. n - 1 : i \in T => i + 1 \in T
  PROVE  \A i \in 0 .. n : i \in T
<1> DEFINE out == {i \in 0 .. n : i \notin T}
<1> SUFFICES ASSUME out # {} PROVE FALSE
  OBVIOUS
<1>1. out \in SUBSET Nat
  OBVIOUS
<1>2. PICK i \in out : \A j \in out : i <= j
  <2> HIDE DEF out
  <2> QED BY <1>1, LeastNumber
<1>3. i \in 0 .. n /\ i \notin T /\ i # 0
  BY <1>2
<1>4. i - 1 \in 0 .. n - 1 /\ i - 1 \notin out
  BY <1>2, <1>3
<1>5. i - 1 \in T
  BY <1>3, <1>4
<1>6. (i - 1) + 1 \in T
  BY <1>4, <1>5
<1>7. (i - 1) + 1 = i
  BY <1>3
<1> QED BY <1>3, <1>6, <1>7

(* P starts with b, and H says how each value follows from the one before. *)
Iterates(P, n, b, H) == P[0] = b /\ \A k \in 1 .. n : P[k] = H[<<k, P[k - 1]>>]

LEMMA Recursion ==
  ASSUME NEW n \in Nat, NEW V, NEW b \in V, NEW H \in [(1 .. n) \X V -> V]
  PROVE  \E P \in [0 .. n -> V] : Iterates(P, n, b, H)
<1> DEFINE Part(m, P) == P[0] = b /\ \A k \in 1 .. m : P[k] = H[<<k, P[k - 1]>>]
           T == {m \in 0 .. n : \E P \in [0 .. m -> V] : Part(m, P)}
<1>1. 0 \in T
  <2> DEFINE P == [k \in 0 .. 0 |-> b]
  <2>1. P \in [0 .. 0 -> V] /\ Part(0, P)
    OBVIOUS
  <2> HIDE DEF P, Part
  <2> QED BY <2>1
<1>2. ASSUME NEW m \in 0 .. n - 1, m \in T PROVE m + 1 \in T
  <2>1. PICK P \in [0 .. m -> V] : Part(m, P)
    BY <1>2
  <2> DEFINE Q == [k \in 0 .. m + 1 |-> IF k = m + 1 THEN H[<<m + 1, P[m]>>] ELSE P[k]]
  <2>2. m \in 0 .. m /\ m + 1 \in 1 .. n /\ P[m] \in V
    OBVIOUS
  <2>3. H[<<m + 1, P[m]>>] \in V
    BY <2>2
  <2>4. Q \in [0 .. m + 1 -> V]
    BY <2>3
  <2>5. ASSUME NEW k \in 1 .. m + 1 PROVE Q[k] = H[<<k, Q[k - 1]>>]
    <3>1. k - 1 \in 0 .. m + 1 /\ k - 1 # m + 1
      OBVIOUS
    <3>2. Q[k - 1] = P[k - 1]
      BY <3>1
    <3>3. CASE k = m + 1
      <4>1. Q[k] = H[<<m + 1, P[m]>>] /\ k - 1 = m
        BY <3>3
      <4> QED BY <3>2, <3>3, <4>1
    <3>4. CASE k # m + 1
      <4>1. k \in 1 .. m /\ Q[k] = P[k]
        BY <3>4
      <4> QED BY <2>1, <3>2, <4>1
    <3> QED BY <3>3, <3>4
  <2>6. Q[0] = b
    BY <2>1
  <2>7. Part(m + 1, Q)
    BY <2>5, <2>6
  <2>8. m + 1 \in 0 .. n
    OBVIOUS
  <2> HIDE DEF Q, Part
  <2> QED BY <2>4, <2>7, <2>8
<1>3. n \in T
  <2> HIDE DEF T
  <2>1. \A i \in 0 .. n : i \in T
    BY <1>1, <1>2, UpTo
  <2> HIDE DEF T
  <2> QED BY <2>1
<1> QED BY <1>3 DEF Iterates

-----------------------------------------------------------------------------
(* The state as the proofs see it: constants m for mem, g for gc, and so   *)
(* on, so that what holds of a state is said of the next one by name.      *)

CommandKinds == {"plain", "copy", "copy_surface", "composite", "cursor"}
PartKinds == {"bitmap", "chunk", "transform", "shape"}
Kinds == CommandKinds \cup PartKinds \cup {"surface", "none"}
Somewhere == Buffers \cup {NoBuffer}
Cell == [refcnt : Nat, kind : Kinds, at : [Fields -> Somewhere]]

Memory(m) ==
  /\ m \in [Buffers -> Cell]
  /\ \A b \in Buffers : /\ m[b].refcnt = 0 <=> m[b].kind = "none"
                        /\ m[b].refcnt = 0 => m[b] = Free

(* The chunk behind the one a walk has come to.                            *)
Behind(m, g) == IF g.chunk = NoBuffer THEN NoBuffer ELSE m[g.chunk].at.prev

(* A walk drops references before it frees what holds them: that of the    *)
(* image to its first chunk, and that of the chunk behind.                 *)
Stale(m, g, b, f) ==
  /\ g # NoGc
  /\ \/ b = g.img /\ f = "data" /\ (g.chunk = NoBuffer \/ Behind(m, g) # NoBuffer)
     \/ b = Behind(m, g) /\ f = "prev"

(* The pointers that still count.                                          *)
Links(m, g) ==
  [b \in Buffers |-> [f \in Fields |-> IF Stale(m, g, b, f) THEN NoBuffer ELSE m[b].at[f]]]

Linked == [Buffers -> [Fields -> Somewhere]]

(* Who holds b: links, indices of H, surfaces, the rings or X (in C).      *)
Into(L, b) == {p \in Buffers \X Fields : L[p[1]][p[2]] = b}
HeldAt(D, H, b) == {i \in D : H[i] = b}
ImageOf(I, b) == {s \in Imaged : I[s] = b}
RootOf(C, b) == IF b \in C THEN 1 ELSE 0

Count(L, D, H, I, C, b) ==
  Cardinality(Into(L, b)) + Cardinality(HeldAt(D, H, b))
    + Cardinality(ImageOf(I, b)) + RootOf(C, b)

Counted(m, L, D, H, I, C) ==
  \A b \in Buffers : m[b].refcnt = Count(L, D, H, I, C, b)

-----------------------------------------------------------------------------
(* Counting.                                                               *)

LEMMA FieldsAre ==
  /\ IsFiniteSet(Fields) /\ NoBuffer \notin Buffers /\ Buffers \subseteq Nat
  /\ BuffersAssumption => IsFiniteSet(Buffers) /\ IsFiniteSet(Imaged)
<1>1. IsFiniteSet(Fields)
  <2> DEFINE F1 == {} \cup {"src"}
             F2 == F1 \cup {"src_transform"}
             F3 == F2 \cup {"mask"}
             F4 == F3 \cup {"mask_transform"}
             F5 == F4 \cup {"shape"}
             F6 == F5 \cup {"data"}
             F7 == F6 \cup {"next"}
             F8 == F7 \cup {"prev"}
  <2>0. Fields = F8
    BY DEF Fields
  <2>1. IsFiniteSet(F1)
    BY FS_EmptySet, FS_AddElement, Zenon
  <2>2. IsFiniteSet(F2)
    BY <2>1, FS_AddElement, Zenon
  <2>3. IsFiniteSet(F3)
    BY <2>2, FS_AddElement, Zenon
  <2>4. IsFiniteSet(F4)
    BY <2>3, FS_AddElement, Zenon
  <2>5. IsFiniteSet(F5)
    BY <2>4, FS_AddElement, Zenon
  <2>6. IsFiniteSet(F6)
    BY <2>5, FS_AddElement, Zenon
  <2>7. IsFiniteSet(F7)
    BY <2>6, FS_AddElement, Zenon
  <2>8. IsFiniteSet(F8)
    BY <2>7, FS_AddElement, Zenon
  <2> QED BY <2>0, <2>8
<1>2. NoBuffer \notin Buffers /\ Buffers \subseteq Nat
  BY DEF NoBuffer, Buffers
<1>3. BuffersAssumption => IsFiniteSet(Buffers) /\ IsFiniteSet(Imaged)
  BY FS_Interval DEF BuffersAssumption, Buffers
<1> QED BY <1>1, <1>2, <1>3

LEMMA FiniteEach ==
  ASSUME BuffersAssumption
  PROVE  /\ \A L, b : IsFiniteSet(Into(L, b)) /\ Cardinality(Into(L, b)) \in Nat
         /\ \A I, b : IsFiniteSet(ImageOf(I, b)) /\ Cardinality(ImageOf(I, b)) \in Nat
         /\ \A D, H, b : IsFiniteSet(D) =>
              IsFiniteSet(HeldAt(D, H, b)) /\ Cardinality(HeldAt(D, H, b)) \in Nat
<1>1. IsFiniteSet(Buffers \X Fields)
  BY FieldsAre, FS_Product
<1>2. ASSUME NEW L, NEW b PROVE IsFiniteSet(Into(L, b))
  <2>1. Into(L, b) \in SUBSET (Buffers \X Fields)
    BY DEF Into
  <2> QED BY <1>1, <2>1, FS_Subset
<1>3. ASSUME NEW I, NEW b PROVE IsFiniteSet(ImageOf(I, b))
  <2>1. ImageOf(I, b) \in SUBSET Imaged
    BY DEF ImageOf
  <2> QED BY <2>1, FieldsAre, FS_Subset
<1>4. ASSUME NEW D, IsFiniteSet(D), NEW H, NEW b PROVE IsFiniteSet(HeldAt(D, H, b))
  <2>1. HeldAt(D, H, b) \in SUBSET D
    BY DEF HeldAt
  <2> QED BY <1>4, <2>1, FS_Subset
<1> QED BY <1>2, <1>3, <1>4, FS_CardinalityType

LEMMA Finite ==
  ASSUME BuffersAssumption, NEW L, NEW D, IsFiniteSet(D), NEW H, NEW I, NEW C, NEW b
  PROVE  /\ IsFiniteSet(Into(L, b)) /\ IsFiniteSet(HeldAt(D, H, b)) /\ IsFiniteSet(ImageOf(I, b))
         /\ Cardinality(Into(L, b)) \in Nat /\ Cardinality(HeldAt(D, H, b)) \in Nat
         /\ Cardinality(ImageOf(I, b)) \in Nat /\ RootOf(C, b) \in {0, 1}
         /\ Count(L, D, H, I, C, b) \in Nat
<1>4. /\ IsFiniteSet(Into(L, b)) /\ IsFiniteSet(HeldAt(D, H, b)) /\ IsFiniteSet(ImageOf(I, b))
      /\ Cardinality(Into(L, b)) \in Nat /\ Cardinality(HeldAt(D, H, b)) \in Nat
      /\ Cardinality(ImageOf(I, b)) \in Nat
  BY FiniteEach
<1>5. RootOf(C, b) \in {0, 1}
  BY DEF RootOf
<1> QED BY <1>4, <1>5 DEF Count

(* What a count of zero, and of one, means.                                *)
LEMMA NobodyHolds ==
  ASSUME BuffersAssumption, NEW L, NEW D, IsFiniteSet(D), NEW H, NEW I, NEW C, NEW b
  PROVE  Count(L, D, H, I, C, b) = 0 <=>
           Into(L, b) = {} /\ HeldAt(D, H, b) = {} /\ ImageOf(I, b) = {} /\ b \notin C
<1>1. /\ Into(L, b) = {} <=> Cardinality(Into(L, b)) = 0
      /\ HeldAt(D, H, b) = {} <=> Cardinality(HeldAt(D, H, b)) = 0
      /\ ImageOf(I, b) = {} <=> Cardinality(ImageOf(I, b)) = 0
  BY Finite, FS_EmptySet
<1>2. b \notin C <=> RootOf(C, b) = 0
  BY DEF RootOf
<1> QED BY <1>1, <1>2, Finite DEF Count

LEMMA OneHolds ==
  ASSUME BuffersAssumption, NEW L, NEW D, IsFiniteSet(D), NEW H, NEW I, NEW C, NEW b,
         HeldAt(D, H, b) = {}, ImageOf(I, b) = {},
         \/ Into(L, b) = {} /\ b \in C
         \/ b \notin C /\ \E p : Into(L, b) = {p}
  PROVE  Count(L, D, H, I, C, b) = 1
<1>1. Cardinality(HeldAt(D, H, b)) = 0 /\ Cardinality(ImageOf(I, b)) = 0
  BY FS_EmptySet
<1>2. Cardinality(Into(L, b)) = IF b \in C THEN 0 ELSE 1
  BY FS_EmptySet, FS_Singleton
<1> QED BY <1>1, <1>2 DEF Count, RootOf

One(b, t) == IF b = t THEN 1 ELSE 0

(* The second holders hold what the first do, and t once more.             *)
OneMore(L, D, H, I, C, L2, D2, H2, I2, C2, t) ==
  \A b \in Buffers : Count(L2, D2, H2, I2, C2, b) = Count(L, D, H, I, C, b) + One(b, t)

(* L2 is L with a link from d's field f to t.                              *)
NewLink(L, L2, d, f, t) ==
  /\ L \in Linked /\ L2 \in Linked /\ d \in Buffers /\ f \in Fields /\ t \in Buffers
  /\ L[d][f] = NoBuffer /\ L2[d][f] = t
  /\ \A x \in Buffers, h \in Fields : <<x, h>> = <<d, f>> \/ L2[x][h] = L[x][h]

LEMMA CountLink ==
  ASSUME BuffersAssumption, NEW L, NEW L2, NEW D, IsFiniteSet(D), NEW H, NEW I, NEW C,
         NEW d, NEW f, NEW t, NewLink(L, L2, d, f, t)
  PROVE  OneMore(L, D, H, I, C, L2, D, H, I, C, t)
<1> SUFFICES ASSUME NEW b \in Buffers
             PROVE  Cardinality(Into(L2, b)) = Cardinality(Into(L, b)) + One(b, t)
  BY FiniteEach DEF Count, One, RootOf, OneMore
<1>0. b # NoBuffer /\ t # NoBuffer
  BY FieldsAre DEF NewLink
<1>1. CASE b = t
  <2>1. Into(L2, b) = Into(L, b) \cup {<<d, f>>}
    BY <1>0, <1>1 DEF Into, NewLink
  <2>2. <<d, f>> \notin Into(L, b)
    BY <1>0 DEF Into, NewLink
  <2>3. Cardinality(Into(L, b) \cup {<<d, f>>}) = Cardinality(Into(L, b)) + 1
    BY <2>2, FiniteEach, FS_AddElement
  <2>4. One(b, t) = 1
    BY <1>1 DEF One
  <2> QED BY <2>1, <2>3, <2>4
<1>2. CASE b # t
  <2>1. Into(L2, b) = Into(L, b)
    BY <1>0, <1>2 DEF Into, NewLink
  <2>2. One(b, t) = 0
    BY <1>2 DEF One
  <2> QED BY <2>1, <2>2, FiniteEach
<1> QED BY <1>1, <1>2

LEMMA CountHeld ==
  ASSUME BuffersAssumption, NEW L, NEW D, IsFiniteSet(D), NEW H, NEW H2, NEW I, NEW C,
         NEW i, i \notin D, NEW t, H2[i] = t, \A j \in D : H2[j] = H[j]
  PROVE  OneMore(L, D, H, I, C, L, D \cup {i}, H2, I, C, t)
<1> SUFFICES ASSUME NEW b \in Buffers
             PROVE  Cardinality(HeldAt(D \cup {i}, H2, b)) = Cardinality(HeldAt(D, H, b)) + One(b, t)
  <2>1. IsFiniteSet(D \cup {i})
    BY FS_AddElement
  <2> QED BY <2>1, FiniteEach DEF Count, One, RootOf, OneMore
<1>1. CASE b = t
  <2>1. HeldAt(D \cup {i}, H2, b) = HeldAt(D, H, b) \cup {i}
    BY <1>1 DEF HeldAt
  <2>2. i \notin HeldAt(D, H, b)
    BY DEF HeldAt
  <2>3. Cardinality(HeldAt(D, H, b) \cup {i}) = Cardinality(HeldAt(D, H, b)) + 1
    BY <2>2, FiniteEach, FS_AddElement
  <2>4. One(b, t) = 1
    BY <1>1 DEF One
  <2> QED BY <2>1, <2>3, <2>4
<1>2. CASE b # t
  <2>1. HeldAt(D \cup {i}, H2, b) = HeldAt(D, H, b)
    BY <1>2 DEF HeldAt
  <2>2. One(b, t) = 0
    BY <1>2 DEF One
  <2> QED BY <2>1, <2>2, FiniteEach
<1> QED BY <1>1, <1>2

LEMMA CountImage ==
  ASSUME BuffersAssumption, NEW L, NEW D, IsFiniteSet(D), NEW H, NEW C,
         NEW I \in [Imaged -> Somewhere], NEW s \in Imaged, NEW t \in Buffers, I[s] = NoBuffer
  PROVE  OneMore(L, D, H, I, C, L, D, H, [I EXCEPT ![s] = t], C, t)
<1> DEFINE I2 == [I EXCEPT ![s] = t]
<1> SUFFICES ASSUME NEW b \in Buffers
             PROVE  Cardinality(ImageOf(I2, b)) = Cardinality(ImageOf(I, b)) + One(b, t)
  <2>1. \A b \in Buffers :
          Cardinality(ImageOf(I2, b)) = Cardinality(ImageOf(I, b)) + One(b, t)
    BY Zenon
  <2> HIDE DEF I2
  <2>2. \A b \in Buffers :
          Count(L, D, H, I2, C, b) = Count(L, D, H, I, C, b) + One(b, t)
    BY <2>1, FiniteEach DEF Count, One, RootOf, OneMore
  <2> QED BY <2>2, Zenon DEF I2, OneMore
<1>0. b # NoBuffer /\ t # NoBuffer
  BY FieldsAre
<1>1. CASE b = t
  <2>1. ImageOf(I2, b) = ImageOf(I, b) \cup {s}
    BY <1>1 DEF ImageOf
  <2>2. s \notin ImageOf(I, b)
    BY <1>0 DEF ImageOf
  <2> HIDE DEF I2
  <2> QED BY <1>1, <2>1, <2>2, FiniteEach, FS_AddElement DEF One
<1>2. CASE b # t
  <2>1. ImageOf(I2, b) = ImageOf(I, b)
    BY <1>0, <1>2 DEF ImageOf
  <2> HIDE DEF I2
  <2>2. One(b, t) = 0
    BY <1>2 DEF One
  <2> QED BY <2>1, <2>2, FiniteEach
<1> QED BY <1>1, <1>2

LEMMA CountRoot ==
  ASSUME BuffersAssumption, NEW L, NEW D, IsFiniteSet(D), NEW H, NEW I, NEW C, NEW c, c \notin C
  PROVE  OneMore(L, D, H, I, C, L, D, H, I, C \cup {c}, c)
BY FiniteEach DEF Count, RootOf, One, OneMore

-----------------------------------------------------------------------------
(* The operations on buffers.                                              *)

LEMMA FreeIs == Nowhere \in [Fields -> Somewhere] /\ Free \in Cell
  BY DEF Nowhere, Free, Cell, Kinds, Somewhere

LEMMA CellOf ==
  ASSUME NEW m, Memory(m), NEW b \in Buffers
  PROVE  /\ m[b].refcnt \in Nat /\ m[b].kind \in Kinds /\ m[b].at \in [Fields -> Somewhere]
         /\ m[b].refcnt = 0 <=> m[b].kind = "none"
         /\ m[b].refcnt = 0 => m[b] = Free
  BY DEF Memory, Cell

LEMMA AllocIs ==
  ASSUME NEW m, Memory(m), NEW b \in Buffers, NEW k \in Kinds \ {"none"}
  PROVE  /\ Memory(Alloc(m, b, k))
         /\ Alloc(m, b, k)[b] = [refcnt |-> 1, kind |-> k, at |-> Nowhere]
         /\ \A x \in Buffers : x # b => Alloc(m, b, k)[x] = m[x]
  BY FreeIs DEF Memory, Cell, Alloc

LEMMA IncrefIs ==
  ASSUME NEW m, Memory(m), NEW t \in Buffers, m[t].refcnt > 0
  PROVE  /\ Memory(Incref(m, t))
         /\ \A x \in Buffers :
              /\ Incref(m, t)[x].refcnt = m[x].refcnt + One(x, t)
              /\ Incref(m, t)[x].kind = m[x].kind
              /\ Incref(m, t)[x].at = m[x].at
<1>1. Incref(m, t) \in [Buffers -> Cell]
  BY DEF Memory, Cell, Incref
<1>2. /\ Incref(m, t)[t].refcnt = m[t].refcnt + 1
      /\ Incref(m, t)[t].kind = m[t].kind /\ Incref(m, t)[t].at = m[t].at
      /\ \A x \in Buffers : x # t => Incref(m, t)[x] = m[x]
  BY DEF Memory, Cell, Incref
<1>3. \A x \in Buffers : m[x].refcnt \in Nat
  BY CellOf
<1>4. ASSUME NEW x \in Buffers
      PROVE  /\ Incref(m, t)[x].refcnt = m[x].refcnt + One(x, t)
             /\ Incref(m, t)[x].kind = m[x].kind
             /\ Incref(m, t)[x].at = m[x].at
  BY <1>2, <1>3 DEF One
<1>5. Memory(Incref(m, t))
  BY <1>1, <1>2, <1>3 DEF Memory
<1> QED BY <1>4, <1>5

LEMMA RelocIs ==
  ASSUME NEW m, Memory(m), NEW t \in Buffers, m[t].refcnt > 0,
         NEW d \in Buffers, m[d].refcnt > 0, NEW f \in Fields
  PROVE  /\ Memory(Reloc(m, d, f, t))
         /\ \A x \in Buffers :
              /\ Reloc(m, d, f, t)[x].refcnt = m[x].refcnt + One(x, t)
              /\ Reloc(m, d, f, t)[x].kind = m[x].kind
              /\ \A h \in Fields :
                   Reloc(m, d, f, t)[x].at[h] = IF x = d /\ h = f THEN t ELSE m[x].at[h]
<1> DEFINE i == Incref(m, t)
           r == Reloc(m, d, f, t)
<1>1. /\ Memory(i)
      /\ \A x \in Buffers : /\ i[x].refcnt = m[x].refcnt + One(x, t)
                            /\ i[x].kind = m[x].kind /\ i[x].at = m[x].at
  BY IncrefIs
<1>2. r = [i EXCEPT ![d].at[f] = t]
  BY DEF Reloc
<1>3. i \in [Buffers -> Cell] /\ t \in Somewhere
  BY <1>1 DEF Memory, Somewhere
<1> HIDE DEF i, r
<1>4. /\ r \in [Buffers -> Cell]
      /\ \A x \in Buffers : r[x].refcnt = i[x].refcnt /\ r[x].kind = i[x].kind
      /\ \A x \in Buffers, h \in Fields :
           r[x].at[h] = IF x = d /\ h = f THEN t ELSE i[x].at[h]
  BY <1>2, <1>3 DEF Cell
<1>5. \A x \in Buffers : x # d => r[x] = i[x]
  BY <1>2, <1>3
<1>6. i[d].refcnt > 0
  <2>1. m[d].refcnt \in Nat
    BY CellOf
  <2> QED BY <1>1, <2>1 DEF One
<1>7. Memory(r)
  BY <1>1, <1>4, <1>5, <1>6 DEF Memory
<1>8. ASSUME NEW x \in Buffers
      PROVE  /\ r[x].refcnt = m[x].refcnt + One(x, t) /\ r[x].kind = m[x].kind
             /\ \A h \in Fields : r[x].at[h] = IF x = d /\ h = f THEN t ELSE m[x].at[h]
  BY <1>1, <1>4
<1> QED BY <1>7, <1>8 DEF r

(* What lets go of references frees buffers or leaves them as they are.    *)
Trimmed(m, m2) ==
  \A b \in Buffers : m2[b].refcnt > 0 => m2[b].kind = m[b].kind /\ m2[b].at = m[b].at

LEMMA DecrefIs ==
  ASSUME NEW m, Memory(m), NEW t \in Buffers, m[t].refcnt > 0
  PROVE  /\ Memory(Decref(m, t)) /\ Trimmed(m, Decref(m, t))
         /\ \A x \in Buffers : m[x].refcnt = Decref(m, t)[x].refcnt + One(x, t)
<1> DEFINE r == Decref(m, t)
<1>1. m \in [Buffers -> Cell] /\ m[t].refcnt \in Nat
  BY CellOf DEF Memory
<1>2. CASE m[t].refcnt > 1
  <2>1. r = [m EXCEPT ![t].refcnt = @ - 1]
    BY <1>2 DEF Decref
  <2> HIDE DEF r
  <2>2. /\ r \in [Buffers -> Cell] /\ r[t].refcnt = m[t].refcnt - 1
        /\ r[t].kind = m[t].kind /\ r[t].at = m[t].at
        /\ \A x \in Buffers : x # t => r[x] = m[x]
    BY <1>1, <1>2, <2>1 DEF Cell
  <2>3. Memory(r) /\ Trimmed(m, r)
    BY <1>1, <1>2, <2>2 DEF Memory, Trimmed
  <2>4. ASSUME NEW x \in Buffers PROVE m[x].refcnt = r[x].refcnt + One(x, t)
    BY <1>1, <2>2, CellOf DEF One
  <2> QED BY <2>3, <2>4 DEF r
<1>3. CASE m[t].refcnt = 1
  <2>1. r = [m EXCEPT ![t] = [Free EXCEPT !.refcnt = m[t].refcnt - 1]]
    BY <1>3 DEF Decref
  <2>0. [Free EXCEPT !.refcnt = m[t].refcnt - 1] = Free
    BY <1>3 DEF Free
  <2> HIDE DEF r
  <2>2. /\ r \in [Buffers -> Cell] /\ r[t] = Free
        /\ \A x \in Buffers : x # t => r[x] = m[x]
    BY <1>1, <2>0, <2>1, FreeIs
  <2>3. Free.refcnt = 0 /\ Free.kind = "none"
    BY DEF Free
  <2>4. Memory(r) /\ Trimmed(m, r)
    BY <1>1, <2>2, <2>3 DEF Memory, Trimmed
  <2>5. ASSUME NEW x \in Buffers PROVE m[x].refcnt = r[x].refcnt + One(x, t)
    BY <1>1, <1>3, <2>2, <2>3, CellOf DEF One
  <2> QED BY <2>4, <2>5 DEF r
<1> QED BY <1>1, <1>2, <1>3

LEMMA TrimmedTwice ==
  ASSUME NEW m1, Memory(m1), NEW m2, Memory(m2), NEW m3, Memory(m3),
         Trimmed(m1, m2), Trimmed(m2, m3)
  PROVE  Trimmed(m1, m3)
<1> SUFFICES ASSUME NEW b \in Buffers, m3[b].refcnt > 0
             PROVE  m3[b].kind = m1[b].kind /\ m3[b].at = m1[b].at
  BY DEF Trimmed
<1>1. m3[b].kind = m2[b].kind /\ m3[b].at = m2[b].at
  BY DEF Trimmed
<1>2. m2[b].refcnt > 0
  BY <1>1, CellOf
<1> QED BY <1>1, <1>2 DEF Trimmed

-----------------------------------------------------------------------------
(* DecrefAll, one reference after the other.                               *)

Deep == [Buffers -> [refcnt : Int, kind : Kinds, at : [Fields -> Somewhere]]]
Lower(m, x) == IF x = NoBuffer THEN m ELSE Decref(m, x)

LEMMA LowerType ==
  ASSUME NEW m \in Deep, NEW x \in Somewhere
  PROVE  Lower(m, x) \in Deep
<1>1. CASE x = NoBuffer
  BY <1>1 DEF Lower
<1>2. CASE x # NoBuffer
  <2>1. x \in Buffers
    BY <1>2 DEF Somewhere
  <2>2. m[x].refcnt \in Int
    BY <2>1 DEF Deep
  <2>3. [m EXCEPT ![x].refcnt = @ - 1] \in Deep
    BY <2>1, <2>2 DEF Deep
  <2>4. [m EXCEPT ![x] = [Free EXCEPT !.refcnt = m[x].refcnt - 1]] \in Deep
    <3>1. [Free EXCEPT !.refcnt = m[x].refcnt - 1]
            \in [refcnt : Int, kind : Kinds, at : [Fields -> Somewhere]]
      BY <2>2, FreeIs DEF Free, Cell
    <3> QED BY <2>1, <3>1 DEF Deep
  <2> QED BY <1>2, <2>3, <2>4 DEF Lower, Decref
<1> QED BY <1>1, <1>2

LEMMA DecrefAllUnfolds ==
  ASSUME NEW m \in Deep, NEW bs \in Seq(Somewhere)
  PROVE  \E A \in [0 .. Len(bs) -> Deep] :
           /\ A[0] = m /\ DecrefAll(m, bs) = A[Len(bs)]
           /\ \A i \in 1 .. Len(bs) : A[i] = Lower(A[i - 1], bs[i])
<1> DEFINE n == Len(bs)
           H == [x \in (1 .. n) \X Deep |-> Lower(x[2], bs[x[1]])]
<1>1. n \in Nat /\ \A i \in 1 .. n : bs[i] \in Somewhere
  BY LenProperties, ElementOfSeq
<1>2. H \in [(1 .. n) \X Deep -> Deep]
  BY <1>1, LowerType
<1>3. PICK A \in [0 .. n -> Deep] : Iterates(A, n, m, H)
  <2> HIDE DEF H, n
  <2> QED BY <1>1, <1>2, Recursion, Zenon
<1>4. ASSUME NEW i \in 1 .. n
      PROVE  A[i] = Lower(A[i - 1], bs[i])
  <2>1. i - 1 \in 0 .. n
    BY <1>1
  <2>2. A[i] = H[<<i, A[i - 1]>>]
    <3> HIDE DEF H
    <3> QED BY <1>3 DEF Iterates
  <2>3. A[i - 1] \in Deep
    BY <2>1
  <2> QED BY <2>2, <2>3
<1> DEFINE F(g) == [i \in 0 .. Len(bs) |->
                     IF i = 0 THEN m
                     ELSE IF bs[i] = NoBuffer THEN g[i - 1] ELSE Decref(g[i - 1], bs[i])]
           S == CHOOSE g : g = F(g)
<1>5. A = F(A)
  <2>1. ASSUME NEW i \in 0 .. n PROVE A[i] = F(A)[i]
    <3>1. CASE i = 0
      BY <1>3, <3>1 DEF Iterates
    <3>2. CASE i # 0
      <4>1. i \in 1 .. n
        BY <1>1, <3>2
      <4> QED BY <1>4, <3>2, <4>1 DEF Lower
    <3> QED BY <3>1, <3>2
  <2> QED BY <1>3, <2>1
<1>6. S = F(S)
  <2> HIDE DEF F
  <2> QED BY <1>5, Zenon
<1>7. DecrefAll(m, bs) = S[n]
  BY Zenon DEF DecrefAll
<1>8. ASSUME NEW i \in 0 .. n PROVE S[i] = A[i]
  <2> DEFINE T == {j \in 0 .. n : S[j] = A[j]}
  <2>0. \A j \in 0 .. n :
          S[j] = IF j = 0 THEN m
                 ELSE IF bs[j] = NoBuffer THEN S[j - 1] ELSE Decref(S[j - 1], bs[j])
    <3> HIDE DEF S
    <3> QED BY <1>6
  <2> HIDE DEF S
  <2>1. 0 \in T
    BY <1>1, <1>3, <2>0 DEF Iterates
  <2>2. ASSUME NEW j \in 0 .. n - 1, j \in T PROVE j + 1 \in T
    <3>1. j + 1 \in 1 .. n /\ (j + 1) - 1 = j /\ j + 1 # 0 /\ j + 1 \in 0 .. n
      BY <1>1
    <3>2. A[j + 1] = Lower(A[j], bs[j + 1])
      BY <1>4, <3>1
    <3>3. S[j + 1] = Lower(S[j], bs[j + 1])
      BY <2>0, <3>1 DEF Lower
    <3> QED BY <2>2, <3>1, <3>2, <3>3
  <2> HIDE DEF T
  <2>3. \A j \in 0 .. n : j \in T
    BY <1>1, <2>1, <2>2, UpTo
  <2> QED BY <2>3 DEF T
<1>9. DecrefAll(m, bs) = A[n]
  <2>1. n \in 0 .. n
    BY <1>1
  <2> HIDE DEF S, n
  <2> QED BY <1>7, <1>8, <2>1
<1>10. A[0] = m
  BY <1>3 DEF Iterates
<1> HIDE DEF H, F, S
<1> QED BY <1>4, <1>9, <1>10

-----------------------------------------------------------------------------
(* Letting go, with the counts.                                            *)

LEMMA DecrefCounts ==
  ASSUME BuffersAssumption, NEW m, Memory(m), NEW t \in Buffers,
         NEW L, NEW D, NEW H, NEW I, NEW C, Counted(m, L, D, H, I, C),
         NEW L2, NEW D2, IsFiniteSet(D2), NEW H2, NEW I2, NEW C2,
         OneMore(L2, D2, H2, I2, C2, L, D, H, I, C, t)
  PROVE  /\ Memory(Decref(m, t)) /\ Trimmed(m, Decref(m, t))
         /\ Counted(Decref(m, t), L2, D2, H2, I2, C2)
<1>1. \A b \in Buffers : Count(L2, D2, H2, I2, C2, b) \in Nat
  BY Finite
<1>2. m[t].refcnt > 0
  BY <1>1 DEF Counted, One, OneMore
<1>3. /\ Memory(Decref(m, t)) /\ Trimmed(m, Decref(m, t))
      /\ \A x \in Buffers : m[x].refcnt = Decref(m, t)[x].refcnt + One(x, t)
  BY <1>2, DecrefIs
<1>4. ASSUME NEW x \in Buffers PROVE Decref(m, t)[x].refcnt = Count(L2, D2, H2, I2, C2, x)
  <2>1. Decref(m, t)[x].refcnt \in Nat
    BY <1>3, CellOf
  <2> QED BY <1>1, <1>3, <2>1 DEF Counted, One, OneMore
<1> QED BY <1>3, <1>4 DEF Counted

LEMMA ShallowIsDeep ==
  ASSUME NEW m, Memory(m)
  PROVE  m \in Deep
  BY DEF Memory, Cell, Deep

LEMMA HeldLetGo ==
  ASSUME BuffersAssumption, NEW m, Memory(m), NEW L, NEW H \in Seq(Buffers), NEW I, NEW C,
         Counted(m, L, DOMAIN H, H, I, C)
  PROVE  /\ Memory(DecrefAll(m, H)) /\ Trimmed(m, DecrefAll(m, H))
         /\ Counted(DecrefAll(m, H), L, {}, H, I, C)
<1> DEFINE n == Len(H)
<1>1. n \in Nat /\ DOMAIN H = 1 .. n /\ \A i \in 1 .. n : H[i] \in Buffers
  BY LenProperties, ElementOfSeq
<1>2. H \in Seq(Somewhere)
  BY SeqMonotonic DEF Somewhere
<1>3. PICK A \in [0 .. n -> Deep] :
        /\ A[0] = m /\ DecrefAll(m, H) = A[n]
        /\ \A i \in 1 .. n : A[i] = Lower(A[i - 1], H[i])
  BY <1>2, ShallowIsDeep, DecrefAllUnfolds
<1> DEFINE T == {i \in 0 .. n : Memory(A[i]) /\ Trimmed(m, A[i])
                                  /\ Counted(A[i], L, i + 1 .. n, H, I, C)}
<1> HIDE DEF n
<1>4. 0 \in T
  <2>1. DOMAIN H = 0 + 1 .. n
    BY <1>1
  <2>2. Trimmed(m, m)
    BY DEF Trimmed
  <2> QED BY <1>1, <1>3, <2>1, <2>2
<1>5. ASSUME NEW i \in 0 .. n - 1, i \in T PROVE i + 1 \in T
  <2> DEFINE D == i + 2 .. n
             j == i + 1
  <2>1. /\ j \in 1 .. n /\ j - 1 = i /\ j \notin D /\ i + 1 .. n = D \cup {j} /\ j + 1 .. n = D
        /\ IsFiniteSet(D) /\ j \in 0 .. n
    <3>1. IsFiniteSet(D)
      BY <1>1, FS_Interval
    <3> QED BY <1>1, <3>1
  <2> HIDE DEF D, j
  <2>2. H[j] \in Buffers
    BY <1>1, <2>1
  <2>3. A[j] = Decref(A[i], H[j])
    <3>1. A[j] = Lower(A[i], H[j])
      BY <1>3, <2>1
    <3> QED BY <2>2, <3>1, FieldsAre DEF Lower
  <2>4. Memory(A[i]) /\ Trimmed(m, A[i]) /\ Counted(A[i], L, D \cup {j}, H, I, C)
    BY <1>5, <2>1
  <2>5. OneMore(L, D, H, I, C, L, D \cup {j}, H, I, C, H[j])
    BY <2>1, CountHeld
  <2>6. /\ Memory(Decref(A[i], H[j])) /\ Trimmed(A[i], Decref(A[i], H[j]))
        /\ Counted(Decref(A[i], H[j]), L, D, H, I, C)
    BY <2>1, <2>2, <2>4, <2>5, DecrefCounts
  <2>7. Trimmed(m, A[j])
    BY <2>3, <2>4, <2>6, TrimmedTwice
  <2>8. j \in T
    BY <2>1, <2>3, <2>6, <2>7
  <2> QED BY <2>8 DEF j
<1>6. n \in T
  <2> HIDE DEF T
  <2>1. \A i \in 0 .. n : i \in T
    BY <1>1, <1>4, <1>5, UpTo
  <2>2. n \in 0 .. n
    BY <1>1
  <2> QED BY <2>1, <2>2
<1>7. n + 1 .. n = {}
  BY <1>1
<1> QED BY <1>3, <1>6, <1>7

Without(L, c, F) ==
  [b \in Buffers |-> [f \in Fields |-> IF b = c /\ f \in F THEN NoBuffer ELSE L[b][f]]]

(* The fields fs of c, without repetition, and where they point.           *)
Named(fs) == {fs[i] : i \in 1 .. Len(fs)}

Letting(L, c, fs, bs) ==
  /\ Len(bs) = Len(fs) /\ \A i \in 1 .. Len(fs) : bs[i] = L[c][fs[i]]
  /\ \A i, j \in 1 .. Len(fs) : fs[i] = fs[j] => i = j

LEMMA LinksLetGo ==
  ASSUME BuffersAssumption, NEW m, Memory(m), NEW L \in Linked, NEW D, IsFiniteSet(D),
         NEW H, NEW I, NEW C, Counted(m, L, D, H, I, C),
         NEW c \in Buffers, NEW fs \in Seq(Fields), NEW bs \in Seq(Somewhere),
         Letting(L, c, fs, bs)
  PROVE  /\ Memory(DecrefAll(m, bs)) /\ Trimmed(m, DecrefAll(m, bs))
         /\ Counted(DecrefAll(m, bs), Without(L, c, Named(fs)), D, H, I, C)
<1> DEFINE n == Len(fs)
           F(k) == {fs[i] : i \in 1 .. k}
           W(k) == Without(L, c, F(k))
<1>1. n \in Nat /\ \A i \in 1 .. n : bs[i] \in Somewhere /\ fs[i] \in Fields
  BY LenProperties, ElementOfSeq DEF Letting
<1>2. PICK A \in [0 .. n -> Deep] :
        /\ A[0] = m /\ DecrefAll(m, bs) = A[n]
        /\ \A i \in 1 .. n : A[i] = Lower(A[i - 1], bs[i])
  BY ShallowIsDeep, DecrefAllUnfolds DEF Letting
<1>3. \A K : Without(L, c, K) \in Linked
  BY DEF Without, Linked, Somewhere
<1> DEFINE T == {i \in 0 .. n : Memory(A[i]) /\ Trimmed(m, A[i]) /\ Counted(A[i], W(i), D, H, I, C)}
<1>9. Len(bs) = n /\ Named(fs) = F(n)
  BY DEF Letting, Named
<1>10. \A i, j \in 1 .. n : fs[i] = fs[j] => i = j
  BY DEF Letting
<1>11. \A i \in 1 .. n : bs[i] = L[c][fs[i]]
  BY DEF Letting
<1> HIDE DEF n
<1>4. 0 \in T
  <2>1. F(0) = {}
    OBVIOUS
  <2>2. Without(L, c, {}) = L
    BY DEF Without, Linked
  <2>3. Trimmed(m, m)
    BY DEF Trimmed
  <2>4. W(0) = L /\ 0 \in 0 .. n
    BY <1>1, <2>1, <2>2
  <2> HIDE DEF W
  <2> QED BY <1>2, <2>3, <2>4
<1>5. ASSUME NEW i \in 0 .. n - 1, i \in T PROVE i + 1 \in T
  <2> DEFINE j == i + 1
             f == fs[j]
             t == bs[j]
  <2>1. j \in 1 .. n /\ j - 1 = i /\ j \in 0 .. n /\ f \in Fields /\ t \in Somewhere /\ i \in Nat
    BY <1>1
  <2>2. A[j] = Lower(A[i], t)
    BY <1>2, <2>1
  <2>3. Memory(A[i]) /\ Trimmed(m, A[i]) /\ Counted(A[i], W(i), D, H, I, C)
    BY <1>5
  <2>4. F(j) = F(i) \cup {f}
    <3>1. 1 .. j = (1 .. i) \cup {j}
      BY <2>1
    <3> QED BY <3>1
  <2>5. f \notin F(i)
    <3>1. ASSUME NEW k \in 1 .. i, fs[k] = f PROVE FALSE
      <4>1. k \in 1 .. n /\ k # j
        BY <1>1, <2>1
      <4> QED BY <1>10, <2>1, <3>1, <4>1
    <3> QED BY <3>1
  <2>6. W(i)[c][f] = t /\ W(j)[c][f] = NoBuffer
    BY <1>11, <2>1, <2>4, <2>5 DEF Without
  <2>7. \A x \in Buffers, h \in Fields : <<x, h>> = <<c, f>> \/ W(i)[x][h] = W(j)[x][h]
    <3> SUFFICES ASSUME NEW x \in Buffers, NEW h \in Fields, x # c \/ h # f
                 PROVE  W(i)[x][h] = W(j)[x][h]
      OBVIOUS
    <3>1. W(i)[x][h] = IF x = c /\ h \in F(i) THEN NoBuffer ELSE L[x][h]
      BY DEF Without
    <3>2. W(j)[x][h] = IF x = c /\ h \in F(j) THEN NoBuffer ELSE L[x][h]
      BY DEF Without
    <3>3. h # f => (h \in F(i) <=> h \in F(j))
      BY <2>4
    <3> HIDE DEF F
    <3> QED BY <3>1, <3>2, <3>3
  <2> HIDE DEF j, f, t, F
  <2>8. W(i) \in Linked /\ W(j) \in Linked
    BY <1>3
  <2> HIDE DEF W
  <2>9. CASE t = NoBuffer
    <3>1. \A x \in Buffers : \A h \in Fields : W(i)[x][h] = W(j)[x][h]
      BY <2>6, <2>7, <2>9
    <3>2. W(i) = W(j)
      BY <2>8, <3>1 DEF Linked
    <3>3. A[j] = A[i]
      BY <2>2, <2>9 DEF Lower
    <3>4. j \in T
      BY <2>1, <2>3, <3>2, <3>3
    <3> QED BY <3>4 DEF j
  <2>10. CASE t # NoBuffer
    <3>1. t \in Buffers /\ A[j] = Decref(A[i], t)
      BY <2>1, <2>2, <2>10 DEF Lower, Somewhere
    <3>2. OneMore(W(j), D, H, I, C, W(i), D, H, I, C, t)
      <4>1. NewLink(W(j), W(i), c, f, t)
        BY <2>1, <2>6, <2>7, <2>8, <3>1 DEF NewLink
      <4> QED BY <4>1, CountLink
    <3>3. /\ Memory(Decref(A[i], t)) /\ Trimmed(A[i], Decref(A[i], t))
          /\ Counted(Decref(A[i], t), W(j), D, H, I, C)
      BY <2>3, <3>1, <3>2, DecrefCounts
    <3>4. Trimmed(m, A[j])
      BY <2>3, <3>1, <3>3, TrimmedTwice
    <3>5. j \in T
      BY <2>1, <3>1, <3>3, <3>4
    <3> QED BY <3>5 DEF j
  <2> QED BY <2>9, <2>10
<1>6. n \in T
  <2> HIDE DEF T
  <2>1. \A i \in 0 .. n : i \in T
    BY <1>1, <1>4, <1>5, UpTo
  <2>2. n \in 0 .. n
    BY <1>1
  <2> QED BY <2>1, <2>2
<1>7. Memory(A[n]) /\ Trimmed(m, A[n]) /\ Counted(A[n], W(n), D, H, I, C)
  BY <1>6
<1>8. W(n) = Without(L, c, Named(fs))
  BY <1>9
<1> HIDE DEF W
<1> QED BY <1>2, <1>7, <1>8
-----------------------------------------------------------------------------
(* How buffers point to one another.  O gives each part of a command the   *)
(* command it belongs to, R each chunk its place in its image.             *)

Fits(k, f, t) ==
  \/ k = "copy" /\ f = "src" /\ t = "bitmap"
  \/ k \in {"copy_surface", "composite"} /\ f = "src" /\ t = "surface"
  \/ k = "composite" /\ f = "mask" /\ t = "surface"
  \/ k = "composite" /\ f \in {"src_transform", "mask_transform"} /\ t = "transform"
  \/ k = "cursor" /\ f = "shape" /\ t = "shape"
  \/ k = "bitmap" /\ f = "data" /\ t = "chunk"
  \/ k = "chunk" /\ f \in {"next", "prev"} /\ t = "chunk"

LinkFits(m, L, O, R, b, f, t) ==
  /\ Fits(m[b].kind, f, m[t].kind)
  /\ m[t].kind # "surface" => O[t] = O[b]
  /\ f = "next" => L[t]["prev"] = b
  /\ f = "prev" => L[t]["next"] = b /\ R[b] = R[t] + 1
  /\ f = "data" => L[t]["prev"] = NoBuffer

Pointing(m, L, O, R) ==
  \A b \in Buffers, f \in Fields :
    L[b][f] # NoBuffer => LinkFits(m, L, O, R, b, f, L[b][f])

Rooted(m, C, O) ==
  \A b \in Buffers : /\ m[b].kind \in CommandKinds <=> b \in C
                     /\ b \in C => O[b] = b

Owned(m, L, C, O) ==
  \A b \in Buffers :
    /\ m[b].kind \in PartKinds => O[b] \in C
    /\ m[b].kind = "bitmap" => m[b].at["data"] # NoBuffer /\ L[O[b]]["src"] = b

(* Chunks that nothing else leads to are held, or behind the walk.         *)
Anchored(L, D, H, B, b) ==
  \/ L[b]["prev"] # NoBuffer
  \/ \E x \in Buffers : L[x]["data"] = b
  \/ HeldAt(D, H, b) # {}
  \/ b = B

Chunked(m, L, D, H, R, B) ==
  \A b \in Buffers : m[b].kind = "chunk" => R[b] \in 1 .. MaxChunks /\ Anchored(L, D, H, B, b)

Imaging(m, I) == \A b \in Buffers : m[b].kind = "surface" <=> ImageOf(I, b) # {}

Shape(m, L, D, H, I, C, O, R, B) ==
  /\ Pointing(m, L, O, R) /\ Rooted(m, C, O) /\ Owned(m, L, C, O)
  /\ Chunked(m, L, D, H, R, B) /\ Imaging(m, I)

LEMMA Fresh ==
  ASSUME BuffersAssumption, NEW m, NEW L \in Linked, NEW D, IsFiniteSet(D), NEW H, NEW I, NEW C,
         Counted(m, L, D, H, I, C), NEW b \in Buffers, m[b].refcnt = 0
  PROVE  /\ \A x \in Buffers, f \in Fields : L[x][f] # b
         /\ HeldAt(D, H, b) = {} /\ ImageOf(I, b) = {} /\ b \notin C
<1>1. Count(L, D, H, I, C, b) = 0
  BY DEF Counted
<1>2. Into(L, b) = {} /\ HeldAt(D, H, b) = {} /\ ImageOf(I, b) = {} /\ b \notin C
  BY <1>1, NobodyHolds
<1>3. ASSUME NEW x \in Buffers, NEW f \in Fields, L[x][f] = b PROVE FALSE
  <2>1. <<x, f>> \in Into(L, b)
    BY <1>3 DEF Into
  <2> QED BY <1>2, <2>1
<1> QED BY <1>2, <1>3

LEMMA UsedBuffers ==
  ASSUME BuffersAssumption, NEW m, Memory(m), NEW L \in Linked, NEW D, IsFiniteSet(D),
         NEW H, NEW I, NEW C, Counted(m, L, D, H, I, C), NEW b \in Buffers,
         \/ \E x \in Buffers, f \in Fields : L[x][f] = b
         \/ HeldAt(D, H, b) # {}
         \/ ImageOf(I, b) # {}
         \/ b \in C
  PROVE  m[b].refcnt > 0 /\ m[b].kind # "none"
<1>1. m[b].refcnt # 0
  BY Fresh
<1> QED BY <1>1, CellOf

(* Letting go keeps the shape of what stays.                               *)
Shrinks(m, m2, L, L2, C, C2, O, D2, H2, B2) ==
  /\ L \in Linked /\ L2 \in Linked /\ Trimmed(m, m2)
  /\ \A b \in Buffers, f \in Fields : L2[b][f] \in {NoBuffer, L[b][f]}
  /\ \A b \in Buffers : m2[b].refcnt = 0 => \A f \in Fields : L2[b][f] = NoBuffer
  /\ \A b \in Buffers : L2[b]["next"] # NoBuffer => L2[L2[b]["next"]]["prev"] = b
  /\ \A b \in Buffers : L2[b]["prev"] # NoBuffer => L2[L2[b]["prev"]]["next"] = b
  /\ C2 \subseteq C /\ \A b \in C \ C2 : m2[b].refcnt = 0
  /\ \A b \in Buffers : m2[b].kind \in PartKinds => O[b] \in C2
  /\ \A b \in Buffers : m2[b].kind = "bitmap" => L2[O[b]]["src"] = b
  /\ \A b \in Buffers : m2[b].kind = "chunk" => Anchored(L2, D2, H2, B2, b)

LEMMA ShapeShrinks ==
  ASSUME BuffersAssumption, NEW m, Memory(m), NEW m2, Memory(m2),
         NEW L, NEW L2, NEW D, NEW H, NEW I, NEW C, NEW O, NEW R, NEW B,
         Shape(m, L, D, H, I, C, O, R, B),
         NEW D2, IsFiniteSet(D2), NEW H2, NEW C2, NEW B2, Counted(m2, L2, D2, H2, I, C2),
         Shrinks(m, m2, L, L2, C, C2, O, D2, H2, B2)
  PROVE  Shape(m2, L2, D2, H2, I, C2, O, R, B2)
<1> USE DEF Shrinks
<1>1. \A b \in Buffers : m2[b].kind # "none" =>
        m2[b].refcnt > 0 /\ m2[b].kind = m[b].kind /\ m2[b].at = m[b].at
  BY CellOf DEF Trimmed
<1>2. \A b \in Buffers, f \in Fields : L2[b][f] \in Somewhere /\ L[b][f] \in Somewhere
  BY DEF Linked
<1>3. {"next", "prev", "data", "src"} \subseteq Fields
  BY DEF Fields
<1>4. Pointing(m2, L2, O, R)
  <2> SUFFICES ASSUME NEW b \in Buffers, NEW f \in Fields, L2[b][f] # NoBuffer
               PROVE  LinkFits(m2, L2, O, R, b, f, L2[b][f])
    BY DEF Pointing
  <2> DEFINE t == L2[b][f]
  <2>1. t = L[b][f] /\ t \in Buffers
    BY <1>2 DEF Somewhere
  <2>2. LinkFits(m, L, O, R, b, f, t)
    BY <2>1 DEF Shape, Pointing
  <2>3. m2[t].kind # "none" /\ m2[b].kind # "none"
    <3>1. m2[b].refcnt # 0
      OBVIOUS
    <3>2. m2[t].kind # "none"
      BY <2>1, UsedBuffers
    <3> QED BY <3>1, <3>2, CellOf
  <2>4. m2[t].kind = m[t].kind /\ m2[b].kind = m[b].kind
    BY <1>1, <2>1, <2>3
  <2>5. L[t]["prev"] = NoBuffer => L2[t]["prev"] = NoBuffer
    BY <1>3, <2>1
  <2>6. f = "next" => L2[t]["prev"] = b
    OBVIOUS
  <2>7. f = "prev" => L2[t]["next"] = b
    OBVIOUS
  <2> HIDE DEF t
  <2>8. LinkFits(m2, L2, O, R, b, f, t)
    BY <2>2, <2>4, <2>5, <2>6, <2>7 DEF LinkFits
  <2> QED BY <2>8 DEF t
<1>5. Rooted(m2, C2, O)
  <2> SUFFICES ASSUME NEW b \in Buffers
               PROVE  /\ m2[b].kind \in CommandKinds <=> b \in C2
                      /\ b \in C2 => O[b] = b
    BY DEF Rooted
  <2>1. (m[b].kind \in CommandKinds <=> b \in C) /\ (b \in C => O[b] = b)
    BY DEF Shape, Rooted
  <2>2. b \in C2 => m2[b].kind # "none"
    BY UsedBuffers
  <2>3. b \in C \ C2 => m2[b].kind = "none"
    BY CellOf
  <2>4. "none" \notin CommandKinds
    BY DEF CommandKinds
  <2> QED BY <1>1, <2>1, <2>2, <2>3, <2>4
<1>6. Owned(m2, L2, C2, O)
  <2> SUFFICES ASSUME NEW b \in Buffers, m2[b].kind = "bitmap"
               PROVE  m2[b].at["data"] # NoBuffer
    BY DEF Owned
  <2>1. m2[b].kind = m[b].kind /\ m2[b].at = m[b].at
    BY <1>1
  <2> QED BY <2>1 DEF Shape, Owned
<1>7. Chunked(m2, L2, D2, H2, R, B2)
  <2> SUFFICES ASSUME NEW b \in Buffers, m2[b].kind = "chunk"
               PROVE  R[b] \in 1 .. MaxChunks
    BY DEF Chunked
  <2>1. m[b].kind = "chunk"
    BY <1>1
  <2> QED BY <2>1 DEF Shape, Chunked
<1>8. Imaging(m2, I)
  <2> SUFFICES ASSUME NEW b \in Buffers
               PROVE  m2[b].kind = "surface" <=> ImageOf(I, b) # {}
    BY DEF Imaging
  <2>1. m[b].kind = "surface" <=> ImageOf(I, b) # {}
    BY DEF Shape, Imaging
  <2>2. ImageOf(I, b) # {} => m2[b].kind # "none"
    BY UsedBuffers
  <2> QED BY <1>1, <2>1, <2>2
<1> QED BY <1>4, <1>5, <1>6, <1>7, <1>8 DEF Shape

(* N are the buffers taken in a step that also adds links.                 *)
Grows(m, m2, L, L2, D, H, D2, H2, C, C2, O, O2, R, R2, I2, B, N) ==
  /\ L \in Linked /\ L2 \in Linked /\ N \subseteq Buffers /\ C \subseteq Buffers
  /\ \A b \in N : m[b].refcnt = 0 /\ \A f \in Fields : L[b][f] = NoBuffer
  /\ \A b \in Buffers \ N : m2[b].kind = m[b].kind /\ O2[b] = O[b] /\ R2[b] = R[b]
  /\ \A b \in Buffers \ N : m[b].at["data"] # NoBuffer => m2[b].at["data"] # NoBuffer
  /\ \A b \in Buffers, f \in Fields : L[b][f] # NoBuffer => L2[b][f] = L[b][f]
  /\ \A b \in Buffers \ N : L2[b]["prev"] = L[b]["prev"]
  /\ \A b \in Buffers, f \in Fields :
       L[b][f] = NoBuffer /\ L2[b][f] # NoBuffer => LinkFits(m2, L2, O2, R2, b, f, L2[b][f])
  /\ \A b \in Buffers \ N : b \in C2 <=> b \in C
  /\ \A b \in N : (m2[b].kind \in CommandKinds <=> b \in C2) /\ (b \in C2 => O2[b] = b)
  /\ \A b \in N : m2[b].kind \in PartKinds => O2[b] \in C
  /\ \A b \in N : m2[b].kind = "bitmap" => m2[b].at["data"] # NoBuffer /\ L2[O2[b]]["src"] = b
  /\ \A b \in Buffers \ N :
       HeldAt(D, H, b) # {} => HeldAt(D2, H2, b) # {} \/ \E x \in Buffers : L2[x]["data"] = b
  /\ \A b \in N : m2[b].kind = "chunk" => R2[b] \in 1 .. MaxChunks /\ Anchored(L2, D2, H2, B, b)
  /\ Imaging(m2, I2)

LEMMA ShapeGrows ==
  ASSUME BuffersAssumption, NEW m, Memory(m), NEW m2, NEW L, NEW L2, NEW D, IsFiniteSet(D),
         NEW H, NEW I, NEW C, NEW O, NEW R, NEW B,
         Counted(m, L, D, H, I, C), Shape(m, L, D, H, I, C, O, R, B),
         NEW N, NEW D2, NEW H2, NEW I2, NEW C2, NEW O2, NEW R2,
         Grows(m, m2, L, L2, D, H, D2, H2, C, C2, O, O2, R, R2, I2, B, N)
  PROVE  Shape(m2, L2, D2, H2, I2, C2, O2, R2, B)
<1> USE DEF Grows
<1>1. \A b \in N : (\A x \in Buffers, f \in Fields : L[x][f] # b) /\ b \notin C
  BY Fresh
<1>2. \A b \in Buffers, f \in Fields : L2[b][f] \in Somewhere /\ L[b][f] \in Somewhere
  BY DEF Linked
<1>3. {"next", "prev", "data", "src"} \subseteq Fields
  BY DEF Fields
<1>4. Pointing(m2, L2, O2, R2)
  <2> SUFFICES ASSUME NEW b \in Buffers, NEW f \in Fields, L[b][f] # NoBuffer
               PROVE  LinkFits(m2, L2, O2, R2, b, f, L2[b][f])
    BY DEF Pointing
  <2> DEFINE t == L[b][f]
  <2>1. t = L2[b][f] /\ t \in Buffers
    BY <1>2 DEF Somewhere
  <2>2. LinkFits(m, L, O, R, b, f, t)
    BY <2>1 DEF Shape, Pointing
  <2>3. b \in Buffers \ N /\ t \in Buffers \ N
    BY <1>1, <2>1
  <2>4. /\ m2[t].kind = m[t].kind /\ m2[b].kind = m[b].kind
        /\ O2[t] = O[t] /\ O2[b] = O[b] /\ R2[t] = R[t] /\ R2[b] = R[b]
    BY <2>3
  <2>5. L2[t]["prev"] = L[t]["prev"]
    BY <2>3
  <2>6. L[t]["next"] # NoBuffer => L2[t]["next"] = L[t]["next"]
    BY <1>3, <2>1
  <2>7. b # NoBuffer
    BY FieldsAre
  <2> HIDE DEF t
  <2>8. LinkFits(m2, L2, O2, R2, b, f, t)
    BY <2>2, <2>4, <2>5, <2>6, <2>7 DEF LinkFits
  <2> QED BY <2>1, <2>8
<1>5. Rooted(m2, C2, O2)
  BY DEF Shape, Rooted
<1>6. Owned(m2, L2, C2, O2)
  <2> SUFFICES ASSUME NEW b \in Buffers
               PROVE  /\ m2[b].kind \in PartKinds => O2[b] \in C2
                      /\ m2[b].kind = "bitmap" => m2[b].at["data"] # NoBuffer /\ L2[O2[b]]["src"] = b
    BY DEF Owned
  <2>0. C \subseteq C2
    BY <1>1
  <2>1. CASE b \in N
    BY <2>0, <2>1
  <2>2. CASE b \notin N
    <3>1. m2[b].kind = m[b].kind /\ O2[b] = O[b]
      BY <2>2
    <3>2. ASSUME m[b].kind = "bitmap"
          PROVE  m2[b].at["data"] # NoBuffer /\ L2[O[b]]["src"] = b
      <4>1. m[b].at["data"] # NoBuffer /\ O[b] \in C /\ L[O[b]]["src"] = b
        BY <3>2 DEF Shape, Owned, PartKinds
      <4>2. b # NoBuffer
        BY FieldsAre
      <4> QED BY <1>3, <2>2, <4>1, <4>2
    <3> QED BY <2>0, <3>1, <3>2 DEF Shape, Owned
  <2> QED BY <2>1, <2>2
<1>7. Chunked(m2, L2, D2, H2, R2, B)
  <2> SUFFICES ASSUME NEW b \in Buffers, m2[b].kind = "chunk"
               PROVE  R2[b] \in 1 .. MaxChunks /\ Anchored(L2, D2, H2, B, b)
    BY DEF Chunked
  <2>1. CASE b \in N
    BY <2>1
  <2>2. CASE b \notin N
    <3>1. R[b] \in 1 .. MaxChunks /\ Anchored(L, D, H, B, b) /\ R2[b] = R[b]
      BY <2>2 DEF Shape, Chunked
    <3>2. b # NoBuffer
      BY FieldsAre
    <3>3. Anchored(L2, D2, H2, B, b)
      <4>1. CASE L[b]["prev"] # NoBuffer
        BY <1>3, <4>1 DEF Anchored
      <4>2. CASE \E x \in Buffers : L[x]["data"] = b
        BY <1>3, <3>2, <4>2 DEF Anchored
      <4>3. CASE HeldAt(D, H, b) # {}
        BY <2>2, <4>3 DEF Anchored
      <4>4. CASE b = B
        BY <4>4 DEF Anchored
      <4> QED BY <3>1, <4>1, <4>2, <4>3, <4>4 DEF Anchored
    <3> QED BY <3>1, <3>3
  <2> QED BY <2>1, <2>2
<1> QED BY <1>4, <1>5, <1>6, <1>7 DEF Shape

-----------------------------------------------------------------------------
(* What is left of a command that X builds.                                *)

Dos == Kinds \cup {"push"}
StepFields == Fields \cup {"none"}
StepSet == [do : Dos, s : Imaged \cup {NoBuffer}, field : StepFields]

LEMMA Words ==
  /\ {"plain", "copy", "copy_surface", "composite", "cursor", "bitmap", "chunk",
      "transform", "shape", "surface", "push"} \subseteq Dos
  /\ {"none", "src", "src_transform", "mask", "mask_transform", "shape"} \subseteq StepFields
  BY DEF Dos, Kinds, CommandKinds, PartKinds, StepFields, Fields

PushStep == [do |-> "push", s |-> NoBuffer, field |-> "none"]
ChunkStep == [do |-> "chunk", s |-> NoBuffer, field |-> "none"]
BitmapStep == [do |-> "bitmap", s |-> NoBuffer, field |-> "src"]
CopyStep == [do |-> "copy_surface", s |-> NoBuffer, field |-> "none"]

UploadLeft(t) ==
  /\ Len(t) >= 2 /\ Len(t) - 2 <= MaxChunks
  /\ \A i \in 1 .. Len(t) - 2 : t[i] = ChunkStep
  /\ t[Len(t) - 1] = BitmapStep /\ t[Len(t)] = PushStep

Adds(kind, step) ==
  \/ /\ kind = "composite" /\ step.do = "surface" /\ step.s \in Imaged
     /\ step.field \in {"src", "mask"}
  \/ /\ kind = "composite" /\ step.do = "transform"
     /\ step.field \in {"src_transform", "mask_transform"}
  \/ kind = "cursor" /\ step.do = "shape" /\ step.field = "shape"

Adding(t, n, kind) ==
  /\ \A i \in 1 .. n : Adds(kind, t[i])
  /\ \A i, j \in 1 .. n : t[i].field = t[j].field => i = j

AddLeft(t, kind) ==
  Len(t) >= 1 /\ t[Len(t)] = PushStep /\ Adding(t, Len(t) - 1, kind)

Begun(t) ==
  /\ Len(t) >= 2
  /\ \/ t[1].do = "copy" /\ UploadLeft(Tail(t)) /\ Len(t) >= 4
     \/ t[1].do \in {"plain", "composite", "cursor"} /\ AddLeft(Tail(t), t[1].do)
     \/ /\ t[1].do = "surface" /\ t[1].s \in Imaged /\ t[1].field = "none"
        /\ t[2] = CopyStep /\ Len(t) = 3 /\ t[3] = PushStep

LEMMA Rest ==
  ASSUME NEW S, NEW t \in Seq(S), t # <<>>
  PROVE  /\ Len(t) \in Nat \ {0} /\ Head(t) = t[1] /\ t[1] \in S
         /\ Tail(t) \in Seq(S) /\ Len(Tail(t)) = Len(t) - 1
         /\ \A i \in 1 .. Len(t) - 1 : Tail(t)[i] = t[i + 1]
  OBVIOUS

LEMMA After ==
  ASSUME NEW S, NEW a \in S, NEW t \in Seq(S)
  PROVE  /\ <<a>> \o t \in Seq(S) /\ Len(<<a>> \o t) = Len(t) + 1
         /\ (<<a>> \o t)[1] = a /\ Tail(<<a>> \o t) = t
<1> DEFINE u == <<a>> \o t
<1>1. <<a>> \in Seq(S) /\ Len(<<a>>) = 1 /\ <<a>>[1] = a /\ Len(t) \in Nat
  OBVIOUS
<1>2. /\ u \in Seq(S) /\ Len(u) = Len(t) + 1
      /\ \A i \in 1 .. Len(t) + 1 : u[i] = IF i <= 1 THEN <<a>>[i] ELSE t[i - 1]
  BY <1>1, ConcatProperties
<1> HIDE DEF u
<1>3. u[1] = a /\ \A i \in 1 .. Len(t) : u[i + 1] = t[i]
  BY <1>1, <1>2
<1>4. u # <<>>
  BY <1>1, <1>2
<1>5. Tail(u) \in Seq(S) /\ Len(Tail(u)) = Len(t) /\ \A i \in 1 .. Len(t) : Tail(u)[i] = u[i + 1]
  BY <1>1, <1>2, <1>4, Rest
<1>6. Tail(u) = t
  BY <1>3, <1>5, SeqEqual
<1> QED BY <1>2, <1>3, <1>6 DEF u

LEMMA AddsOne ==
  ASSUME NEW t \in Seq(StepSet), NEW kind, AddLeft(t, kind), Len(t) >= 2
  PROVE  AddLeft(Tail(t), kind) /\ Adds(kind, t[1]) /\ ~UploadLeft(t)
         /\ \A i \in 1 .. Len(t) - 2 : Tail(t)[i].field # t[1].field
<1> DEFINE u == Tail(t)
           n == Len(t)
<1>1. /\ n \in Nat /\ n >= 2 /\ u \in Seq(StepSet) /\ Len(u) = n - 1
      /\ \A i \in 1 .. n - 1 : u[i] = t[i + 1]
  BY Rest
<1>2. /\ t[n] = PushStep /\ \A i \in 1 .. n - 1 : Adds(kind, t[i])
      /\ \A i, j \in 1 .. n - 1 : t[i].field = t[j].field => i = j
  BY DEF AddLeft, Adding
<1>3. \A i \in 1 .. n - 2 : i + 1 \in 1 .. n - 1 /\ i \in 1 .. n - 1 /\ i + 1 # 1
  BY <1>1
<1>6. 1 \in 1 .. n - 1 /\ n - 1 \in 1 .. n - 1
  BY <1>1
<1> HIDE DEF u, n
<1>4. Adding(u, n - 2, kind)
  <2>1. \A i \in 1 .. n - 2 : Adds(kind, u[i])
    BY <1>1, <1>2, <1>3
  <2>2. ASSUME NEW i \in 1 .. n - 2, NEW j \in 1 .. n - 2, u[i].field = u[j].field PROVE i = j
    <3>1. u[i] = t[i + 1] /\ u[j] = t[j + 1] /\ i + 1 \in 1 .. n - 1 /\ j + 1 \in 1 .. n - 1
      BY <1>1, <1>3
    <3>2. t[i + 1].field = t[j + 1].field
      BY <2>2, <3>1
    <3>3. i + 1 = j + 1
      BY <1>2, <3>1, <3>2
    <3> QED BY <3>3
  <2> QED BY <2>1, <2>2 DEF Adding
<1>5. AddLeft(u, kind)
  <2>1. u[n - 1] = PushStep
    BY <1>1, <1>2, <1>6
  <2>2. (n - 1) - 1 = n - 2 /\ n - 1 >= 1
    BY <1>1
  <2> QED BY <1>1, <1>4, <2>1, <2>2 DEF AddLeft
<1>7. t[n - 1] # BitmapStep
  BY <1>2, <1>6 DEF Adds, BitmapStep
<1>8. \A i \in 1 .. n - 2 : u[i].field # t[1].field
  BY <1>1, <1>2, <1>3, <1>6
<1> QED BY <1>2, <1>5, <1>6, <1>7, <1>8 DEF UploadLeft, u, n

LEMMA UploadsOne ==
  ASSUME BuffersAssumption, NEW t \in Seq(StepSet), UploadLeft(t)
  PROVE  /\ Len(t) \in Nat /\ Len(t) >= 2
         /\ Len(t) = 2 => t[1] = BitmapStep /\ \A kind : AddLeft(Tail(t), kind)
         /\ Len(t) = 2 => Len(Tail(t)) = 1
         /\ Len(t) > 2 => t[1] = ChunkStep /\ UploadLeft(Tail(t)) /\ Len(Tail(t)) = Len(t) - 1
<1> DEFINE u == Tail(t)
           n == Len(t)
<1>1. /\ n \in Nat /\ n >= 2 /\ u \in Seq(StepSet) /\ Len(u) = n - 1
      /\ \A i \in 1 .. n - 1 : u[i] = t[i + 1]
  BY Rest DEF UploadLeft
<1>2. /\ n - 2 <= MaxChunks /\ \A i \in 1 .. n - 2 : t[i] = ChunkStep
      /\ t[n - 1] = BitmapStep /\ t[n] = PushStep
  BY DEF UploadLeft
<1> HIDE DEF u, n
<1>3. CASE n = 2
  <2>1. u[1] = PushStep /\ Len(u) = 1
    BY <1>1, <1>2, <1>3
  <2>2. \A kind : AddLeft(u, kind)
    BY <2>1 DEF AddLeft, Adding
  <2>3. t[1] = BitmapStep
    BY <1>2, <1>3
  <2> QED BY <1>1, <1>3, <2>1, <2>2, <2>3 DEF u, n
<1>4. CASE n > 2
  <2>1. 1 \in 1 .. n - 2 /\ \A i \in 1 .. n - 3 : i + 1 \in 1 .. n - 2 /\ i \in 1 .. n - 1
    BY <1>1, <1>4
  <2>2. \A i \in 1 .. n - 3 : u[i] = ChunkStep
    BY <1>1, <1>2, <2>1
  <2>3. u[n - 2] = BitmapStep /\ u[n - 1] = PushStep
    BY <1>1, <1>2, <1>4
  <2>4. (n - 1) - 2 = n - 3 /\ (n - 1) - 1 = n - 2 /\ n - 1 >= 2
    BY <1>1, <1>4
  <2>6. n - 3 <= MaxChunks
    BY <1>1, <1>2 DEF BuffersAssumption
  <2>5. UploadLeft(u)
    BY <1>1, <2>2, <2>3, <2>4, <2>6 DEF UploadLeft
  <2>7. t[1] = ChunkStep
    BY <1>2, <2>1
  <2> QED BY <1>1, <1>4, <2>5, <2>7 DEF u, n
<1> QED BY <1>1, <1>3, <1>4 DEF n

LEMMA Single ==
  ASSUME NEW S, NEW a \in S
  PROVE  <<a>> \in Seq(S) /\ Len(<<a>>) = 1 /\ <<a>>[1] = a
  OBVIOUS

LEMMA StepIs ==
  ASSUME NEW do \in Dos, NEW s \in Imaged \cup {NoBuffer}, NEW field \in StepFields
  PROVE  /\ Step(do, s, field) = <<[do |-> do, s |-> s, field |-> field]>>
         /\ Step(do, s, field) \in Seq(StepSet) /\ Len(Step(do, s, field)) = 1
         /\ Step(do, s, field)[1] = [do |-> do, s |-> s, field |-> field]
         /\ [do |-> do, s |-> s, field |-> field] \in StepSet
<1> DEFINE a == [do |-> do, s |-> s, field |-> field]
<1>1. a \in StepSet
  BY DEF StepSet
<1>2. Step(do, s, field) = <<a>>
  BY DEF Step
<1> HIDE DEF a
<1>3. <<a>> \in Seq(StepSet) /\ Len(<<a>>) = 1 /\ <<a>>[1] = a
  BY <1>1, Single
<1> QED BY <1>1, <1>2, <1>3 DEF a

FieldsOf(t) == {t[i].field : i \in 1 .. Len(t)}

LEMMA AddingBoth ==
  ASSUME NEW t \in Seq(StepSet), NEW u \in Seq(StepSet), NEW kind,
         Adding(t, Len(t), kind), Adding(u, Len(u), kind), FieldsOf(t) \cap FieldsOf(u) = {}
  PROVE  /\ t \o u \in Seq(StepSet) /\ Adding(t \o u, Len(t \o u), kind)
         /\ FieldsOf(t \o u) \subseteq FieldsOf(t) \cup FieldsOf(u)
<1> DEFINE w == t \o u
           n == Len(t)
           k == Len(u)
<1>1. /\ w \in Seq(StepSet) /\ Len(w) = n + k /\ n \in Nat /\ k \in Nat
      /\ \A i \in 1 .. n + k : w[i] = IF i <= n THEN t[i] ELSE u[i - n]
  BY ConcatProperties, LenProperties
<1>2. /\ \A i \in 1 .. n : Adds(kind, t[i]) /\ t[i].field \in FieldsOf(t)
      /\ \A i \in 1 .. k : Adds(kind, u[i]) /\ u[i].field \in FieldsOf(u)
      /\ \A i, j \in 1 .. n : t[i].field = t[j].field => i = j
      /\ \A i, j \in 1 .. k : u[i].field = u[j].field => i = j
  BY DEF Adding, FieldsOf
<1> HIDE DEF w, n, k
<1>3. \A i \in 1 .. n + k :
        \/ i \in 1 .. n /\ w[i] = t[i]
        \/ i > n /\ i - n \in 1 .. k /\ w[i] = u[i - n]
  BY <1>1
<1>4. \A i \in 1 .. n + k : Adds(kind, w[i])
  BY <1>2, <1>3
<1>5. \A i \in 1 .. n + k : w[i].field \in FieldsOf(t) \cup FieldsOf(u)
  BY <1>2, <1>3
<1>6. ASSUME NEW i \in 1 .. n + k, NEW j \in 1 .. n + k, w[i].field = w[j].field PROVE i = j
  <2>1. CASE i \in 1 .. n /\ w[i] = t[i] /\ j \in 1 .. n /\ w[j] = t[j]
    BY <1>2, <1>6, <2>1
  <2>2. CASE i > n /\ i - n \in 1 .. k /\ w[i] = u[i - n] /\ j > n /\ j - n \in 1 .. k /\ w[j] = u[j - n]
    <3>1. i - n = j - n
      BY <1>2, <1>6, <2>2
    <3> QED BY <1>1, <3>1
  <2>3. CASE i \in 1 .. n /\ w[i] = t[i] /\ j > n /\ j - n \in 1 .. k /\ w[j] = u[j - n]
    BY <1>2, <1>6, <2>3
  <2>4. CASE j \in 1 .. n /\ w[j] = t[j] /\ i > n /\ i - n \in 1 .. k /\ w[i] = u[i - n]
    BY <1>2, <1>6, <2>4
  <2> QED BY <1>3, <2>1, <2>2, <2>3, <2>4
<1>7. Adding(w, Len(w), kind)
  <2>1. Adding(w, n + k, kind)
    BY <1>4, <1>6 DEF Adding
  <2> QED BY <1>1, <2>1
<1>8. FieldsOf(w) \subseteq FieldsOf(t) \cup FieldsOf(u)
  BY <1>1, <1>5 DEF FieldsOf
<1> QED BY <1>1, <1>7, <1>8 DEF w

LEMMA AddingOne ==
  ASSUME NEW step \in StepSet, NEW kind, Adds(kind, step)
  PROVE  /\ <<step>> \in Seq(StepSet) /\ Adding(<<step>>, Len(<<step>>), kind)
         /\ FieldsOf(<<step>>) = {step.field}
  BY DEF Adding, FieldsOf

LEMMA AddingNone ==
  ASSUME NEW kind
  PROVE  /\ <<>> \in Seq(StepSet) /\ Adding(<<>>, Len(<<>>), kind)
         /\ FieldsOf(<<>>) = {}
  BY DEF Adding, FieldsOf

LEMMA AddingEnds ==
  ASSUME NEW t \in Seq(StepSet), NEW kind, Adding(t, Len(t), kind)
  PROVE  AddLeft(t \o <<PushStep>>, kind) /\ t \o <<PushStep>> \in Seq(StepSet)
<1> DEFINE w == t \o <<PushStep>>
           n == Len(t)
<1>0. PushStep \in StepSet
  BY Words DEF PushStep, StepSet
<1>1. /\ w \in Seq(StepSet) /\ Len(w) = n + 1 /\ n \in Nat
      /\ \A i \in 1 .. n + 1 : w[i] = IF i <= n THEN t[i] ELSE <<PushStep>>[i - n]
  <2>1. <<PushStep>> \in Seq(StepSet) /\ Len(<<PushStep>>) = 1
    BY <1>0
  <2> QED BY <2>1, ConcatProperties, LenProperties
<1>2. \A i \in 1 .. n : Adds(kind, t[i])
  BY DEF Adding
<1>3. \A i, j \in 1 .. n : t[i].field = t[j].field => i = j
  BY DEF Adding
<1> HIDE DEF w, n
<1>4. w[n + 1] = PushStep /\ \A i \in 1 .. n : w[i] = t[i]
  BY <1>1
<1>5. Adding(w, n, kind)
  BY <1>2, <1>3, <1>4 DEF Adding
<1>6. (n + 1) - 1 = n /\ n + 1 >= 1
  BY <1>1
<1> QED BY <1>1, <1>4, <1>5, <1>6 DEF AddLeft, w

LEMMA TransformAdds ==
  ASSUME NEW transformed \in BOOLEAN, NEW field \in {"src_transform", "mask_transform"}
  PROVE  /\ Transform(transformed, field) \in Seq(StepSet)
         /\ Adding(Transform(transformed, field), Len(Transform(transformed, field)), "composite")
         /\ FieldsOf(Transform(transformed, field)) \subseteq {field}
<1>1. CASE transformed
  <2> DEFINE step == [do |-> "transform", s |-> NoBuffer, field |-> field]
  <2>1. Transform(transformed, field) = <<step>>
    BY <1>1 DEF Transform, Step
  <2>2. step \in StepSet /\ Adds("composite", step) /\ step.field = field
    BY Words DEF StepSet, Adds
  <2> HIDE DEF step
  <2> QED BY <2>1, <2>2, AddingOne
<1>2. CASE ~transformed
  BY <1>2, AddingNone DEF Transform
<1> QED BY <1>1, <1>2

LEMMA SurfaceAdds ==
  ASSUME NEW s \in Imaged, NEW field \in {"src", "mask"}
  PROVE  /\ Step("surface", s, field) \in Seq(StepSet)
         /\ Adding(Step("surface", s, field), Len(Step("surface", s, field)), "composite")
         /\ FieldsOf(Step("surface", s, field)) = {field}
<1> DEFINE step == [do |-> "surface", s |-> s, field |-> field]
<1>1. Step("surface", s, field) = <<step>>
  BY DEF Step
<1>2. step \in StepSet /\ Adds("composite", step) /\ step.field = field
  BY Words DEF StepSet, Adds
<1> HIDE DEF step
<1> QED BY <1>1, <1>2, AddingOne

LEMMA CompositeBegins ==
  ASSUME NEW s \in Imaged, NEW mask \in Imaged \cup {NoBuffer}, NEW transformed \in BOOLEAN
  PROVE  \E t \in Seq(StepSet) :
           /\ Composite(s, mask, transformed) = Command("composite") \o t
           /\ Adding(t, Len(t), "composite")
<1> DEFINE c == Command("composite")
           p == Step("surface", s, "src")
           q == Transform(transformed, "src_transform")
           p2 == Step("surface", mask, "mask")
           q2 == Transform(transformed, "mask_transform")
           r == IF mask = NoBuffer THEN <<>> ELSE p2 \o q2
<1>1. Composite(s, mask, transformed) = ((c \o p) \o q) \o r
  BY DEF Composite
<1>2. c \in Seq(StepSet)
  BY Words, StepIs DEF Command
<1>3. /\ p \in Seq(StepSet) /\ Adding(p, Len(p), "composite") /\ FieldsOf(p) = {"src"}
      /\ q \in Seq(StepSet) /\ Adding(q, Len(q), "composite") /\ FieldsOf(q) \subseteq {"src_transform"}
  BY SurfaceAdds, TransformAdds
<1>4. /\ r \in Seq(StepSet) /\ Adding(r, Len(r), "composite")
      /\ FieldsOf(r) \subseteq {"mask", "mask_transform"}
  <2>1. CASE mask = NoBuffer
    BY <2>1, AddingNone
  <2>2. CASE mask # NoBuffer
    <3>1. /\ p2 \in Seq(StepSet) /\ Adding(p2, Len(p2), "composite") /\ FieldsOf(p2) = {"mask"}
          /\ q2 \in Seq(StepSet) /\ Adding(q2, Len(q2), "composite")
          /\ FieldsOf(q2) \subseteq {"mask_transform"}
      BY <2>2, SurfaceAdds, TransformAdds
    <3> HIDE DEF p2, q2
    <3>2. FieldsOf(p2) \cap FieldsOf(q2) = {}
      BY <3>1
    <3> QED BY <2>2, <3>1, <3>2, AddingBoth
  <2> QED BY <2>1, <2>2
<1> HIDE DEF c, p, q, r
<1>5. FieldsOf(p) \cap FieldsOf(q) = {}
  BY <1>3
<1>6. /\ p \o q \in Seq(StepSet) /\ Adding(p \o q, Len(p \o q), "composite")
      /\ FieldsOf(p \o q) \subseteq FieldsOf(p) \cup FieldsOf(q)
  BY <1>3, <1>5, AddingBoth
<1>7. FieldsOf(p \o q) \cap FieldsOf(r) = {}
  BY <1>3, <1>4, <1>6
<1>8. (p \o q) \o r \in Seq(StepSet) /\ Adding((p \o q) \o r, Len((p \o q) \o r), "composite")
  BY <1>4, <1>6, <1>7, AddingBoth
<1>9. ((c \o p) \o q) \o r = c \o ((p \o q) \o r)
  <2>1. (c \o p) \o q = c \o (p \o q)
    BY <1>2, <1>3, ConcatAssociative
  <2>2. (c \o (p \o q)) \o r = c \o ((p \o q) \o r)
    <3> DEFINE pq == p \o q
    <3>1. pq \in Seq(StepSet)
      BY <1>6
    <3> HIDE DEF pq
    <3>2. (c \o pq) \o r = c \o (pq \o r)
      BY <1>2, <1>4, <3>1, ConcatAssociative
    <3> QED BY <3>2 DEF pq
  <2> QED BY <2>1, <2>2
<1> QED BY <1>1, <1>8, <1>9 DEF c

(* A command that adds fields to the first step, and the push.             *)
LEMMA AddingBegins ==
  ASSUME NEW kind \in {"plain", "composite", "cursor"}, NEW t \in Seq(StepSet),
         Adding(t, Len(t), kind)
  PROVE  /\ (Command(kind) \o t) \o <<PushStep>> \in Seq(StepSet)
         /\ Begun((Command(kind) \o t) \o <<PushStep>>)
<1> DEFINE a == [do |-> kind, s |-> NoBuffer, field |-> "none"]
           u == t \o <<PushStep>>
<1>1. Command(kind) = <<a>> /\ a \in StepSet /\ a.do = kind
  BY Words DEF Command, Step, StepSet
<1>2. PushStep \in StepSet
  BY Words DEF PushStep, StepSet
<1>3. <<PushStep>> \in Seq(StepSet) /\ <<a>> \in Seq(StepSet)
  <2> HIDE DEF a
  <2> QED BY <1>1, <1>2, Single
<1>4. u \in Seq(StepSet) /\ AddLeft(u, kind) /\ Len(u) \in Nat
  BY AddingEnds
<1> HIDE DEF a
<1>5. (<<a>> \o t) \o <<PushStep>> = <<a>> \o u
  BY <1>3, ConcatAssociative
<1> HIDE DEF u
<1>6. /\ <<a>> \o u \in Seq(StepSet) /\ Len(<<a>> \o u) = Len(u) + 1
      /\ (<<a>> \o u)[1] = a /\ Tail(<<a>> \o u) = u
  BY <1>1, <1>4, After
<1>7. Len(u) >= 1
  BY <1>4 DEF AddLeft
<1>8. Begun(<<a>> \o u)
  <2>1. Len(<<a>> \o u) >= 2
    BY <1>4, <1>6, <1>7
  <2> QED BY <1>1, <1>4, <1>6, <2>1 DEF Begun
<1> QED BY <1>1, <1>5, <1>6, <1>8

LEMMA UploadBegins ==
  ASSUME BuffersAssumption, NEW n \in 1 .. MaxChunks
  PROVE  Upload(n) \o <<PushStep>> \in Seq(StepSet) /\ Begun(Upload(n) \o <<PushStep>>)
<1> DEFINE a == [do |-> "copy", s |-> NoBuffer, field |-> "none"]
           ch == [i \in 1 .. n |-> ChunkStep]
           u == ch \o <<BitmapStep>>
           w == u \o <<PushStep>>
<1>0. n \in Nat /\ n >= 1 /\ n <= MaxChunks
  BY DEF BuffersAssumption
<1>1. a \in StepSet /\ ChunkStep \in StepSet /\ BitmapStep \in StepSet /\ PushStep \in StepSet
  BY Words DEF ChunkStep, BitmapStep, PushStep, StepSet
<1>2. /\ <<a>> \in Seq(StepSet) /\ <<BitmapStep>> \in Seq(StepSet) /\ <<PushStep>> \in Seq(StepSet)
      /\ Len(<<BitmapStep>>) = 1 /\ Len(<<PushStep>>) = 1
      /\ <<BitmapStep>>[1] = BitmapStep /\ <<PushStep>>[1] = PushStep
  <2> HIDE DEF a
  <2> QED BY <1>1, Single
<1>3. ch \in Seq(StepSet) /\ Len(ch) = n /\ \A i \in 1 .. n : ch[i] = ChunkStep
  <2>1. ch \in [1 .. n -> StepSet]
    BY <1>1
  <2>2. ch \in Seq(StepSet) /\ Len(ch) = n
    BY <1>0, <2>1
  <2>3. \A i \in 1 .. n : ch[i] = ChunkStep
    OBVIOUS
  <2> QED BY <2>2, <2>3
<1>4. Upload(n) = (<<a>> \o ch) \o <<BitmapStep>>
  <2>1. Step("chunk", NoBuffer, "none")[1] = ChunkStep /\ Step("bitmap", NoBuffer, "src") = <<BitmapStep>>
        /\ Command("copy") = <<a>>
    BY DEF Step, Command, ChunkStep, BitmapStep
  <2> QED BY <2>1 DEF Upload
<1> HIDE DEF a, ch
<1>5. /\ u \in Seq(StepSet) /\ Len(u) = n + 1 /\ u[n + 1] = BitmapStep
      /\ \A i \in 1 .. n : u[i] = ChunkStep
  <2>1. /\ u \in Seq(StepSet) /\ Len(u) = n + 1
        /\ \A i \in 1 .. n + 1 : u[i] = IF i <= n THEN ch[i] ELSE <<BitmapStep>>[i - n]
    BY <1>2, <1>3, ConcatProperties
  <2> HIDE DEF u
  <2> QED BY <1>0, <1>2, <1>3, <2>1
<1>6. Upload(n) \o <<PushStep>> = <<a>> \o w
  <2>1. (<<a>> \o ch) \o <<BitmapStep>> = <<a>> \o u
    BY <1>2, <1>3, ConcatAssociative
  <2> HIDE DEF u
  <2>2. (<<a>> \o u) \o <<PushStep>> = <<a>> \o (u \o <<PushStep>>)
    BY <1>2, <1>5, ConcatAssociative
  <2> QED BY <1>4, <2>1, <2>2
<1> HIDE DEF u
<1>7. /\ w \in Seq(StepSet) /\ Len(w) = n + 2 /\ w[n + 2] = PushStep /\ w[n + 1] = BitmapStep
      /\ \A i \in 1 .. n : w[i] = ChunkStep
  <2>1. /\ w \in Seq(StepSet) /\ Len(w) = n + 1 + 1
        /\ \A i \in 1 .. n + 1 + 1 : w[i] = IF i <= n + 1 THEN u[i] ELSE <<PushStep>>[i - (n + 1)]
    BY <1>2, <1>5, ConcatProperties
  <2> HIDE DEF w
  <2> QED BY <1>0, <1>2, <1>5, <2>1
<1> HIDE DEF w
<1>8. UploadLeft(w)
  <2>1. (n + 2) - 2 = n /\ (n + 2) - 1 = n + 1 /\ n + 2 >= 2
    BY <1>0
  <2> QED BY <1>0, <1>7, <2>1 DEF UploadLeft
<1>9. /\ <<a>> \o w \in Seq(StepSet) /\ Len(<<a>> \o w) = n + 2 + 1
      /\ (<<a>> \o w)[1] = a /\ Tail(<<a>> \o w) = w
  BY <1>1, <1>7, After
<1>10. a.do = "copy" /\ n + 2 + 1 >= 4
  BY <1>0 DEF a
<1>11. Begun(<<a>> \o w)
  <2>1. Len(<<a>> \o w) >= 2
    BY <1>0, <1>9
  <2> QED BY <1>8, <1>9, <1>10, <2>1 DEF Begun
<1> QED BY <1>6, <1>9, <1>11

LEMMA ThreeSteps ==
  ASSUME NEW S, NEW a \in S, NEW c \in S, NEW p \in S
  PROVE  /\ (<<a>> \o <<c>>) \o <<p>> \in Seq(S) /\ Len((<<a>> \o <<c>>) \o <<p>>) = 3
         /\ ((<<a>> \o <<c>>) \o <<p>>)[1] = a
         /\ ((<<a>> \o <<c>>) \o <<p>>)[2] = c
         /\ ((<<a>> \o <<c>>) \o <<p>>)[3] = p
<1> DEFINE x == <<a>>
           y == <<c>>
           z == <<p>>
<1>1. x \in Seq(S) /\ y \in Seq(S) /\ z \in Seq(S) /\ Len(x) = 1 /\ Len(y) = 1 /\ Len(z) = 1
      /\ x[1] = a /\ y[1] = c /\ z[1] = p
  OBVIOUS
<1> HIDE DEF x, y, z
<1> DEFINE v == x \o y
           w == v \o z
<1>2. v \in Seq(S) /\ Len(v) = 2 /\ \A i \in 1 .. 2 : v[i] = IF i <= 1 THEN x[i] ELSE y[i - 1]
  BY <1>1, ConcatProperties
<1> HIDE DEF v
<1>3. w \in Seq(S) /\ Len(w) = 3 /\ \A i \in 1 .. 3 : w[i] = IF i <= 2 THEN v[i] ELSE z[i - 2]
  BY <1>1, <1>2, ConcatProperties
<1> HIDE DEF w
<1>4. w[1] = a /\ w[2] = c /\ w[3] = p
  BY <1>1, <1>2, <1>3
<1> QED BY <1>3, <1>4, Zenon DEF v, w, x, y, z

LEMMA CommandBegins ==
  ASSUME BuffersAssumption, NEW command \in Commands
  PROVE  /\ command \o Step("push", NoBuffer, "none") \in Seq(StepSet)
         /\ Begun(command \o Step("push", NoBuffer, "none"))
<1>0. Step("push", NoBuffer, "none") = <<PushStep>>
  BY DEF Step, PushStep
<1>1. ASSUME command = Plain
      PROVE  command \o <<PushStep>> \in Seq(StepSet) /\ Begun(command \o <<PushStep>>)
  <2>1. Command("plain") \o <<>> = Plain
    BY DEF Command, Step, Plain
  <2> QED BY <1>1, <2>1, AddingNone, AddingBegins
<1>2. ASSUME command = SetCursor
      PROVE  command \o <<PushStep>> \in Seq(StepSet) /\ Begun(command \o <<PushStep>>)
  <2> DEFINE step == [do |-> "shape", s |-> NoBuffer, field |-> "shape"]
  <2>1. step \in StepSet /\ Adds("cursor", step)
    BY Words DEF StepSet, Adds
  <2>2. SetCursor = Command("cursor") \o <<step>>
    BY DEF SetCursor, Step
  <2> HIDE DEF step
  <2> QED BY <1>2, <2>1, <2>2, AddingOne, AddingBegins
<1>3. ASSUME NEW n \in 1 .. MaxChunks, command = Upload(n)
      PROVE  command \o <<PushStep>> \in Seq(StepSet) /\ Begun(command \o <<PushStep>>)
  BY <1>3, UploadBegins
<1>4. ASSUME NEW s \in Imaged, command = CopyFrom(s)
      PROVE  command \o <<PushStep>> \in Seq(StepSet) /\ Begun(command \o <<PushStep>>)
  <2> DEFINE a == [do |-> "surface", s |-> s, field |-> "none"]
             t == command \o <<PushStep>>
  <2>1. CopyFrom(s) = <<a>> \o <<CopyStep>>
    BY DEF CopyFrom, Command, Step, CopyStep
  <2>2. /\ a \in StepSet /\ CopyStep \in StepSet /\ PushStep \in StepSet
        /\ a.do = "surface" /\ a.s = s /\ a.field = "none"
    BY Words DEF StepSet, CopyStep, PushStep
  <2> HIDE DEF a
  <2>3. /\ t \in Seq(StepSet) /\ Len(t) = 3
        /\ t[1] = a /\ t[2] = CopyStep /\ t[3] = PushStep
    <3>1. t = (<<a>> \o <<CopyStep>>) \o <<PushStep>>
      BY <1>4, <2>1
    <3> HIDE DEF t
    <3> QED BY <2>2, <3>1, ThreeSteps
  <2> HIDE DEF t
  <2>4. t[1].do = "surface" /\ t[1].s = s /\ t[1].field = "none" /\ Len(t) >= 2
    BY <2>2, <2>3
  <2>5. Begun(t)
    BY <2>3, <2>4 DEF Begun
  <2> QED BY <2>3, <2>5 DEF t
<1>5. ASSUME NEW s \in Imaged, NEW mask \in Imaged \cup {NoBuffer}, NEW transformed \in BOOLEAN,
             command = Composite(s, mask, transformed)
      PROVE  command \o <<PushStep>> \in Seq(StepSet) /\ Begun(command \o <<PushStep>>)
  <2>1. PICK t \in Seq(StepSet) : /\ command = Command("composite") \o t
                                  /\ Adding(t, Len(t), "composite")
    BY <1>5, CompositeBegins
  <2> QED BY <2>1, AddingBegins
<1>6. \/ command = Plain \/ command = SetCursor
      \/ \E n \in 1 .. MaxChunks : command = Upload(n)
      \/ \E s \in Imaged : command = CopyFrom(s)
      \/ \E s \in Imaged, mask \in Imaged \cup {NoBuffer}, transformed \in BOOLEAN :
           command = Composite(s, mask, transformed)
  BY DEF Commands
<1>7. command \o <<PushStep>> \in Seq(StepSet) /\ Begun(command \o <<PushStep>>)
  BY <1>1, <1>2, <1>3, <1>4, <1>5, <1>6
<1> QED BY <1>0, <1>7

CopyTail == <<CopyStep, PushStep>>

Stage(t, u, H, l) ==
  \/ t = <<>> /\ u = NoBuffer /\ H = <<>> /\ l = NoBuffer
  \/ Begun(t) /\ u = NoBuffer /\ H = <<>> /\ l = NoBuffer
  \/ t = CopyTail /\ u = NoBuffer /\ l = NoBuffer /\ Len(H) = 1
  \/ /\ UploadLeft(t) /\ u # NoBuffer
     /\ IF l = NoBuffer THEN H = <<>> /\ Len(t) >= 3 ELSE Len(H) = 1
  \/ (\E k \in CommandKinds : AddLeft(t, k)) /\ u # NoBuffer /\ l = NoBuffer

(* What holds with the VT and without.                                     *)
Staged ==
  /\ todo \in Seq(StepSet) /\ held \in Seq(Buffers)
  /\ building \in Somewhere /\ tail \in Somewhere /\ image \in [Imaged -> Somewhere]
  /\ Stage(todo, building, held, tail)

LEMMA CopyLeft ==
  /\ CopyTail \in Seq(StepSet) /\ Len(CopyTail) = 2
  /\ CopyTail[1] = CopyStep /\ CopyTail[2] = PushStep
<1>1. CopyStep \in StepSet /\ PushStep \in StepSet
  BY Words DEF CopyStep, PushStep, StepSet
<1> QED BY <1>1 DEF CopyTail

LEMMA StepWords ==
  /\ PushStep.do = "push" /\ ChunkStep.do = "chunk" /\ BitmapStep.do = "bitmap"
  /\ CopyStep.do = "copy_surface" /\ BitmapStep.field = "src" /\ CopyStep.field = "none"
  /\ PushStep.field = "none" /\ ChunkStep.field = "none"
  BY DEF PushStep, ChunkStep, BitmapStep, CopyStep

LEMMA AddReads ==
  ASSUME NEW t \in Seq(StepSet), NEW k, AddLeft(t, k)
  PROVE  /\ Len(t) \in Nat /\ Len(t) >= 1
         /\ t[1].do \in {"push", "surface", "transform", "shape"}
         /\ t[1].do = "push" <=> Len(t) = 1
         /\ t[1].do # "push" => Adds(k, t[1])
<1>1. Len(t) \in Nat /\ Len(t) >= 1
  BY LenProperties DEF AddLeft
<1>2. CASE Len(t) = 1
  <2>1. t[1] = PushStep
    BY <1>2 DEF AddLeft
  <2> QED BY <1>2, <2>1, StepWords
<1>3. CASE Len(t) # 1
  <2>1. Adds(k, t[1])
    <3> DEFINE n == Len(t)
    <3>0. n \in Nat /\ n >= 1 /\ n # 1
      BY <1>1, <1>3
    <3>2. \A i \in 1 .. n - 1 : Adds(k, t[i])
      BY DEF AddLeft, Adding
    <3> HIDE DEF n
    <3>1. 1 \in 1 .. n - 1
      BY <3>0
    <3> QED BY <3>1, <3>2
  <2> QED BY <1>1, <1>3, <2>1 DEF Adds
<1> QED BY <1>1, <1>2, <1>3

(* Where X is, from the step at hand.                                      *)
LEMMA StageReads ==
  ASSUME BuffersAssumption, NEW t \in Seq(StepSet), t # <<>>, NEW u, NEW H, NEW l, Stage(t, u, H, l)
  PROVE  /\ t[1].do \in CommandKinds =>
              /\ u = NoBuffer /\ l = NoBuffer
              /\ \/ Begun(t) /\ H = <<>> /\ t[1].do \in {"plain", "copy", "composite", "cursor"}
                 \/ t = CopyTail /\ Len(H) = 1
         /\ t[1].do = "chunk" =>
              UploadLeft(t) /\ Len(t) >= 3 /\ u # NoBuffer /\ t[1] = ChunkStep
         /\ t[1].do = "bitmap" =>
              UploadLeft(t) /\ Len(t) = 2 /\ u # NoBuffer /\ l # NoBuffer /\ Len(H) = 1 /\ t[1] = BitmapStep
         /\ t[1].do \in {"transform", "shape", "push"} =>
              /\ u # NoBuffer /\ l = NoBuffer /\ \E k \in CommandKinds : AddLeft(t, k)
              /\ t[1].do # "push" => Len(t) >= 2 /\ ~UploadLeft(t)
         /\ t[1].do = "surface" =>
              \/ Begun(t) /\ u = NoBuffer /\ H = <<>> /\ l = NoBuffer
              \/ /\ Len(t) >= 2 /\ u # NoBuffer /\ l = NoBuffer /\ ~UploadLeft(t)
                 /\ \E k \in CommandKinds : AddLeft(t, k)
<1>0. CommandKinds = {"plain", "copy", "copy_surface", "composite", "cursor"}
  BY DEF CommandKinds
<1>1. CASE Begun(t) /\ u = NoBuffer /\ H = <<>> /\ l = NoBuffer
  <2>1. t[1].do \in {"plain", "copy", "composite", "cursor", "surface"}
    BY <1>1 DEF Begun
  <2> QED BY <1>0, <1>1, <2>1
<1>2. CASE t = CopyTail /\ u = NoBuffer /\ l = NoBuffer /\ Len(H) = 1
  <2>1. t[1].do = "copy_surface"
    BY <1>2, CopyLeft, StepWords
  <2>2. t[1].do \notin {"chunk", "bitmap", "transform", "shape", "push", "surface"}
    BY <2>1
  <2> QED BY <1>2, <2>2
<1>3. CASE /\ UploadLeft(t) /\ u # NoBuffer
           /\ IF l = NoBuffer THEN H = <<>> /\ Len(t) >= 3 ELSE Len(H) = 1
  <2>1. /\ Len(t) \in Nat /\ Len(t) >= 2
        /\ Len(t) = 2 => t[1] = BitmapStep
        /\ Len(t) > 2 => t[1] = ChunkStep
    BY <1>3, UploadsOne
  <2>2. \/ Len(t) = 2 /\ t[1] = BitmapStep /\ t[1].do = "bitmap"
        \/ Len(t) >= 3 /\ t[1] = ChunkStep /\ t[1].do = "chunk"
    <3> DEFINE n == Len(t)
    <3>1. n \in Nat /\ n >= 2
      BY <2>1
    <3> HIDE DEF n
    <3>2. n = 2 \/ (n > 2 /\ n >= 3)
      BY <3>1
    <3>3. Len(t) = 2 \/ (Len(t) > 2 /\ Len(t) >= 3)
      BY <3>2 DEF n
    <3>4. CASE Len(t) = 2
      BY <2>1, <3>4, StepWords, Zenon
    <3>5. CASE Len(t) > 2 /\ Len(t) >= 3
      BY <2>1, <3>5, StepWords, Zenon
    <3> QED BY <3>3, <3>4, <3>5
  <2>3. CASE Len(t) = 2 /\ t[1] = BitmapStep /\ t[1].do = "bitmap"
    <3>1. l # NoBuffer /\ Len(H) = 1
      BY <1>3, <2>3
    <3>2. t[1].do \notin CommandKinds /\ t[1].do \notin {"chunk", "transform", "shape", "push", "surface"}
      BY <1>0, <2>3
    <3> QED BY <1>3, <2>3, <3>1, <3>2
  <2>4. CASE Len(t) >= 3 /\ t[1] = ChunkStep /\ t[1].do = "chunk"
    <3>2. t[1].do \notin CommandKinds /\ t[1].do \notin {"bitmap", "transform", "shape", "push", "surface"}
      BY <1>0, <2>4
    <3> QED BY <1>3, <2>4, <3>2
  <2> QED BY <2>2, <2>3, <2>4
<1>4. CASE (\E k \in CommandKinds : AddLeft(t, k)) /\ u # NoBuffer /\ l = NoBuffer
  <2>1. PICK k \in CommandKinds : AddLeft(t, k)
    BY <1>4
  <2>2. /\ Len(t) \in Nat /\ Len(t) >= 1 /\ t[1].do \in {"push", "surface", "transform", "shape"}
        /\ t[1].do = "push" <=> Len(t) = 1
    BY <2>1, AddReads
  <2>3. Len(t) >= 2 => ~UploadLeft(t)
    BY <2>1, AddsOne
  <2>7. Len(t) # 1 => Len(t) >= 2
    <3> DEFINE n == Len(t)
    <3>1. n \in Nat /\ n >= 1
      BY <2>2
    <3> HIDE DEF n
    <3>2. n # 1 => n >= 2
      BY <3>1
    <3> QED BY <3>2 DEF n
  <2>4. t[1].do # "push" => Len(t) >= 2 /\ ~UploadLeft(t)
    BY <2>2, <2>3, <2>7
  <2>5. t[1].do \notin CommandKinds /\ t[1].do \notin {"chunk", "bitmap"}
    BY <1>0, <2>2
  <2>6. t[1].do = "surface" => t[1].do # "push"
    OBVIOUS
  <2> QED BY <1>4, <2>4, <2>5, <2>6
<1> QED BY <1>1, <1>2, <1>3, <1>4 DEF Stage

LEMMA NewBufferIs ==
  ASSUME FreeIn(mem) # {}
  PROVE  NewBuffer \in Buffers /\ mem[NewBuffer].kind = "none" /\ NewBuffer # NoBuffer
<1>1. FreeIn(mem) \in SUBSET Nat
  BY FieldsAre DEF FreeIn
<1>2. \E n \in FreeIn(mem) : \A x \in FreeIn(mem) : n <= x
  BY <1>1, LeastNumber
<1>3. NewBuffer \in FreeIn(mem)
  BY <1>2 DEF NewBuffer, Min
<1> QED BY <1>3, FieldsAre DEF FreeIn

LEMMA AppendIs ==
  ASSUME NEW S, NEW H \in Seq(S), NEW b \in S
  PROVE  /\ Append(H, b) \in Seq(S) /\ Len(Append(H, b)) = Len(H) + 1
         /\ DOMAIN H = 1 .. Len(H) /\ Len(H) \in Nat
         /\ DOMAIN Append(H, b) = DOMAIN H \cup {Len(H) + 1} /\ Len(H) + 1 \notin DOMAIN H
         /\ Append(H, b)[Len(H) + 1] = b /\ \A i \in DOMAIN H : Append(H, b)[i] = H[i]
<1>1. /\ Append(H, b) \in Seq(S) /\ Len(Append(H, b)) = Len(H) + 1 /\ Len(H) \in Nat
      /\ Append(H, b)[Len(H) + 1] = b /\ \A i \in 1 .. Len(H) : Append(H, b)[i] = H[i]
  BY AppendProperties, LenProperties
<1>2. DOMAIN H = 1 .. Len(H) /\ DOMAIN Append(H, b) = 1 .. (Len(H) + 1)
  BY <1>1, LenProperties
<1> QED BY <1>1, <1>2

LEMMA PushLeft ==
  \A k : AddLeft(<<PushStep>>, k)
<1>1. Len(<<PushStep>>) = 1 /\ <<PushStep>>[1] = PushStep
  OBVIOUS
<1> QED BY <1>1 DEF AddLeft, Adding

LEMMA StageIdle ==
  ASSUME BuffersAssumption, NEW u, NEW H, NEW l, Stage(<<>>, u, H, l)
  PROVE  u = NoBuffer /\ H = <<>> /\ l = NoBuffer
<1>1. Len(<<>>) = 0
  OBVIOUS
<1>2. ~Begun(<<>>) /\ ~UploadLeft(<<>>) /\ \A k : ~AddLeft(<<>>, k)
  BY <1>1 DEF Begun, UploadLeft, AddLeft
<1>3. <<>> # CopyTail
  BY <1>1, CopyLeft
<1> QED BY <1>2, <1>3 DEF Stage

(* What is left after each step.                                           *)
LEMMA CommandTaken ==
  ASSUME BuffersAssumption, NEW t \in Seq(StepSet), t # <<>>, NEW H, NEW l, NEW v,
         Stage(t, v, H, l), t[1].do \in CommandKinds
  PROVE  /\ l = NoBuffer /\ v = NoBuffer
         /\ \/ /\ t[1].do = "copy" /\ H = <<>>
               /\ UploadLeft(Tail(t)) /\ Len(Tail(t)) >= 3
            \/ /\ t[1].do \in {"plain", "composite", "cursor"} /\ H = <<>>
               /\ AddLeft(Tail(t), t[1].do)
            \/ /\ t[1].do = "copy_surface" /\ Len(H) = 1 /\ Tail(t) = <<PushStep>>
         /\ \A u \in Buffers : Stage(Tail(t), u, H, l)
<1>0. NoBuffer \notin Buffers
  BY FieldsAre
<1>1. /\ l = NoBuffer /\ v = NoBuffer
      /\ \/ Begun(t) /\ H = <<>> /\ t[1].do \in {"plain", "copy", "composite", "cursor"}
         \/ t = CopyTail /\ Len(H) = 1
  BY StageReads
<1>2. CASE Begun(t) /\ H = <<>> /\ t[1].do = "copy"
  <2>1. UploadLeft(Tail(t)) /\ Len(t) >= 4
    BY <1>2 DEF Begun
  <2>2. Len(Tail(t)) >= 3
    <3> DEFINE n == Len(t)
               k == Len(Tail(t))
    <3>1. n \in Nat /\ n >= 4 /\ k = n - 1
      BY <2>1, Rest
    <3> HIDE DEF n, k
    <3>2. k >= 3
      BY <3>1
    <3> QED BY <3>2 DEF k
  <2> QED BY <1>0, <1>1, <1>2, <2>1, <2>2 DEF Stage
<1>3. CASE Begun(t) /\ H = <<>> /\ t[1].do \in {"plain", "composite", "cursor"}
  <2>1. AddLeft(Tail(t), t[1].do) /\ t[1].do \in CommandKinds
    BY <1>3 DEF Begun
  <2> QED BY <1>0, <1>1, <1>3, <2>1 DEF Stage
<1>4. CASE t = CopyTail /\ Len(H) = 1
  <2>1. t[1].do = "copy_surface"
    BY <1>4, CopyLeft, StepWords
  <2>2. Tail(t) = <<PushStep>>
    BY <1>4 DEF CopyTail
  <2>3. AddLeft(Tail(t), "copy_surface") /\ "copy_surface" \in CommandKinds
    BY <2>2, PushLeft DEF CommandKinds
  <2> QED BY <1>0, <1>1, <1>4, <2>1, <2>2, <2>3 DEF Stage
<1> QED BY <1>1, <1>2, <1>3, <1>4

LEMMA ChunkTaken ==
  ASSUME BuffersAssumption, NEW t \in Seq(StepSet), t # <<>>, NEW u, NEW H, NEW l,
         Stage(t, u, H, l), t[1].do = "chunk"
  PROVE  /\ UploadLeft(t) /\ Len(t) >= 3 /\ u # NoBuffer /\ UploadLeft(Tail(t))
         /\ Len(t) \in Nat /\ Len(Tail(t)) = Len(t) - 1
         /\ IF l = NoBuffer THEN H = <<>> ELSE Len(H) = 1
         /\ \A b \in Buffers : \A H2 : Len(H2) = 1 => Stage(Tail(t), u, H2, b)
<1>0. NoBuffer \notin Buffers
  BY FieldsAre
<1>1. UploadLeft(t) /\ Len(t) >= 3 /\ u # NoBuffer
  BY StageReads
<1>2. Len(t) \in Nat /\ UploadLeft(Tail(t)) /\ Len(Tail(t)) = Len(t) - 1
  BY <1>1, UploadsOne
<1>3. IF l = NoBuffer THEN H = <<>> ELSE Len(H) = 1
  <2>1. ~Begun(t) \/ u # NoBuffer
    BY <1>1
  <2>2. \A k : ~AddLeft(t, k)
    BY <1>1, AddsOne
  <2> QED BY <1>1, <2>2, CopyLeft DEF Stage
<1> QED BY <1>0, <1>1, <1>2, <1>3 DEF Stage

LEMMA BitmapTaken ==
  ASSUME BuffersAssumption, NEW t \in Seq(StepSet), t # <<>>, NEW u, NEW H, NEW l,
         Stage(t, u, H, l), t[1].do = "bitmap"
  PROVE  /\ UploadLeft(t) /\ Len(t) = 2 /\ u # NoBuffer /\ l # NoBuffer /\ Len(H) = 1
         /\ t[1].field = "src" /\ Len(Tail(t)) = 1
         /\ \A k : AddLeft(Tail(t), k)
         /\ \A H2 : Stage(Tail(t), u, H2, NoBuffer)
<1>1. UploadLeft(t) /\ Len(t) = 2 /\ u # NoBuffer /\ l # NoBuffer /\ Len(H) = 1 /\ t[1] = BitmapStep
  BY StageReads
<1>2. (\A k : AddLeft(Tail(t), k)) /\ Len(Tail(t)) = 1
  BY <1>1, UploadsOne
<1>3. "copy" \in CommandKinds
  BY DEF CommandKinds
<1>4. \A H2 : Stage(Tail(t), u, H2, NoBuffer)
  BY <1>1, <1>2, <1>3 DEF Stage
<1> QED BY <1>1, <1>2, <1>4, StepWords

LEMMA FieldTaken ==
  ASSUME BuffersAssumption, NEW t \in Seq(StepSet), t # <<>>, NEW u, NEW H, NEW l,
         Stage(t, u, H, l), u # NoBuffer, t[1].do \in {"surface", "transform", "shape"}
  PROVE  /\ l = NoBuffer /\ ~UploadLeft(t) /\ Len(t) >= 2
         /\ \A k \in CommandKinds : AddLeft(t, k) =>
              AddLeft(Tail(t), k) /\ ~UploadLeft(Tail(t)) /\ Adds(k, t[1])
         /\ \A H2 : Stage(Tail(t), u, H2, l)
<1>1. /\ u # NoBuffer /\ l = NoBuffer /\ ~UploadLeft(t) /\ Len(t) >= 2
      /\ \E k \in CommandKinds : AddLeft(t, k)
  BY StageReads
<1>2. ASSUME NEW k, AddLeft(t, k) PROVE AddLeft(Tail(t), k) /\ ~UploadLeft(Tail(t)) /\ Adds(k, t[1])
  <2>1. AddLeft(Tail(t), k) /\ Adds(k, t[1]) /\ Tail(t) \in Seq(StepSet)
    BY <1>1, <1>2, AddsOne, Rest
  <2>2. Len(Tail(t)) >= 2 => ~UploadLeft(Tail(t))
    BY <2>1, AddsOne
  <2>3. UploadLeft(Tail(t)) => Len(Tail(t)) >= 2
    BY DEF UploadLeft
  <2> QED BY <2>1, <2>2, <2>3
<1> QED BY <1>1, <1>2 DEF Stage

LEMMA SourceTaken ==
  ASSUME BuffersAssumption, NEW t \in Seq(StepSet), t # <<>>, NEW H, NEW l,
         Stage(t, NoBuffer, H, l), t[1].do = "surface"
  PROVE  /\ l = NoBuffer /\ H = <<>> /\ t[1].s \in Imaged /\ t[1].field = "none"
         /\ Tail(t) = CopyTail
         /\ \A H2 : Len(H2) = 1 => Stage(Tail(t), NoBuffer, H2, l)
<1>1. Begun(t) /\ H = <<>> /\ l = NoBuffer
  BY StageReads
<1>2. /\ t[1].s \in Imaged /\ t[1].field = "none" /\ t[2] = CopyStep
      /\ Len(t) = 3 /\ t[3] = PushStep
  BY <1>1 DEF Begun
<1>3. Tail(t) \in Seq(StepSet) /\ Len(Tail(t)) = 2 /\ \A i \in 1 .. 2 : Tail(t)[i] = t[i + 1]
  BY <1>2, Rest
<1>4. Tail(t)[1] = CopyStep /\ Tail(t)[2] = PushStep
  BY <1>2, <1>3
<1>5. Tail(t) = CopyTail
  <2>1. ASSUME NEW i \in 1 .. 2 PROVE Tail(t)[i] = CopyTail[i]
    <3>1. i = 1 \/ i = 2
      OBVIOUS
    <3> QED BY <1>4, <3>1, CopyLeft
  <2> QED BY <1>3, <2>1, CopyLeft, SeqEqual
<1> QED BY <1>1, <1>2, <1>5 DEF Stage

LEMMA PushTaken ==
  ASSUME BuffersAssumption, NEW t \in Seq(StepSet), t # <<>>, NEW u, NEW H, NEW l,
         Stage(t, u, H, l), t[1].do = "push"
  PROVE  u # NoBuffer /\ l = NoBuffer /\ Len(t) = 1 /\ ~UploadLeft(t)
<1>1. u # NoBuffer /\ l = NoBuffer /\ \E k \in CommandKinds : AddLeft(t, k)
  BY StageReads
<1>2. Len(t) = 1
  BY <1>1, AddReads
<1> QED BY <1>1, <1>2 DEF UploadLeft

LEMMA StageStep ==
  ASSUME BuffersAssumption, Staged, [BuffersNext]_buffervars
  PROVE  Staged'
<1> USE DEF buffervars, buildvars
<1>1. CASE UNCHANGED <<image, todo, building, held, tail>>
  BY <1>1 DEF Staged
<1>0. NoBuffer \in Somewhere /\ Buffers \subseteq Somewhere
  BY DEF Somewhere
<1>2. ASSUME NEW command \in Commands, Begin(command) PROVE Staged'
  <2>1. building = NoBuffer /\ held = <<>> /\ tail = NoBuffer
    BY <1>2, StageIdle DEF Begin, NoCommand, Staged
  <2>2. todo' \in Seq(StepSet) /\ Begun(todo')
    BY <1>2, CommandBegins DEF Begin
  <2> QED BY <1>2, <2>1, <2>2 DEF Begin, Staged, Stage
<1>3. ASSUME NEW do, Needs(do)
      PROVE  /\ todo # <<>> /\ todo[1] = Head(todo) /\ todo[1].do \in do
             /\ Tail(todo) \in Seq(StepSet)
  BY <1>3, Rest DEF Needs, Staged
<1>4. CASE AllocCommand
  <2>1. todo # <<>> /\ todo[1].do \in CommandKinds /\ Tail(todo) \in Seq(StepSet)
    BY <1>3, <1>4 DEF AllocCommand, CommandKinds
  <2>2. building' \in Buffers
    BY <1>4, NewBufferIs DEF AllocCommand
  <2>3. Stage(Tail(todo), building', held, tail)
    BY <2>1, <2>2, CommandTaken DEF Staged
  <2> QED BY <1>0, <1>4, <2>1, <2>2, <2>3 DEF AllocCommand, Staged
<1>5. CASE AllocChunk
  <2>1. todo # <<>> /\ todo[1].do = "chunk" /\ Tail(todo) \in Seq(StepSet)
    BY <1>3, <1>5 DEF AllocChunk
  <2>2. tail' \in Buffers
    BY <1>5, NewBufferIs DEF AllocChunk
  <2>3. /\ IF tail = NoBuffer THEN held = <<>> ELSE Len(held) = 1
        /\ \A H2 : Len(H2) = 1 => Stage(Tail(todo), building, H2, tail')
    BY <2>1, <2>2, ChunkTaken DEF Staged
  <2>4. held' \in Seq(Buffers) /\ Len(held') = 1
    <3>1. tail' = NewBuffer /\ held' = IF tail = NoBuffer THEN <<NewBuffer>> ELSE held
      BY <1>5 DEF AllocChunk
    <3>2. <<NewBuffer>> \in Seq(Buffers) /\ Len(<<NewBuffer>>) = 1
      BY <2>2, <3>1, Single
    <3> QED BY <2>3, <3>1, <3>2 DEF Staged
  <2>5. Stage(Tail(todo), building, held', tail')
    BY <2>3, <2>4
  <2> QED BY <1>0, <1>5, <2>1, <2>2, <2>4, <2>5 DEF AllocChunk, Staged
<1>6. CASE AllocBitmap
  <2>1. todo # <<>> /\ todo[1].do = "bitmap" /\ Tail(todo) \in Seq(StepSet)
    BY <1>3, <1>6 DEF AllocBitmap
  <2>2. held' \in Seq(Buffers)
    BY <1>6, NewBufferIs DEF AllocBitmap
  <2>3. Stage(Tail(todo), building, held', NoBuffer)
    BY <2>1, BitmapTaken DEF Staged
  <2> QED BY <1>0, <1>6, <2>1, <2>2, <2>3 DEF AllocBitmap, Staged
<1>7. CASE AllocData
  <2>1. todo # <<>> /\ todo[1].do \in {"transform", "shape"} /\ Tail(todo) \in Seq(StepSet)
    BY <1>3, <1>7 DEF AllocData
  <2>2. held' \in Seq(Buffers)
    BY <1>7, NewBufferIs, AppendIs DEF AllocData, Staged
  <2>3. building # NoBuffer
    BY <2>1, StageReads DEF Staged
  <2>4. Stage(Tail(todo), building, held', tail)
    BY <2>1, <2>3, FieldTaken DEF Staged
  <2> QED BY <1>7, <2>1, <2>2, <2>4 DEF AllocData, Staged
<1>8. CASE SurfaceImage
  <2>1. todo # <<>> /\ todo[1] = Head(todo) /\ todo[1].do = "surface" /\ Tail(todo) \in Seq(StepSet)
    BY <1>3, <1>8 DEF SurfaceImage
  <2> DEFINE s == todo[1].s
  <2>2. s \in Imaged
    <3>1. CASE building = NoBuffer
      BY <2>1, <3>1, SourceTaken DEF Staged
    <3>2. CASE building # NoBuffer
      <4>1. PICK k \in CommandKinds : AddLeft(todo, k)
        BY <2>1, <3>2, StageReads DEF Staged
      <4>2. Adds(k, todo[1])
        BY <2>1, <3>2, <4>1, FieldTaken DEF Staged
      <4> QED BY <2>1, <4>2 DEF Adds
    <3> QED BY <3>1, <3>2
  <2>3. image' \in [Imaged -> Somewhere] /\ image'[s] \in Buffers
    <3>1. CASE image[s] = NoBuffer
      BY <1>8, <2>1, <2>2, <3>1, NewBufferIs DEF SurfaceImage, Staged, Somewhere
    <3>2. CASE image[s] # NoBuffer
      BY <1>8, <2>1, <2>2, <3>2 DEF SurfaceImage, Staged, Somewhere
    <3> QED BY <3>1, <3>2
  <2>4. held' = Append(held, image'[s])
    BY <1>8, <2>1 DEF SurfaceImage
  <2>5. held' \in Seq(Buffers) /\ Len(held') = Len(held) + 1
    BY <2>3, <2>4, AppendIs DEF Staged
  <2>6. Stage(Tail(todo), building, held', tail)
    <3>1. CASE building = NoBuffer
      <4>1. held = <<>> /\ \A H2 : Len(H2) = 1 => Stage(Tail(todo), NoBuffer, H2, tail)
        BY <2>1, <3>1, SourceTaken DEF Staged
      <4>2. Len(held') = 1
        BY <2>5, <4>1
      <4> QED BY <3>1, <4>1, <4>2
    <3>2. CASE building # NoBuffer
      BY <2>1, <3>2, FieldTaken DEF Staged
    <3> QED BY <3>1, <3>2
  <2> QED BY <1>8, <2>1, <2>3, <2>5, <2>6 DEF SurfaceImage, Staged
<1>9. CASE Push
  <2>1. todo # <<>> /\ todo[1].do = "push"
    BY <1>3, <1>9 DEF Push
  <2>2. tail = NoBuffer
    BY <2>1, PushTaken DEF Staged
  <2>3. <<>> \in Seq(StepSet) /\ <<>> \in Seq(Buffers)
    OBVIOUS
  <2> QED BY <1>0, <1>9, <2>2, <2>3 DEF Push, Staged, Stage
<1>10. CASE EnterVtBuffers
  BY <1>0, <1>10 DEF EnterVtBuffers, Staged
<1>11. CASE \E c \in Buffers : Release(c) \/ CollectCommand(c) \/ CollectCopy(c)
  BY <1>1, <1>11 DEF Release, CollectCommand, CollectCopy
<1>12. CASE DestroyChunk \/ DestroyImage \/ LeaveVtBuffers
  BY <1>1, <1>12 DEF DestroyChunk, DestroyImage, LeaveVtBuffers
<1>13. CASE UNCHANGED buffervars
  BY <1>1, <1>13
<1> QED BY <1>2, <1>4, <1>5, <1>6, <1>7, <1>8, <1>9, <1>10, <1>11, <1>12, <1>13 DEF BuffersNext

-----------------------------------------------------------------------------
(* The invariant.                                                          *)

Current == (pushed \cup released \cup dropped \cup {building, gc.cmd}) \ {NoBuffer}

(* What X holds while it builds.                                           *)
HeldFits(m, L, t, u, H, l, O, R) ==
  /\ u = NoBuffer => \A i \in DOMAIN H : m[H[i]].kind = "surface"
  /\ u # NoBuffer /\ UploadLeft(t) =>
       /\ m[u].kind = "copy" /\ \A f \in Fields : L[u][f] = NoBuffer
       /\ l # NoBuffer =>
            /\ m[H[1]].kind = "chunk" /\ L[H[1]]["prev"] = NoBuffer /\ O[H[1]] = u
            /\ m[l].kind = "chunk" /\ L[l]["next"] = NoBuffer /\ O[l] = u
            /\ R[l] + (Len(t) - 2) <= MaxChunks
  /\ u # NoBuffer /\ ~UploadLeft(t) =>
       /\ AddLeft(t, m[u].kind)
       /\ \A i \in 1 .. Len(t) - 1 : L[u][t[i].field] = NoBuffer
       /\ m[u].kind = "copy" => L[u]["src"] # NoBuffer
       /\ \A i \in DOMAIN H : m[H[i]].kind = "surface" \/ \E f \in Fields : L[u][f] = H[i]

Apart ==
  /\ pushed \cap released = {} /\ building \notin pushed \cup released
  /\ gc.cmd \notin pushed \cup released
  /\ gc.cmd # NoBuffer => gc.cmd # building
  /\ \A c \in pushed \cup released : mem[c].kind = "copy" => mem[c].at["src"] # NoBuffer

Walking(O) ==
  gc # NoGc =>
    /\ gc.cmd \in Buffers /\ mem[gc.cmd].kind = "copy"
    /\ gc.img \in Buffers /\ mem[gc.cmd].at["src"] = gc.img
    /\ gc.chunk # NoBuffer =>
         /\ mem[gc.chunk].kind = "chunk" /\ O[gc.chunk] = gc.cmd
         /\ mem[gc.chunk].at["prev"] # gc.chunk

HereInv(O, R) ==
  /\ Memory(mem) /\ O \in [Buffers -> Somewhere] /\ R \in [Buffers -> Nat]
  /\ pushed \subseteq Buffers /\ released \subseteq Buffers /\ dropped = {}
  /\ gc \in [cmd : Somewhere, img : Somewhere, chunk : Somewhere]
  /\ Counted(mem, Links(mem, gc), DOMAIN held, held, image, Current)
  /\ Shape(mem, Links(mem, gc), DOMAIN held, held, image, Current, O, R, Behind(mem, gc))
  /\ HeldFits(mem, Links(mem, gc), todo, building, held, tail, O, R)
  /\ Apart /\ Walking(O)

Here == \E O \in [Buffers -> Somewhere], R \in [Buffers -> Nat] : HereInv(O, R)

IInv ==
  /\ Staged
  /\ IF vtSema THEN Here ELSE pushed = {} /\ released = {} /\ gc = NoGc

-----------------------------------------------------------------------------
(* The links between two collections are the pointers.                     *)

At(m) == [b \in Buffers |-> m[b].at]

LEMMA LinksAt ==
  ASSUME NEW m, Memory(m)
  PROVE  /\ Links(m, NoGc) = At(m) /\ At(m) \in Linked /\ Behind(m, NoGc) = NoBuffer
         /\ \A b \in Buffers : At(m)[b] = m[b].at
<1>1. \A b \in Buffers : m[b].at \in [Fields -> Somewhere]
  BY CellOf
<1>2. \A b, f : ~Stale(m, NoGc, b, f)
  BY DEF Stale
<1>3. Links(m, NoGc) = [b \in Buffers |-> [f \in Fields |-> m[b].at[f]]]
  BY <1>2 DEF Links
<1>4. \A b \in Buffers : [f \in Fields |-> m[b].at[f]] = m[b].at
  BY <1>1
<1>5. Links(m, NoGc) = At(m)
  BY <1>3, <1>4 DEF At
<1>6. At(m) \in Linked
  BY <1>1 DEF At, Linked
<1>7. Behind(m, NoGc) = NoBuffer
  BY DEF Behind, NoGc
<1> QED BY <1>5, <1>6, <1>7 DEF At

LEMMA AtAlloc ==
  ASSUME NEW m, Memory(m), NEW b \in Buffers, m[b].refcnt = 0, NEW k \in Kinds \ {"none"}
  PROVE  /\ Memory(Alloc(m, b, k)) /\ At(Alloc(m, b, k)) = At(m)
         /\ Alloc(m, b, k)[b].kind = k
         /\ \A f \in Fields : At(m)[b][f] = NoBuffer
         /\ \A x \in Buffers : x # b => Alloc(m, b, k)[x].kind = m[x].kind
         /\ \A x \in Buffers : Alloc(m, b, k)[x].refcnt = m[x].refcnt + One(x, b)
<1> DEFINE r == Alloc(m, b, k)
<1>1. /\ Memory(r) /\ r[b] = [refcnt |-> 1, kind |-> k, at |-> Nowhere]
      /\ \A x \in Buffers : x # b => r[x] = m[x]
  BY AllocIs
<1>2. m[b] = Free /\ \A x \in Buffers : m[x].refcnt \in Nat
  BY CellOf
<1>3. Free.at = Nowhere /\ \A f \in Fields : Nowhere[f] = NoBuffer
  BY DEF Free, Nowhere
<1> HIDE DEF r
<1>4. ASSUME NEW x \in Buffers PROVE r[x].at = m[x].at /\ r[x].refcnt = m[x].refcnt + One(x, b)
  BY <1>1, <1>2, <1>3 DEF One
<1>5. At(r) = At(m)
  BY <1>4 DEF At
<1>6. \A f \in Fields : At(m)[b][f] = NoBuffer
  BY <1>2, <1>3 DEF At
<1> QED BY <1>1, <1>4, <1>5, <1>6 DEF r

LEMMA AtReloc ==
  ASSUME NEW m, Memory(m), NEW t \in Buffers, m[t].refcnt > 0,
         NEW d \in Buffers, m[d].refcnt > 0, NEW f \in Fields, At(m)[d][f] = NoBuffer
  PROVE  /\ Memory(Reloc(m, d, f, t))
         /\ NewLink(At(m), At(Reloc(m, d, f, t)), d, f, t)
         /\ \A x \in Buffers : Reloc(m, d, f, t)[x].kind = m[x].kind
         /\ \A x \in Buffers : Reloc(m, d, f, t)[x].refcnt = m[x].refcnt + One(x, t)
<1> DEFINE r == Reloc(m, d, f, t)
<1>1. /\ Memory(r)
      /\ \A x \in Buffers :
           /\ r[x].refcnt = m[x].refcnt + One(x, t) /\ r[x].kind = m[x].kind
           /\ \A h \in Fields : r[x].at[h] = IF x = d /\ h = f THEN t ELSE m[x].at[h]
  BY RelocIs
<1> HIDE DEF r
<1>2. At(m) \in Linked /\ At(r) \in Linked
  BY <1>1, LinksAt
<1>3. /\ \A x \in Buffers : At(m)[x] = m[x].at /\ At(r)[x] = r[x].at
  BY <1>1, LinksAt
<1>4. NewLink(At(m), At(r), d, f, t)
  BY <1>1, <1>2, <1>3 DEF NewLink
<1> QED BY <1>1, <1>4 DEF r

LEMMA AtIncref ==
  ASSUME NEW m, Memory(m), NEW t \in Buffers, m[t].refcnt > 0
  PROVE  /\ Memory(Incref(m, t)) /\ At(Incref(m, t)) = At(m)
         /\ \A x \in Buffers : Incref(m, t)[x].kind = m[x].kind
         /\ \A x \in Buffers : Incref(m, t)[x].refcnt = m[x].refcnt + One(x, t)
  BY IncrefIs DEF At

LEMMA AtDecref ==
  ASSUME NEW m, Memory(m), NEW t \in Buffers, m[t].refcnt > 1
  PROVE  /\ Memory(Decref(m, t)) /\ At(Decref(m, t)) = At(m)
         /\ \A x \in Buffers : Decref(m, t)[x].kind = m[x].kind
         /\ \A x \in Buffers : m[x].refcnt = Decref(m, t)[x].refcnt + One(x, t)
<1> DEFINE r == Decref(m, t)
<1>1. /\ Memory(r) /\ Trimmed(m, r)
      /\ \A x \in Buffers : m[x].refcnt = r[x].refcnt + One(x, t)
  BY CellOf, DecrefIs
<1> HIDE DEF r
<1>2. ASSUME NEW x \in Buffers PROVE r[x].kind = m[x].kind /\ r[x].at = m[x].at
  <2>1. r[x].refcnt \in Nat /\ m[x].refcnt \in Nat /\ m[x].refcnt = r[x].refcnt + One(x, t)
    BY <1>1, CellOf
  <2>2. CASE r[x].refcnt > 0
    BY <1>1, <2>2 DEF Trimmed
  <2>3. CASE r[x].refcnt = 0
    <3>1. m[x].refcnt = 0
      BY <2>1, <2>3 DEF One
    <3>2. m[x] = Free /\ r[x] = Free
      BY <1>1, <2>3, <3>1, CellOf
    <3> QED BY <3>2
  <2> QED BY <2>1, <2>2, <2>3
<1>3. At(r) = At(m)
  BY <1>2 DEF At
<1> QED BY <1>1, <1>2, <1>3 DEF r

(* The state between two collections, with the pointers for links.         *)
LEMMA Between ==
  ASSUME NEW O, NEW R, HereInv(O, R), gc = NoGc
  PROVE  /\ Memory(mem) /\ At(mem) \in Linked
         /\ Counted(mem, At(mem), DOMAIN held, held, image, Current)
         /\ Shape(mem, At(mem), DOMAIN held, held, image, Current, O, R, NoBuffer)
         /\ HeldFits(mem, At(mem), todo, building, held, tail, O, R)
         /\ Apart
  BY LinksAt DEF HereInv

LEMMA BetweenAgain ==
  ASSUME gc' = NoGc, NEW O \in [Buffers -> Somewhere], NEW R \in [Buffers -> Nat],
         Memory(mem'), pushed' \subseteq Buffers, released' \subseteq Buffers, dropped' = {},
         Counted(mem', At(mem'), DOMAIN held', held', image', Current'),
         Shape(mem', At(mem'), DOMAIN held', held', image', Current', O, R, NoBuffer),
         HeldFits(mem', At(mem'), todo', building', held', tail', O, R),
         Apart'
  PROVE  HereInv(O, R)'
<1>1. Links(mem', gc') = At(mem') /\ Behind(mem', gc') = NoBuffer
  BY LinksAt
<1>2. gc' \in [cmd : Somewhere, img : Somewhere, chunk : Somewhere]
  BY DEF NoGc, Somewhere
<1>3. Walking(O)'
  BY DEF Walking
<1> QED BY <1>1, <1>2, <1>3 DEF HereInv

-----------------------------------------------------------------------------
(* One lemma per action: what it leaves fits the invariant again.          *)

Grown(m, m2, t) == \A x \in Buffers : m2[x].refcnt = m[x].refcnt + One(x, t)

LEMMA CountedMore ==
  ASSUME NEW m, NEW m2, NEW t, NEW L, NEW D, NEW H, NEW I, NEW C, Counted(m, L, D, H, I, C),
         NEW L2, NEW D2, NEW H2, NEW I2, NEW C2,
         OneMore(L, D, H, I, C, L2, D2, H2, I2, C2, t), Grown(m, m2, t)
  PROVE  Counted(m2, L2, D2, H2, I2, C2)
  BY DEF Counted, OneMore, Grown

LEMMA CountedTwice ==
  ASSUME BuffersAssumption, NEW m, NEW m2, NEW t, NEW t2,
         NEW L, NEW D, IsFiniteSet(D), NEW H, NEW I, NEW C, Counted(m, L, D, H, I, C),
         NEW L2, NEW D2, NEW H2, NEW I2, NEW C2,
         OneMore(L, D, H, I, C, L2, D2, H2, I2, C2, t),
         NEW L3, NEW D3, NEW H3, NEW I3, NEW C3,
         OneMore(L2, D2, H2, I2, C2, L3, D3, H3, I3, C3, t2),
         \A x \in Buffers : m2[x].refcnt = m[x].refcnt + One(x, t) + One(x, t2)
  PROVE  Counted(m2, L3, D3, H3, I3, C3)
<1> SUFFICES ASSUME NEW x \in Buffers
             PROVE  m2[x].refcnt = Count(L3, D3, H3, I3, C3, x)
  BY DEF Counted
<1>1. /\ m[x].refcnt = Count(L, D, H, I, C, x)
      /\ Count(L2, D2, H2, I2, C2, x) = Count(L, D, H, I, C, x) + One(x, t)
      /\ Count(L3, D3, H3, I3, C3, x) = Count(L2, D2, H2, I2, C2, x) + One(x, t2)
  BY DEF Counted, OneMore
<1> QED BY <1>1

LEMMA CurrentIs ==
  ASSUME Staged, NEW O, NEW R, HereInv(O, R)
  PROVE  /\ Current \subseteq Buffers /\ NoBuffer \notin Current
         /\ pushed \subseteq Current /\ released \subseteq Current
         /\ building # NoBuffer => building \in Current
         /\ IsFiniteSet(DOMAIN held)
<1>1. NoBuffer \notin Buffers
  BY FieldsAre
<1>2. pushed \subseteq Buffers /\ released \subseteq Buffers /\ dropped = {} /\ gc.cmd \in Somewhere
  BY DEF HereInv
<1>3. building \in Somewhere
  BY DEF Staged
<1>4. IsFiniteSet(DOMAIN held)
  <2>1. DOMAIN held = 1 .. Len(held) /\ Len(held) \in Nat
    BY LenProperties DEF Staged
  <2> QED BY <2>1, FS_Interval
<1> QED BY <1>1, <1>2, <1>3, <1>4 DEF Current, Somewhere

LEMMA OneHeld ==
  ASSUME NEW S, NEW H \in Seq(S), Len(H) = 1
  PROVE  H # <<>> /\ DOMAIN H = {1} /\ 1 \in DOMAIN H /\ H[1] \in S
<1>1. DOMAIN H = 1 .. 1
  BY LenProperties
<1>2. H[1] \in S
  BY ElementOfSeq
<1>3. H # <<>>
  BY <1>1
<1>4. 1 .. 1 = {1}
  OBVIOUS
<1> QED BY <1>1, <1>2, <1>3, <1>4

(* A step that builds.                                                     *)
LEMMA Built ==
  ASSUME BuffersAssumption, Staged, NEW O, NEW R, HereInv(O, R), gc = NoGc, gc' = NoGc,
         UNCHANGED <<pushed, released, dropped>>, building' \notin pushed \cup released,
         NEW O2 \in [Buffers -> Somewhere], NEW R2 \in [Buffers -> Nat], NEW N,
         Memory(mem'), Counted(mem', At(mem'), DOMAIN held', held', image', Current'),
         Grows(mem, mem', At(mem), At(mem'), DOMAIN held, held, DOMAIN held', held',
               Current, Current', O, O2, R, R2, image', NoBuffer, N),
         HeldFits(mem', At(mem'), todo', building', held', tail', O2, R2)
  PROVE  HereInv(O2, R2)'
<1>1. /\ Memory(mem) /\ At(mem) \in Linked
      /\ Counted(mem, At(mem), DOMAIN held, held, image, Current)
      /\ Shape(mem, At(mem), DOMAIN held, held, image, Current, O, R, NoBuffer)
      /\ Apart
  BY Between
<1>2. IsFiniteSet(DOMAIN held) /\ Current \subseteq Buffers /\ pushed \subseteq Current /\ released \subseteq Current
  BY CurrentIs
<1>3. Shape(mem', At(mem'), DOMAIN held', held', image', Current', O2, R2, NoBuffer)
  BY <1>1, <1>2, ShapeGrows
<1>4. \A c \in pushed' \cup released' : mem'[c].kind = "copy" => mem'[c].at["src"] # NoBuffer
  <2> SUFFICES ASSUME NEW c \in pushed \cup released, mem'[c].kind = "copy"
               PROVE  mem'[c].at["src"] # NoBuffer
    OBVIOUS
  <2>1. c \in Current /\ c \in Buffers
    BY <1>2
  <2>2. mem[c].refcnt # 0
    BY <1>1, <1>2, <2>1, Fresh
  <2>3. c \notin N
    BY <2>2 DEF Grows
  <2>4. mem[c].kind = "copy" /\ mem[c].at["src"] # NoBuffer
    BY <1>1, <2>1, <2>3 DEF Apart, Grows
  <2>5. At(mem)[c]["src"] # NoBuffer
    BY <1>1, <2>1, <2>4, LinksAt
  <2>6. At(mem')[c]["src"] = At(mem)[c]["src"]
    BY <2>1, <2>5 DEF Grows, Fields
  <2> QED BY <2>1, <2>5, <2>6, LinksAt
<1>5. pushed' \cap released' = {} /\ gc'.cmd = NoBuffer /\ gc'.cmd \notin pushed' \cup released'
  BY <1>1 DEF Apart, NoGc
<1>6. Apart'
  BY <1>4, <1>5 DEF Apart
<1>7. pushed' \subseteq Buffers /\ released' \subseteq Buffers /\ dropped' = {}
  BY DEF HereInv
<1> QED BY <1>3, <1>6, <1>7, BetweenAgain

LEMMA BeginHere ==
  ASSUME BuffersAssumption, Staged, NEW O, NEW R, HereInv(O, R),
         O \in [Buffers -> Somewhere], R \in [Buffers -> Nat],
         NEW command, Begin(command)
  PROVE  HereInv(O, R)'
<1>1. building = NoBuffer /\ held = <<>>
  BY StageIdle DEF Begin, NoCommand, Staged
<1>2. gc = NoGc /\ UNCHANGED <<mem, image, building, held, tail, pushed, released, gc, vtSema, dropped>>
  BY DEF Begin, NoCommand
<1>3. /\ Memory(mem) /\ At(mem) \in Linked
      /\ Counted(mem, At(mem), DOMAIN held, held, image, Current)
      /\ Shape(mem, At(mem), DOMAIN held, held, image, Current, O, R, NoBuffer)
      /\ Apart
  BY <1>2, Between
<1>4. Current' = Current
  BY <1>2 DEF Current
<1>5. Apart'
  BY <1>2, <1>3 DEF Apart
<1>6. HeldFits(mem', At(mem'), todo', building', held', tail', O, R)
  BY <1>1, <1>2 DEF HeldFits
<1>7. pushed' \subseteq Buffers /\ released' \subseteq Buffers /\ dropped' = {} /\ gc' = NoGc
  BY <1>2 DEF HereInv
<1>8. /\ Memory(mem')
      /\ Counted(mem', At(mem'), DOMAIN held', held', image', Current')
      /\ Shape(mem', At(mem'), DOMAIN held', held', image', Current', O, R, NoBuffer)
  BY <1>2, <1>3, <1>4
<1> QED BY <1>5, <1>6, <1>7, <1>8, BetweenAgain

LEMMA AllocCommandHere ==
  ASSUME BuffersAssumption, Staged, NEW O \in [Buffers -> Somewhere], NEW R \in [Buffers -> Nat],
         HereInv(O, R), AllocCommand
  PROVE  \E O2 \in [Buffers -> Somewhere] : HereInv(O2, R)'
<1> DEFINE b == NewBuffer
           k == Head(todo).do
           m == Alloc(mem, b, k)
           C == Current
           D == DOMAIN held
<1>1. /\ gc = NoGc /\ gc' = NoGc /\ todo # <<>> /\ k \in CommandKinds /\ FreeIn(mem) # {}
      /\ building' = b /\ mem' = (IF held = <<>> THEN m ELSE Reloc(m, b, "src", held[1]))
      /\ todo' = Tail(todo)
      /\ UNCHANGED <<image, held, tail, pushed, released, vtSema, dropped>>
  BY DEF AllocCommand, Needs, outside, CommandKinds
<1>2. /\ Memory(mem) /\ At(mem) \in Linked
      /\ Counted(mem, At(mem), D, held, image, C)
      /\ Shape(mem, At(mem), D, held, image, C, O, R, NoBuffer)
      /\ HeldFits(mem, At(mem), todo, building, held, tail, O, R)
      /\ Apart
  BY <1>1, Between
<1>3. b \in Buffers /\ mem[b].kind = "none" /\ b # NoBuffer /\ mem[b].refcnt = 0
  BY <1>1, <1>2, NewBufferIs, CellOf
<1>4. todo \in Seq(StepSet) /\ k = todo[1].do /\ held \in Seq(Buffers)
  BY <1>1, Rest DEF Staged
<1>5. /\ tail = NoBuffer /\ building = NoBuffer
      /\ \/ /\ k = "copy" /\ held = <<>>
            /\ UploadLeft(Tail(todo)) /\ Len(Tail(todo)) >= 3
         \/ /\ k \in {"plain", "composite", "cursor"} /\ held = <<>>
            /\ AddLeft(Tail(todo), k)
         \/ /\ k = "copy_surface" /\ Len(held) = 1 /\ Tail(todo) = <<PushStep>>
  BY <1>1, <1>4, CommandTaken DEF Staged
<1>6. k \in Kinds \ {"none"}
  BY <1>1 DEF Kinds, CommandKinds
<1>7. IsFiniteSet(D) /\ C \subseteq Buffers /\ pushed \subseteq C /\ released \subseteq C
  BY CurrentIs
<1>8. /\ \A x \in Buffers, f \in Fields : At(mem)[x][f] # b
      /\ HeldAt(D, held, b) = {} /\ ImageOf(image, b) = {} /\ b \notin C
  BY <1>2, <1>3, <1>7, Fresh
<1> HIDE DEF b, k
<1>9. /\ Memory(m) /\ At(m) = At(mem) /\ m[b].kind = k
      /\ \A f \in Fields : At(mem)[b][f] = NoBuffer
      /\ \A x \in Buffers : x # b => m[x].kind = mem[x].kind
      /\ Grown(mem, m, b)
  BY <1>2, <1>3, <1>6, AtAlloc DEF Grown
<1>10. Current' = C \cup {b}
  BY <1>1, <1>3, <1>5 DEF Current, NoGc
<1>11. Counted(m, At(mem), D, held, image, C \cup {b})
  <2>1. OneMore(At(mem), D, held, image, C, At(mem), D, held, image, C \cup {b}, b)
    BY <1>7, <1>8, CountRoot
  <2> HIDE DEF C, D, m
  <2> QED BY <1>2, <1>9, <2>1, CountedMore
(* the source of a copy between surfaces *)
<1>12. ASSUME held # <<>>
       PROVE  /\ 1 \in D /\ held[1] \in Buffers /\ mem[held[1]].kind = "surface"
              /\ m[held[1]].refcnt > 0 /\ held[1] # b /\ k = "copy_surface"
  <2>1. Len(held) = 1 /\ k = "copy_surface"
    BY <1>5, <1>12
  <2>2. 1 \in D /\ held[1] \in Buffers
    BY <1>4, <2>1, OneHeld
  <2>3. mem[held[1]].kind = "surface"
    BY <1>2, <1>5, <2>2 DEF HeldFits
  <2>4. held[1] # b
    BY <1>3, <2>3
  <2>5. m[held[1]].refcnt > 0
    BY <1>9, <2>2, <2>3, <2>4, CellOf
  <2> QED BY <2>1, <2>2, <2>3, <2>4, <2>5
<1>13. /\ Memory(mem') /\ Counted(mem', At(mem'), D, held, image, C \cup {b})
       /\ mem'[b].kind = k /\ \A x \in Buffers : x # b => mem'[x].kind = mem[x].kind
       /\ At(mem') \in Linked
       /\ \A x \in Buffers, f \in Fields : <<x, f>> = <<b, "src">> \/ At(mem')[x][f] = At(mem)[x][f]
       /\ \/ held = <<>> /\ At(mem')[b]["src"] = NoBuffer
          \/ held # <<>> /\ At(mem')[b]["src"] = held[1]
  <2>0. "src" \in Fields
    BY DEF Fields
  <2>1. CASE held = <<>>
    <3>1. mem' = m
      BY <1>1, <2>1
    <3> HIDE DEF m, C, D
    <3> QED BY <1>2, <1>9, <1>11, <2>0, <2>1, <3>1
  <2>2. CASE held # <<>>
    <3>1. mem' = Reloc(m, b, "src", held[1])
      BY <1>1, <2>2
    <3>2. m[b].refcnt > 0
      BY <1>3, <1>6, <1>9, CellOf
    <3> HIDE DEF m, C, D
    <3>3. /\ Memory(mem') /\ NewLink(At(m), At(mem'), b, "src", held[1])
          /\ \A x \in Buffers : mem'[x].kind = m[x].kind
          /\ Grown(m, mem', held[1])
      BY <1>3, <1>9, <1>12, <2>0, <2>2, <3>1, <3>2, AtReloc DEF Grown
    <3>4. OneMore(At(mem), D, held, image, C \cup {b}, At(mem'), D, held, image, C \cup {b}, held[1])
      BY <1>7, <1>9, <3>3, CountLink
    <3>5. Counted(mem', At(mem'), D, held, image, C \cup {b})
      BY <1>11, <3>3, <3>4, CountedMore
    <3> QED BY <1>3, <1>9, <2>2, <3>3, <3>5 DEF NewLink
  <2> QED BY <2>1, <2>2
<1>14. PICK O2 \in [Buffers -> Somewhere] : O2[b] = b /\ \A x \in Buffers : x # b => O2[x] = O[x]
  <2>1. [O EXCEPT ![b] = b] \in [Buffers -> Somewhere]
    BY <1>3 DEF Somewhere
  <2> QED BY <1>3, <2>1
<1> HIDE DEF m, C, D
<1>15. ASSUME held = <<>>, NEW f \in Fields PROVE At(mem')[b][f] = NoBuffer
  <2>1. CASE f = "src"
    BY <1>13, <1>15, <2>1
  <2>2. CASE f # "src"
    BY <1>3, <1>9, <1>13, <2>2
  <2> QED BY <2>1, <2>2
<1>16. Grows(mem, mem', At(mem), At(mem'), D, held, D, held, C, C \cup {b}, O, O2, R, R, image, NoBuffer, {b})
  <2> DEFINE N == {b}
  <2>1. N \subseteq Buffers /\ C \subseteq Buffers /\ At(mem) \in Linked /\ At(mem') \in Linked
    BY <1>2, <1>3, <1>7, <1>13
  <2>2. \A x \in N : mem[x].refcnt = 0 /\ \A f \in Fields : At(mem)[x][f] = NoBuffer
    BY <1>3, <1>9
  <2>3. \A x \in Buffers \ N : mem'[x].kind = mem[x].kind /\ O2[x] = O[x] /\ R[x] = R[x]
    BY <1>13, <1>14
  <2>4. \A x \in Buffers \ N : mem[x].at["data"] # NoBuffer => mem'[x].at["data"] # NoBuffer
    <3>1. "data" \in Fields /\ "data" # "src"
      BY DEF Fields
    <3> QED BY <1>2, <1>13, <3>1, LinksAt
  <2>5. \A x \in Buffers, f \in Fields : At(mem)[x][f] # NoBuffer => At(mem')[x][f] = At(mem)[x][f]
    BY <1>9, <1>13
  <2>6. \A x \in Buffers \ N : At(mem')[x]["prev"] = At(mem)[x]["prev"]
    BY <1>13 DEF Fields
  <2>7. ASSUME NEW x \in Buffers, NEW f \in Fields,
               At(mem)[x][f] = NoBuffer /\ At(mem')[x][f] # NoBuffer
        PROVE  LinkFits(mem', At(mem'), O2, R, x, f, At(mem')[x][f])
    <3>1. x = b /\ f = "src" /\ held # <<>> /\ At(mem')[x][f] = held[1]
      BY <1>13, <2>7
    <3>2. mem'[held[1]].kind = "surface" /\ mem'[b].kind = "copy_surface"
      BY <1>12, <1>13, <3>1
    <3> QED BY <3>1, <3>2 DEF LinkFits, Fits
  <2>8. \A x \in Buffers \ N : x \in C \cup {b} <=> x \in C
    OBVIOUS
  <2>9. \A x \in N : (mem'[x].kind \in CommandKinds <=> x \in C \cup {b}) /\ (x \in C \cup {b} => O2[x] = x)
    BY <1>1, <1>13, <1>14
  <2>10. /\ \A x \in N : mem'[x].kind \in PartKinds => O2[x] \in C
         /\ \A x \in N : mem'[x].kind = "bitmap" =>
              mem'[x].at["data"] # NoBuffer /\ At(mem')[O2[x]]["src"] = x
         /\ \A x \in N : mem'[x].kind = "chunk" =>
              R[x] \in 1 .. MaxChunks /\ Anchored(At(mem'), D, held, NoBuffer, x)
    BY <1>1, <1>13 DEF CommandKinds, PartKinds
  <2>12. \A x \in Buffers \ N : HeldAt(D, held, x) # {} =>
           HeldAt(D, held, x) # {} \/ \E y \in Buffers : At(mem')[y]["data"] = x
    OBVIOUS
  <2>11. Imaging(mem', image)
    <3>1. ASSUME NEW x \in Buffers PROVE mem'[x].kind = "surface" <=> ImageOf(image, x) # {}
      <4>1. CASE x = b
        BY <1>1, <1>8, <1>13, <4>1 DEF CommandKinds
      <4>2. CASE x # b
        BY <1>2, <1>13, <4>2 DEF Shape, Imaging
      <4> QED BY <4>1, <4>2
    <3> QED BY <3>1 DEF Imaging
  <2> HIDE DEF N
  <2>13. Grows(mem, mem', At(mem), At(mem'), D, held, D, held, C, C \cup {b}, O, O2, R, R, image, NoBuffer, N)
    BY <2>1, <2>2, <2>3, <2>4, <2>5, <2>6, <2>7, <2>8, <2>9, <2>10, <2>11, <2>12 DEF Grows
  <2> QED BY <2>13 DEF N
<1>17. HeldFits(mem', At(mem'), todo', building', held', tail', O2, R)
  <2>1. building' = b /\ todo' = Tail(todo) /\ held' = held /\ tail' = NoBuffer
    BY <1>1, <1>5
  <2>2. ASSUME UploadLeft(todo')
        PROVE  mem'[b].kind = "copy" /\ \A f \in Fields : At(mem')[b][f] = NoBuffer
    <3>1. k = "copy" /\ held = <<>>
      <4>1. todo' \in Seq(StepSet) /\ Len(todo') >= 2
        BY <1>1, <1>4, <2>1, <2>2, Rest DEF UploadLeft
      <4>2. \A x : ~AddLeft(todo', x)
        BY <2>2, <4>1, AddsOne
      <4> QED BY <1>5, <2>1, <4>2, PushLeft
    <3> QED BY <1>13, <1>15, <3>1
  <2>3. ASSUME ~UploadLeft(todo')
        PROVE  /\ AddLeft(todo', mem'[b].kind)
               /\ \A i \in 1 .. Len(todo') - 1 : At(mem')[b][todo'[i].field] = NoBuffer
               /\ mem'[b].kind # "copy"
               /\ \A i \in DOMAIN held : mem'[held[i]].kind = "surface"
    <3>1. CASE k \in {"plain", "composite", "cursor"} /\ held = <<>> /\ AddLeft(todo', k)
      <4>1. \A f \in Fields : At(mem')[b][f] = NoBuffer
        BY <1>15, <3>1
      <4>2. ASSUME NEW i \in 1 .. Len(todo') - 1 PROVE todo'[i].field \in Fields
        BY <3>1 DEF AddLeft, Adding, Adds, Fields
      <4> QED BY <1>13, <3>1, <4>1, <4>2
    <3>2. CASE k = "copy_surface" /\ Len(held) = 1 /\ todo' = <<PushStep>>
      <4>1. Len(todo') = 1 /\ AddLeft(todo', k)
        BY <3>2, PushLeft
      <4>2. held # <<>> /\ \A i \in DOMAIN held : i = 1
        BY <1>4, <3>2, OneHeld
      <4>3. mem'[held[1]].kind = "surface"
        BY <1>12, <1>13, <4>2
      <4> QED BY <1>13, <3>2, <4>1, <4>2, <4>3
    <3> QED BY <1>5, <2>1, <2>3, <3>1, <3>2
  <2> QED BY <1>3, <2>1, <2>2, <2>3 DEF HeldFits
<1>18. building' \notin pushed \cup released
  BY <1>1, <1>7, <1>8
<1>19. HereInv(O2, R)'
  BY <1>1, <1>10, <1>13, <1>14, <1>16, <1>17, <1>18, Built DEF D, C
<1> QED BY <1>14, <1>19
LEMMA AllocChunkHere ==
  ASSUME BuffersAssumption, Staged, NEW O \in [Buffers -> Somewhere], NEW R \in [Buffers -> Nat],
         HereInv(O, R), AllocChunk
  PROVE  \E O2 \in [Buffers -> Somewhere], R2 \in [Buffers -> Nat] : HereInv(O2, R2)'
<1> DEFINE b == NewBuffer
           m == Alloc(mem, b, "chunk")
           m1 == Reloc(m, tail, "next", b)
           m2 == Reloc(m1, b, "prev", tail)
           C == Current
           D == DOMAIN held
           u == building
<1>1. /\ gc = NoGc /\ gc' = NoGc /\ todo # <<>> /\ Head(todo).do = "chunk" /\ FreeIn(mem) # {}
      /\ tail' = b /\ todo' = Tail(todo) /\ building' = u
      /\ tail = NoBuffer => mem' = m /\ held' = <<b>>
      /\ tail # NoBuffer => mem' = Decref(m2, b) /\ held' = held
      /\ UNCHANGED <<image, pushed, released, vtSema, dropped>>
  BY DEF AllocChunk, Needs, outside
<1>2. /\ Memory(mem) /\ At(mem) \in Linked
      /\ Counted(mem, At(mem), D, held, image, C)
      /\ Shape(mem, At(mem), D, held, image, C, O, R, NoBuffer)
      /\ HeldFits(mem, At(mem), todo, u, held, tail, O, R)
      /\ Apart
  BY <1>1, Between
<1>3. b \in Buffers /\ mem[b].kind = "none" /\ b # NoBuffer /\ mem[b].refcnt = 0
  BY <1>1, <1>2, NewBufferIs, CellOf
<1>4. todo \in Seq(StepSet) /\ todo[1].do = "chunk" /\ tail \in Somewhere /\ held \in Seq(Buffers)
  BY <1>1, Rest DEF Staged
<1>5. /\ UploadLeft(todo) /\ Len(todo) >= 3 /\ u # NoBuffer /\ UploadLeft(Tail(todo))
      /\ Len(todo) \in Nat /\ Len(Tail(todo)) = Len(todo) - 1
      /\ IF tail = NoBuffer THEN held = <<>> ELSE Len(held) = 1
  BY <1>1, <1>4, ChunkTaken DEF Staged
<1>6. IsFiniteSet(D) /\ C \subseteq Buffers /\ u \in C
  BY <1>5, CurrentIs
<1>7. /\ \A x \in Buffers, f \in Fields : At(mem)[x][f] # b
      /\ HeldAt(D, held, b) = {} /\ ImageOf(image, b) = {} /\ b \notin C
  BY <1>2, <1>3, <1>6, Fresh
<1>8. /\ mem[u].kind = "copy" /\ u # b
      /\ \A f \in Fields : At(mem)[u][f] = NoBuffer
      /\ tail # NoBuffer =>
           /\ mem[held[1]].kind = "chunk" /\ At(mem)[held[1]]["prev"] = NoBuffer /\ O[held[1]] = u
           /\ mem[tail].kind = "chunk" /\ At(mem)[tail]["next"] = NoBuffer /\ O[tail] = u
           /\ R[tail] + (Len(todo) - 2) <= MaxChunks
           /\ tail \in Buffers /\ tail # b /\ tail # u /\ held[1] \in Buffers /\ held[1] # b
  <2>1. tail # NoBuffer => held[1] \in Buffers
    BY <1>4, <1>5, OneHeld
  <2> QED BY <1>2, <1>3, <1>4, <1>5, <1>6, <1>7, <2>1 DEF HeldFits, Somewhere
<1> HIDE DEF b, u
<1>9. "chunk" \in Kinds \ {"none"} /\ {"next", "prev", "src", "data"} \subseteq Fields
  BY DEF Kinds, PartKinds, Fields
<1>10. /\ Memory(m) /\ At(m) = At(mem) /\ m[b].kind = "chunk"
       /\ \A f \in Fields : At(mem)[b][f] = NoBuffer
       /\ \A x \in Buffers : x # b => m[x].kind = mem[x].kind
       /\ Grown(mem, m, b)
  BY <1>2, <1>3, <1>9, AtAlloc DEF Grown
<1>11. Current' = C
  BY <1>1 DEF Current, u
<1> HIDE DEF m, D, C
(* the links that are new *)
<1>12. /\ Memory(mem') /\ Counted(mem', At(mem'), DOMAIN held', held', image, C)
       /\ mem'[b].kind = "chunk" /\ \A x \in Buffers : x # b => mem'[x].kind = mem[x].kind
       /\ At(mem') \in Linked
       /\ \A x \in Buffers, f \in Fields :
            \/ At(mem')[x][f] = At(mem)[x][f]
            \/ tail # NoBuffer /\ x = tail /\ f = "next"
            \/ tail # NoBuffer /\ x = b /\ f = "prev"
       /\ tail # NoBuffer => At(mem')[tail]["next"] = b /\ At(mem')[b]["prev"] = tail
  <2>1. CASE tail = NoBuffer
    <3>1. mem' = m /\ held' = <<b>> /\ held = <<>>
      BY <1>1, <1>5, <2>1
    <3>2. D = {} /\ DOMAIN held' = D \cup {1} /\ held'[1] = b /\ 1 \notin D
      BY <3>1 DEF D
    <3>3. OneMore(At(mem), D, held, image, C, At(mem), D \cup {1}, held', image, C, b)
      BY <1>6, <3>2, CountHeld
    <3>4. Counted(m, At(mem), D \cup {1}, held', image, C)
      BY <1>2, <1>10, <3>3, CountedMore
    <3> QED BY <1>2, <1>10, <2>1, <3>1, <3>2, <3>4
  <2>2. CASE tail # NoBuffer
    <3> DEFINE t == tail
    <3>0. /\ t \in Buffers /\ t # b /\ mem[t].kind = "chunk" /\ At(mem)[t]["next"] = NoBuffer
          /\ mem' = Decref(m2, b) /\ held' = held
      BY <1>1, <1>8, <2>2
    <3>1. m[b].refcnt > 0 /\ m[t].refcnt > 0
      BY <1>3, <1>9, <1>10, <3>0, CellOf
    <3> HIDE DEF t
    <3>2. /\ Memory(m1) /\ NewLink(At(mem), At(m1), t, "next", b)
          /\ \A x \in Buffers : m1[x].kind = m[x].kind
          /\ \A x \in Buffers : m1[x].refcnt = m[x].refcnt + One(x, b)
      BY <1>3, <1>9, <1>10, <3>0, <3>1, AtReloc DEF t
    <3> HIDE DEF m1
    <3>3. m1[b].refcnt > 0 /\ m1[t].refcnt > 0 /\ At(m1)[b]["prev"] = NoBuffer
      <4>1. At(m1)[b]["prev"] = At(mem)[b]["prev"]
        BY <1>3, <1>9, <3>0, <3>2 DEF NewLink
      <4> QED BY <1>3, <1>9, <1>10, <3>0, <3>1, <3>2, <4>1, CellOf DEF One
    <3>4. /\ Memory(m2) /\ NewLink(At(m1), At(m2), b, "prev", t)
          /\ \A x \in Buffers : m2[x].kind = m1[x].kind
          /\ \A x \in Buffers : m2[x].refcnt = m1[x].refcnt + One(x, t)
      BY <1>3, <1>9, <3>0, <3>2, <3>3, AtReloc DEF t
    <3> HIDE DEF m2
    <3>5. m2[b].refcnt > 1
      <4>1. m2[b].refcnt = m1[b].refcnt /\ m1[b].refcnt = m[b].refcnt + 1 /\ m[b].refcnt = mem[b].refcnt + 1
        BY <1>3, <1>10, <3>0, <3>1, <3>2, <3>4, CellOf DEF One, Grown
      <4> QED BY <1>3, <4>1
    <3>6. /\ Memory(mem') /\ At(mem') = At(m2)
          /\ \A x \in Buffers : mem'[x].kind = m2[x].kind
          /\ \A x \in Buffers : m2[x].refcnt = mem'[x].refcnt + One(x, b)
      BY <1>3, <3>0, <3>4, <3>5, AtDecref
    <3>7. \A x \in Buffers : mem'[x].refcnt = mem[x].refcnt + One(x, b) + One(x, t)
      <4> SUFFICES ASSUME NEW x \in Buffers
                   PROVE  mem'[x].refcnt = mem[x].refcnt + One(x, b) + One(x, t)
        OBVIOUS
      <4>1. mem'[x].refcnt \in Nat /\ mem[x].refcnt \in Nat /\ One(x, b) \in Nat /\ One(x, t) \in Nat
        BY <1>2, <3>6, CellOf DEF One
      <4>2. /\ m[x].refcnt = mem[x].refcnt + One(x, b) /\ m1[x].refcnt = m[x].refcnt + One(x, b)
            /\ m2[x].refcnt = m1[x].refcnt + One(x, t) /\ m2[x].refcnt = mem'[x].refcnt + One(x, b)
        BY <1>10, <3>2, <3>4, <3>6 DEF Grown
      <4> QED BY <4>1, <4>2
    <3>8. OneMore(At(mem), D, held, image, C, At(m1), D, held, image, C, b)
      BY <1>6, <3>2, CountLink
    <3>9. OneMore(At(m1), D, held, image, C, At(m2), D, held, image, C, t)
      BY <1>6, <3>4, CountLink
    <3>10. Counted(mem', At(m2), D, held, image, C)
      BY <1>2, <1>6, <3>7, <3>8, <3>9, CountedTwice
    <3>11. DOMAIN held' = D
      BY <3>0 DEF D
    <3>12. /\ mem'[b].kind = "chunk" /\ \A x \in Buffers : x # b => mem'[x].kind = mem[x].kind
      BY <1>3, <1>10, <3>2, <3>4, <3>6
    <3>13. \A x \in Buffers, f \in Fields :
             \/ At(mem')[x][f] = At(mem)[x][f] \/ (x = t /\ f = "next") \/ (x = b /\ f = "prev")
      BY <3>2, <3>4, <3>6 DEF NewLink
    <3>14. At(mem')[t]["next"] = b /\ At(mem')[b]["prev"] = t /\ At(mem') \in Linked
      BY <1>9, <3>0, <3>2, <3>4, <3>6 DEF NewLink
    <3> QED BY <2>2, <3>0, <3>6, <3>10, <3>11, <3>12, <3>13, <3>14 DEF t
  <2> QED BY <2>1, <2>2
<1>13. PICK O2 \in [Buffers -> Somewhere] : O2[b] = u /\ \A x \in Buffers : x # b => O2[x] = O[x]
  <2>1. [O EXCEPT ![b] = u] \in [Buffers -> Somewhere]
    BY <1>3, <1>6 DEF Somewhere
  <2> QED BY <1>3, <2>1
<1>14. PICK R2 \in [Buffers -> Nat] :
         /\ R2[b] = (IF tail = NoBuffer THEN 1 ELSE R[tail] + 1)
         /\ \A x \in Buffers : x # b => R2[x] = R[x]
  <2> DEFINE r == IF tail = NoBuffer THEN 1 ELSE R[tail] + 1
  <2>1. r \in Nat
    BY <1>8
  <2> HIDE DEF r
  <2>2. [R EXCEPT ![b] = r] \in [Buffers -> Nat]
    BY <2>1
  <2> QED BY <1>3, <2>2 DEF r
<1>15. R2[b] \in 1 .. MaxChunks /\ R2[b] + (Len(Tail(todo)) - 2) <= MaxChunks
  <2> DEFINE n == Len(todo)
             k == Len(Tail(todo))
  <2>1. n \in Nat /\ n >= 3 /\ k = n - 1 /\ n - 2 <= MaxChunks /\ MaxChunks \in Nat
    BY <1>5 DEF UploadLeft, BuffersAssumption
  <2>2. tail # NoBuffer => R[tail] \in Nat /\ R[tail] + (n - 2) <= MaxChunks
    BY <1>8
  <2> HIDE DEF n, k
  <2>3. R2[b] \in 1 .. MaxChunks /\ R2[b] + (k - 2) <= MaxChunks
    BY <1>14, <2>1, <2>2
  <2> QED BY <2>3 DEF k
<1>16. Grows(mem, mem', At(mem), At(mem'), D, held, DOMAIN held', held', C, C, O, O2, R, R2, image, NoBuffer, {b})
  <2> DEFINE N == {b}
  <2>0. b \in N /\ \A x \in N : x = b
    OBVIOUS
  <2> HIDE DEF N
  <2>1. N \subseteq Buffers /\ C \subseteq Buffers /\ At(mem) \in Linked /\ At(mem') \in Linked
    BY <1>2, <1>3, <1>6, <1>12, <2>0
  <2>2. \A x \in N : mem[x].refcnt = 0 /\ \A f \in Fields : At(mem)[x][f] = NoBuffer
    BY <1>3, <1>10, <2>0
  <2>3. \A x \in Buffers \ N : mem'[x].kind = mem[x].kind /\ O2[x] = O[x] /\ R2[x] = R[x]
    BY <1>12, <1>13, <1>14, <2>0
  <2>4. \A x \in Buffers \ N : mem[x].at["data"] # NoBuffer => mem'[x].at["data"] # NoBuffer
    <3>1. \A x \in Buffers : At(mem')[x]["data"] = At(mem)[x]["data"]
      BY <1>9, <1>12
    <3> QED BY <1>2, <1>12, <3>1, LinksAt
  <2>5. \A x \in Buffers, f \in Fields : At(mem)[x][f] # NoBuffer => At(mem')[x][f] = At(mem)[x][f]
    BY <1>8, <1>10, <1>12
  <2>6. \A x \in Buffers \ N : At(mem')[x]["prev"] = At(mem)[x]["prev"]
    BY <1>9, <1>12, <2>0
  <2>7. ASSUME NEW x \in Buffers, NEW f \in Fields,
               At(mem)[x][f] = NoBuffer /\ At(mem')[x][f] # NoBuffer
        PROVE  LinkFits(mem', At(mem'), O2, R2, x, f, At(mem')[x][f])
    <3>1. tail # NoBuffer /\ ((x = tail /\ f = "next") \/ (x = b /\ f = "prev"))
      BY <1>12, <2>7
    <3>2. /\ tail \in Buffers /\ tail # b /\ mem'[tail].kind = "chunk" /\ mem'[b].kind = "chunk"
          /\ O2[tail] = u /\ O2[b] = u /\ R2[b] = R2[tail] + 1
      BY <1>8, <1>12, <1>13, <1>14, <3>1
    <3>3. CASE x = tail /\ f = "next"
      BY <1>12, <3>1, <3>2, <3>3 DEF LinkFits, Fits
    <3>4. CASE x = b /\ f = "prev"
      BY <1>12, <3>1, <3>2, <3>4 DEF LinkFits, Fits
    <3> QED BY <3>1, <3>3, <3>4
  <2>8. \A x \in Buffers \ N : x \in C <=> x \in C
    OBVIOUS
  <2>9. \A x \in N : (mem'[x].kind \in CommandKinds <=> x \in C) /\ (x \in C => O2[x] = x)
    BY <1>7, <1>12, <2>0 DEF CommandKinds, C
  <2>10. /\ \A x \in N : mem'[x].kind \in PartKinds => O2[x] \in C
         /\ \A x \in N : mem'[x].kind = "bitmap" =>
              mem'[x].at["data"] # NoBuffer /\ At(mem')[O2[x]]["src"] = x
    BY <1>6, <1>12, <1>13, <2>0
  <2>11. \A x \in Buffers \ N : HeldAt(D, held, x) # {} =>
           HeldAt(DOMAIN held', held', x) # {} \/ \E y \in Buffers : At(mem')[y]["data"] = x
    <3>1. CASE tail = NoBuffer
      <4>1. D = {}
        BY <1>5, <3>1 DEF D
      <4> QED BY <4>1 DEF HeldAt
    <3>2. CASE tail # NoBuffer
      BY <1>1, <3>2 DEF D
    <3> QED BY <3>1, <3>2
  <2>12. \A x \in N : mem'[x].kind = "chunk" =>
           R2[x] \in 1 .. MaxChunks /\ Anchored(At(mem'), DOMAIN held', held', NoBuffer, x)
    <3>1. Anchored(At(mem'), DOMAIN held', held', NoBuffer, b)
      <4>1. CASE tail = NoBuffer
        <5>1. DOMAIN held' = {1} /\ held'[1] = b
          BY <1>1, <4>1
        <5>2. 1 \in HeldAt(DOMAIN held', held', b)
          BY <5>1 DEF HeldAt
        <5> QED BY <5>2 DEF Anchored
      <4>2. CASE tail # NoBuffer
        BY <1>12, <4>2 DEF Anchored
      <4> QED BY <4>1, <4>2
    <3> QED BY <1>15, <2>0, <3>1
  <2>13. Imaging(mem', image)
    <3>1. ASSUME NEW x \in Buffers PROVE mem'[x].kind = "surface" <=> ImageOf(image, x) # {}
      <4>1. CASE x = b
        BY <1>7, <1>12, <4>1
      <4>2. CASE x # b
        BY <1>2, <1>12, <4>2 DEF Shape, Imaging
      <4> QED BY <4>1, <4>2
    <3> QED BY <3>1 DEF Imaging
  <2>14. Grows(mem, mem', At(mem), At(mem'), D, held, DOMAIN held', held', C, C, O, O2, R, R2, image, NoBuffer, N)
    BY <2>1, <2>2, <2>3, <2>4, <2>5, <2>6, <2>7, <2>8, <2>9, <2>10, <2>11, <2>12, <2>13 DEF Grows
  <2> QED BY <2>14 DEF N
<1>17. HeldFits(mem', At(mem'), todo', building', held', tail', O2, R2)
  <2>1. todo' = Tail(todo) /\ building' = u /\ tail' = b
    BY <1>1
  <2>2. mem'[u].kind = "copy" /\ u \in Buffers /\ \A f \in Fields : At(mem')[u][f] = NoBuffer
    BY <1>6, <1>8, <1>12
  <2>3. mem'[held'[1]].kind = "chunk" /\ At(mem')[held'[1]]["prev"] = NoBuffer /\ O2[held'[1]] = u
    <3>1. CASE tail = NoBuffer
      <4>1. held'[1] = b
        BY <1>1, <3>1
      <4> QED BY <1>3, <1>9, <1>10, <1>12, <1>13, <3>1, <4>1
    <3>2. CASE tail # NoBuffer
      <4>1. held'[1] = held[1]
        BY <1>1, <3>2
      <4> QED BY <1>8, <1>9, <1>12, <1>13, <3>2, <4>1
    <3> QED BY <3>1, <3>2
  <2>4. mem'[b].kind = "chunk" /\ At(mem')[b]["next"] = NoBuffer /\ O2[b] = u
    BY <1>3, <1>8, <1>9, <1>10, <1>12, <1>13
  <2> QED BY <1>5, <1>15, <2>1, <2>2, <2>3, <2>4 DEF HeldFits
<1>18. building' \notin pushed \cup released
  BY <1>1, <1>2 DEF Apart, u
<1>19. HereInv(O2, R2)'
  BY <1>1, <1>11, <1>12, <1>13, <1>14, <1>16, <1>17, <1>18, Built DEF D, C
<1> QED BY <1>13, <1>14, <1>19
LEMMA AllocBitmapHere ==
  ASSUME BuffersAssumption, Staged, NEW O \in [Buffers -> Somewhere], NEW R \in [Buffers -> Nat],
         HereInv(O, R), AllocBitmap
  PROVE  \E O2 \in [Buffers -> Somewhere] : HereInv(O2, R)'
<1> DEFINE b == NewBuffer
           head == held[1]
           m == Alloc(mem, b, "bitmap")
           m1 == Reloc(m, b, "data", head)
           m2 == Decref(m1, head)
           C == Current
           D == DOMAIN held
           u == building
<1>1. /\ gc = NoGc /\ gc' = NoGc /\ todo # <<>> /\ Head(todo).do = "bitmap" /\ FreeIn(mem) # {}
      /\ tail' = NoBuffer /\ todo' = Tail(todo) /\ building' = u /\ held' = <<b>>
      /\ mem' = LinkTo(m2, b)
      /\ UNCHANGED <<image, pushed, released, vtSema, dropped>>
  BY DEF AllocBitmap, Needs, outside
<1>2. /\ Memory(mem) /\ At(mem) \in Linked
      /\ Counted(mem, At(mem), D, held, image, C)
      /\ Shape(mem, At(mem), D, held, image, C, O, R, NoBuffer)
      /\ HeldFits(mem, At(mem), todo, u, held, tail, O, R)
      /\ Apart
  BY <1>1, Between
<1>3. b \in Buffers /\ mem[b].kind = "none" /\ b # NoBuffer /\ mem[b].refcnt = 0
  BY <1>1, <1>2, NewBufferIs, CellOf
<1>4. todo \in Seq(StepSet) /\ Head(todo) = todo[1] /\ todo[1].do = "bitmap" /\ held \in Seq(Buffers)
  BY <1>1, Rest DEF Staged
<1>5. /\ UploadLeft(todo) /\ Len(todo) = 2 /\ u # NoBuffer /\ tail # NoBuffer /\ Len(held) = 1
      /\ todo[1].field = "src" /\ Len(Tail(todo)) = 1 /\ \A k : AddLeft(Tail(todo), k)
  BY <1>1, <1>4, BitmapTaken DEF Staged
<1>6. IsFiniteSet(D) /\ C \subseteq Buffers /\ u \in C
  BY <1>5, CurrentIs
<1>7. /\ \A x \in Buffers, f \in Fields : At(mem)[x][f] # b
      /\ HeldAt(D, held, b) = {} /\ ImageOf(image, b) = {} /\ b \notin C
  BY <1>2, <1>3, <1>6, Fresh
<1>8. /\ mem[u].kind = "copy" /\ u # b /\ u \in Buffers
      /\ \A f \in Fields : At(mem)[u][f] = NoBuffer
      /\ mem[head].kind = "chunk" /\ At(mem)[head]["prev"] = NoBuffer /\ O[head] = u
      /\ D = {1} /\ head \in Buffers /\ head # b /\ head # u
  <2>1. D = {1} /\ head \in Buffers
    BY <1>4, <1>5, OneHeld
  <2> QED BY <1>2, <1>3, <1>5, <1>6, <1>7, <2>1 DEF HeldFits
<1>9. mem' = Reloc(m2, u, "src", b)
  BY <1>1, <1>4, <1>5 DEF LinkTo
<1>10. "bitmap" \in Kinds \ {"none"} /\ {"next", "prev", "src", "data"} \subseteq Fields
  BY DEF Kinds, PartKinds, Fields
<1> HIDE DEF b, u, head
<1>11. /\ Memory(m) /\ At(m) = At(mem) /\ m[b].kind = "bitmap"
       /\ \A f \in Fields : At(mem)[b][f] = NoBuffer
       /\ \A x \in Buffers : x # b => m[x].kind = mem[x].kind
       /\ Grown(mem, m, b)
  BY <1>2, <1>3, <1>10, AtAlloc DEF Grown
<1>12. Current' = C
  BY <1>1 DEF Current, u
<1> HIDE DEF m, C, D
(* the image's link to its first chunk, which takes over from X *)
<1>13. /\ Memory(m1) /\ NewLink(At(mem), At(m1), b, "data", head)
       /\ \A x \in Buffers : m1[x].kind = m[x].kind
       /\ \A x \in Buffers : m1[x].refcnt = m[x].refcnt + One(x, head)
  <2>1. m[b].refcnt > 0 /\ m[head].refcnt > 0
    BY <1>3, <1>8, <1>10, <1>11, CellOf
  <2> QED BY <1>3, <1>8, <1>10, <1>11, <2>1, AtReloc
<1> HIDE DEF m1
<1>14. m1[head].refcnt > 1
  <2>1. mem[head].refcnt > 0 /\ mem[head].refcnt \in Nat
    BY <1>2, <1>8, CellOf
  <2>2. m1[head].refcnt = mem[head].refcnt + 1
    BY <1>8, <1>11, <1>13, <2>1 DEF Grown, One
  <2> QED BY <2>1, <2>2
<1>15. /\ Memory(m2) /\ At(m2) = At(m1)
       /\ \A x \in Buffers : m2[x].kind = m1[x].kind
       /\ \A x \in Buffers : m1[x].refcnt = m2[x].refcnt + One(x, head)
  BY <1>8, <1>13, <1>14, AtDecref
<1> HIDE DEF m2
(* the command's link to the image *)
<1>16. /\ Memory(mem') /\ NewLink(At(m1), At(mem'), u, "src", b)
       /\ \A x \in Buffers : mem'[x].kind = m2[x].kind
       /\ \A x \in Buffers : mem'[x].refcnt = m2[x].refcnt + One(x, b)
  <2>1. m2[b].refcnt > 0 /\ m2[u].refcnt > 0
    BY <1>3, <1>8, <1>11, <1>13, <1>15, CellOf
  <2>2. At(m2)[u]["src"] = NoBuffer
    BY <1>8, <1>10, <1>13, <1>15 DEF NewLink
  <2> QED BY <1>3, <1>8, <1>9, <1>10, <1>15, <2>1, <2>2, AtReloc
<1>17. /\ mem'[b].kind = "bitmap" /\ \A x \in Buffers : x # b => mem'[x].kind = mem[x].kind
       /\ At(mem') \in Linked
       /\ \A x \in Buffers, f \in Fields :
            \/ At(mem')[x][f] = At(mem)[x][f]
            \/ x = b /\ f = "data"
            \/ x = u /\ f = "src"
       /\ At(mem')[b]["data"] = head /\ At(mem')[u]["src"] = b
  BY <1>3, <1>8, <1>10, <1>11, <1>13, <1>15, <1>16 DEF NewLink
<1>18. DOMAIN held' = {1} /\ held'[1] = b
  BY <1>1
<1>19. Counted(mem', At(mem'), {1}, held', image, C)
  <2>0. IsFiniteSet({}) /\ {} \cup {1} = {1} /\ 1 \notin {} /\ held[1] = head
    BY FS_EmptySet DEF head
  <2>1. OneMore(At(mem), {}, held, image, C, At(mem), {1}, held, image, C, head)
    <3>1. OneMore(At(mem), {}, held, image, C, At(mem), {} \cup {1}, held, image, C, head)
      BY <2>0, CountHeld
    <3> QED BY <2>0, <3>1
  <2>2. OneMore(At(mem), {}, held, image, C, At(m1), {}, held, image, C, head)
    BY <1>13, <2>0, CountLink
  <2>3. Counted(mem, At(m1), {}, held, image, C)
    <3>1. Counted(mem, At(mem), {1}, held, image, C)
      BY <1>2, <1>8
    <3> QED BY <2>1, <2>2, <3>1 DEF Counted, OneMore
  <2>4. OneMore(At(m1), {}, held, image, C, At(mem'), {}, held, image, C, b)
    BY <1>16, <2>0, CountLink
  <2>5. OneMore(At(mem'), {}, held, image, C, At(mem'), {1}, held', image, C, b)
    <3>1. OneMore(At(mem'), {}, held, image, C, At(mem'), {} \cup {1}, held', image, C, b)
      BY <1>18, <2>0, CountHeld
    <3> QED BY <2>0, <3>1
  <2>6. \A x \in Buffers : mem'[x].refcnt = mem[x].refcnt + One(x, b) + One(x, b)
    <3> SUFFICES ASSUME NEW x \in Buffers
                 PROVE  mem'[x].refcnt = mem[x].refcnt + One(x, b) + One(x, b)
      OBVIOUS
    <3>1. mem'[x].refcnt \in Nat /\ mem[x].refcnt \in Nat /\ m2[x].refcnt \in Nat
      BY <1>2, <1>15, <1>16, CellOf
    <3>2. One(x, b) \in Nat /\ One(x, head) \in Nat
      BY DEF One
    <3>3. /\ m[x].refcnt = mem[x].refcnt + One(x, b) /\ m1[x].refcnt = m[x].refcnt + One(x, head)
          /\ m1[x].refcnt = m2[x].refcnt + One(x, head) /\ mem'[x].refcnt = m2[x].refcnt + One(x, b)
      BY <1>11, <1>13, <1>15, <1>16 DEF Grown
    <3> QED BY <3>1, <3>2, <3>3
  <2> QED BY <2>0, <2>3, <2>4, <2>5, <2>6, CountedTwice
<1>20. PICK O2 \in [Buffers -> Somewhere] : O2[b] = u /\ \A x \in Buffers : x # b => O2[x] = O[x]
  <2>1. [O EXCEPT ![b] = u] \in [Buffers -> Somewhere]
    BY <1>8 DEF Somewhere
  <2> QED BY <1>3, <2>1
<1>21. O2[u] = u /\ O2[head] = u
  <2>1. O[u] = u
    BY <1>2, <1>6 DEF Shape, Rooted
  <2> QED BY <1>8, <1>20, <2>1
<1>22. Grows(mem, mem', At(mem), At(mem'), D, held, {1}, held', C, C, O, O2, R, R, image, NoBuffer, {b})
  <2> DEFINE N == {b}
  <2>0. b \in N /\ \A x \in N : x = b
    OBVIOUS
  <2> HIDE DEF N
  <2>1. N \subseteq Buffers /\ C \subseteq Buffers /\ At(mem) \in Linked /\ At(mem') \in Linked
    BY <1>2, <1>3, <1>6, <1>17, <2>0
  <2>2. \A x \in N : mem[x].refcnt = 0 /\ \A f \in Fields : At(mem)[x][f] = NoBuffer
    BY <1>3, <1>11, <2>0
  <2>3. \A x \in Buffers \ N : mem'[x].kind = mem[x].kind /\ O2[x] = O[x] /\ R[x] = R[x]
    BY <1>17, <1>20, <2>0
  <2>4. \A x \in Buffers \ N : mem[x].at["data"] # NoBuffer => mem'[x].at["data"] # NoBuffer
    <3>1. \A x \in Buffers \ N : At(mem')[x]["data"] = At(mem)[x]["data"]
      BY <1>10, <1>17, <2>0
    <3> QED BY <1>2, <1>16, <3>1, LinksAt
  <2>5. \A x \in Buffers, f \in Fields : At(mem)[x][f] # NoBuffer => At(mem')[x][f] = At(mem)[x][f]
    BY <1>8, <1>11, <1>17
  <2>6. \A x \in Buffers \ N : At(mem')[x]["prev"] = At(mem)[x]["prev"]
    BY <1>10, <1>17, <2>0
  <2>7. ASSUME NEW x \in Buffers, NEW f \in Fields,
               At(mem)[x][f] = NoBuffer /\ At(mem')[x][f] # NoBuffer
        PROVE  LinkFits(mem', At(mem'), O2, R, x, f, At(mem')[x][f])
    <3>1. (x = b /\ f = "data") \/ (x = u /\ f = "src")
      BY <1>17, <2>7
    <3>2. mem'[b].kind = "bitmap" /\ mem'[u].kind = "copy" /\ mem'[head].kind = "chunk"
      BY <1>8, <1>17
    <3>3. CASE x = b /\ f = "data"
      <4>1. At(mem')[head]["prev"] = NoBuffer
        BY <1>8, <1>10, <1>17
      <4> QED BY <1>17, <1>20, <1>21, <3>2, <3>3, <4>1 DEF LinkFits, Fits
    <3>4. CASE x = u /\ f = "src"
      BY <1>17, <1>20, <1>21, <3>2, <3>4 DEF LinkFits, Fits
    <3> QED BY <3>1, <3>3, <3>4
  <2>8. \A x \in Buffers \ N : x \in C <=> x \in C
    OBVIOUS
  <2>9. \A x \in N : (mem'[x].kind \in CommandKinds <=> x \in C) /\ (x \in C => O2[x] = x)
    BY <1>7, <1>17, <2>0 DEF CommandKinds, C
  <2>10. /\ \A x \in N : mem'[x].kind \in PartKinds => O2[x] \in C
         /\ \A x \in N : mem'[x].kind = "bitmap" =>
              mem'[x].at["data"] # NoBuffer /\ At(mem')[O2[x]]["src"] = x
    <3>1. mem'[b].at["data"] = head /\ head # NoBuffer
      BY <1>3, <1>8, <1>16, <1>17, LinksAt, FieldsAre
    <3> QED BY <1>6, <1>17, <1>20, <2>0, <3>1
  <2>11. \A x \in Buffers \ N : HeldAt(D, held, x) # {} =>
           HeldAt({1}, held', x) # {} \/ \E y \in Buffers : At(mem')[y]["data"] = x
    <3> SUFFICES ASSUME NEW x \in Buffers, HeldAt(D, held, x) # {}
                 PROVE  At(mem')[b]["data"] = x
      BY <1>3
    <3>1. x = head
      BY <1>8 DEF HeldAt, head
    <3> QED BY <1>17, <3>1
  <2>12. \A x \in N : mem'[x].kind = "chunk" =>
           R[x] \in 1 .. MaxChunks /\ Anchored(At(mem'), {1}, held', NoBuffer, x)
    BY <1>17, <2>0
  <2>13. Imaging(mem', image)
    <3>1. ASSUME NEW x \in Buffers PROVE mem'[x].kind = "surface" <=> ImageOf(image, x) # {}
      <4>1. CASE x = b
        BY <1>7, <1>17, <4>1
      <4>2. CASE x # b
        BY <1>2, <1>17, <4>2 DEF Shape, Imaging
      <4> QED BY <4>1, <4>2
    <3> QED BY <3>1 DEF Imaging
  <2>14. Grows(mem, mem', At(mem), At(mem'), D, held, {1}, held', C, C, O, O2, R, R, image, NoBuffer, N)
    BY <2>1, <2>2, <2>3, <2>4, <2>5, <2>6, <2>7, <2>8, <2>9, <2>10, <2>11, <2>12, <2>13 DEF Grows
  <2> QED BY <2>14 DEF N
<1>23. HeldFits(mem', At(mem'), todo', building', held', tail', O2, R)
  <2>1. todo' = Tail(todo) /\ building' = u /\ tail' = NoBuffer
    BY <1>1
  <2>2. ~UploadLeft(todo') /\ Len(todo') = 1
    <3>1. Len(todo') = 1
      BY <1>5, <2>1
    <3>2. UploadLeft(todo') => Len(todo') >= 2
      BY DEF UploadLeft
    <3> QED BY <3>1, <3>2
  <2>6. \A i \in 1 .. Len(todo') - 1 : FALSE
    BY <2>2
  <2>3. At(mem')[u]["src"] = b /\ b # NoBuffer
    BY <1>3, <1>17
  <2>4. \A i \in DOMAIN held' : \E f \in Fields : At(mem')[u][f] = held'[i]
    BY <1>10, <1>18, <2>3
  <2>5. AddLeft(todo', mem'[u].kind)
    BY <1>5, <2>1
  <2> QED BY <1>5, <2>1, <2>2, <2>3, <2>4, <2>5, <2>6 DEF HeldFits
<1>24. building' \notin pushed \cup released
  BY <1>1, <1>2 DEF Apart, u
<1>25. /\ Counted(mem', At(mem'), DOMAIN held', held', image', Current')
       /\ Grows(mem, mem', At(mem), At(mem'), DOMAIN held, held, DOMAIN held', held',
                Current, Current', O, O2, R, R, image', NoBuffer, {b})
  BY <1>1, <1>12, <1>18, <1>19, <1>22 DEF D, C
<1>26. HereInv(O2, R)'
  BY <1>1, <1>16, <1>20, <1>23, <1>24, <1>25, Built
<1> QED BY <1>20, <1>26
(* A buffer t taken for a command under construction, in memory m0; N are  *)
(* the ones that were free.                                                *)
Taken(m0, t, N) ==
  /\ Memory(m0) /\ At(m0) = At(mem) /\ t \in Buffers /\ m0[t].refcnt > 0 /\ N \subseteq {t}
  /\ \A x \in N : mem[x].refcnt = 0
  /\ \A x \in Buffers \ N : m0[x].kind = mem[x].kind
  /\ \A x \in Buffers :
       m0[x].refcnt = Count(At(mem), DOMAIN held, held, image', Current, x) + One(x, t)
  /\ m0[t].kind \in {"surface", "transform", "shape"}
  /\ Imaging(m0, image')

LEMMA TakenFree ==
  ASSUME BuffersAssumption, Staged, NEW O, NEW R, HereInv(O, R), gc = NoGc,
         NEW m0, NEW t, NEW N, Taken(m0, t, N)
  PROVE  \A x \in N : /\ x = t /\ x \notin Current
                      /\ \A f \in Fields : At(mem)[x][f] = NoBuffer
<1> SUFFICES ASSUME NEW x \in N
             PROVE  /\ x = t /\ x \notin Current
                    /\ \A f \in Fields : At(mem)[x][f] = NoBuffer
  OBVIOUS
<1>1. x = t /\ x \in Buffers /\ mem[x].refcnt = 0
  BY DEF Taken
<1>2. /\ Memory(mem) /\ At(mem) \in Linked
      /\ Counted(mem, At(mem), DOMAIN held, held, image, Current)
  BY Between
<1>3. x \notin Current
  BY <1>1, <1>2, CurrentIs, Fresh
<1>4. mem[x].at = Nowhere
  BY <1>1, <1>2, CellOf DEF Free
<1>5. \A f \in Fields : At(mem)[x][f] = NoBuffer
  BY <1>1, <1>2, <1>4, LinksAt DEF Nowhere
<1> QED BY <1>1, <1>3, <1>5

LEMMA FieldAdded ==
  ASSUME BuffersAssumption, Staged, NEW O \in [Buffers -> Somewhere], NEW R \in [Buffers -> Nat],
         HereInv(O, R), gc = NoGc, gc' = NoGc, building # NoBuffer, todo # <<>>,
         NEW m0, NEW t, NEW N, Taken(m0, t, N), m0[t].kind = Head(todo).do,
         UNCHANGED <<building, tail, pushed, released, dropped>>, todo' = Tail(todo),
         held' = Append(held, t), mem' = LinkTo(m0, t),
         NEW O2 \in [Buffers -> Somewhere], \A x \in Buffers \ N : O2[x] = O[x],
         m0[t].kind # "surface" => O2[t] = building
  PROVE  HereInv(O2, R)'
<1> DEFINE C == Current
           D == DOMAIN held
           u == building
           f == Head(todo).field
           do == Head(todo).do
<1>1. /\ Memory(mem) /\ At(mem) \in Linked
      /\ Counted(mem, At(mem), D, held, image, C)
      /\ Shape(mem, At(mem), D, held, image, C, O, R, NoBuffer)
      /\ HeldFits(mem, At(mem), todo, u, held, tail, O, R)
      /\ Apart
  BY Between
<1>2. /\ todo \in Seq(StepSet) /\ Head(todo) = todo[1] /\ Tail(todo) \in Seq(StepSet)
      /\ Len(todo) \in Nat /\ Len(Tail(todo)) = Len(todo) - 1
      /\ \A i \in 1 .. Len(todo) - 1 : Tail(todo)[i] = todo[i + 1]
      /\ held \in Seq(Buffers) /\ image \in [Imaged -> Somewhere]
  BY Rest DEF Staged
<1>3. IsFiniteSet(D) /\ C \subseteq Buffers /\ u \in C /\ u \in Buffers
  BY CurrentIs
<1>4. /\ Memory(m0) /\ At(m0) = At(mem) /\ t \in Buffers /\ m0[t].refcnt > 0 /\ N \subseteq {t}
      /\ \A x \in N : mem[x].refcnt = 0
      /\ \A x \in Buffers \ N : m0[x].kind = mem[x].kind
      /\ \A x \in Buffers : m0[x].refcnt = Count(At(mem), D, held, image', C, x) + One(x, t)
      /\ do \in {"surface", "transform", "shape"} /\ m0[t].kind = do
      /\ Imaging(m0, image')
  BY DEF Taken
<1>5. \A x \in N : x = t /\ x \notin C /\ \A h \in Fields : At(mem)[x][h] = NoBuffer
  BY TakenFree
<1>6. mem[u].kind \in CommandKinds /\ O[u] = u /\ u \notin N /\ u # t /\ O2[u] = u
  <2>1. mem[u].kind \in CommandKinds /\ O[u] = u
    BY <1>1, <1>3 DEF Shape, Rooted
  <2>2. u \notin N
    BY <1>3, <1>5
  <2>3. u # t
    BY <1>3, <1>4, <2>1, <2>2 DEF CommandKinds
  <2> QED BY <1>3, <2>1, <2>2, <2>3
<1>7. /\ tail = NoBuffer /\ ~UploadLeft(todo) /\ Len(todo) >= 2
      /\ AddLeft(todo, mem[u].kind)
      /\ \A i \in 1 .. Len(todo) - 1 : At(mem)[u][todo[i].field] = NoBuffer
      /\ \A i \in DOMAIN held : mem[held[i]].kind = "surface" \/ \E h \in Fields : At(mem)[u][h] = held[i]
  <2>1. tail = NoBuffer /\ ~UploadLeft(todo) /\ Len(todo) >= 2
    BY <1>2, <1>4, FieldTaken DEF Staged
  <2> QED BY <1>1, <2>1 DEF HeldFits
<1>8. /\ AddLeft(Tail(todo), mem[u].kind) /\ ~UploadLeft(Tail(todo)) /\ Adds(mem[u].kind, todo[1])
      /\ \A i \in 1 .. Len(todo) - 2 : Tail(todo)[i].field # f
  <2>1. AddLeft(Tail(todo), mem[u].kind) /\ ~UploadLeft(Tail(todo)) /\ Adds(mem[u].kind, todo[1])
    BY <1>2, <1>4, <1>6, <1>7, FieldTaken DEF Staged
  <2>2. \A i \in 1 .. Len(todo) - 2 : Tail(todo)[i].field # todo[1].field
    BY <1>2, <1>7, AddsOne
  <2> QED BY <1>2, <2>1, <2>2
<1>9. /\ f \in {"src", "mask", "src_transform", "mask_transform", "shape"} /\ f \in Fields
      /\ f \notin {"next", "prev", "data", "none"} /\ Fits(mem[u].kind, f, do)
      /\ mem[u].kind # "copy" /\ At(mem)[u][f] = NoBuffer
  <2>1. Adds(mem[u].kind, Head(todo))
    BY <1>2, <1>8
  <2>2. /\ f \in {"src", "mask", "src_transform", "mask_transform", "shape"}
        /\ Fits(mem[u].kind, f, do) /\ mem[u].kind # "copy"
    BY <2>1 DEF Adds, Fits
  <2>3. At(mem)[u][f] = NoBuffer
    <3> DEFINE n == Len(todo)
    <3>1. n \in Nat /\ n >= 2 /\ \A i \in 1 .. n - 1 : At(mem)[u][todo[i].field] = NoBuffer
      BY <1>2, <1>7
    <3> HIDE DEF n
    <3>2. 1 \in 1 .. n - 1
      BY <3>1
    <3> QED BY <1>2, <3>1, <3>2
  <2> QED BY <2>2, <2>3 DEF Fields
<1>10. mem' = Reloc(m0, u, f, t)
  BY <1>9 DEF LinkTo
<1> HIDE DEF f, do, C, D, u
<1>11. /\ Memory(mem') /\ NewLink(At(mem), At(mem'), u, f, t)
       /\ \A x \in Buffers : mem'[x].kind = m0[x].kind
       /\ \A x \in Buffers : mem'[x].refcnt = m0[x].refcnt + One(x, t)
  <2>1. m0[u].refcnt > 0
    <3>1. m0[u].kind # "none"
      BY <1>3, <1>4, <1>6 DEF CommandKinds
    <3> QED BY <1>3, <1>4, <3>1, CellOf
  <2> QED BY <1>3, <1>4, <1>9, <1>10, <2>1, AtReloc
<1>12. /\ At(mem') \in Linked /\ At(mem')[u][f] = t
       /\ \A x \in Buffers, h \in Fields : At(mem')[x][h] = At(mem)[x][h] \/ (x = u /\ h = f)
  BY <1>11 DEF NewLink
<1> DEFINE e == Len(held) + 1
<1>13. /\ DOMAIN held' = D \cup {e} /\ e \notin D /\ held'[e] = t /\ \A i \in D : held'[i] = held[i]
  BY <1>2, <1>4, AppendIs DEF D
<1> HIDE DEF e
<1>14. Counted(mem', At(mem'), DOMAIN held', held', image', C)
  <2>1. OneMore(At(mem), D, held, image', C, At(mem), DOMAIN held', held', image', C, t)
    <3>1. OneMore(At(mem), D, held, image', C, At(mem), D \cup {e}, held', image', C, t)
      BY <1>3, <1>13, CountHeld
    <3> QED BY <1>13, <3>1
  <2>2. OneMore(At(mem), DOMAIN held', held', image', C, At(mem'), DOMAIN held', held', image', C, t)
    <3>1. IsFiniteSet(DOMAIN held')
      BY <1>3, <1>13, FS_AddElement
    <3> QED BY <1>11, <3>1, CountLink
  <2>3. Counted(m0, At(mem), DOMAIN held', held', image', C)
    BY <1>4, <2>1 DEF Counted, OneMore
  <2>4. Grown(m0, mem', t)
    BY <1>11 DEF Grown
  <2> QED BY <2>2, <2>3, <2>4, CountedMore
<1>15. Grows(mem, mem', At(mem), At(mem'), D, held, DOMAIN held', held', C, C, O, O2, R, R, image', NoBuffer, N)
  <2>1. N \subseteq Buffers /\ C \subseteq Buffers /\ At(mem) \in Linked /\ At(mem') \in Linked
    BY <1>1, <1>3, <1>4, <1>12
  <2>2. \A x \in N : mem[x].refcnt = 0 /\ \A h \in Fields : At(mem)[x][h] = NoBuffer
    BY <1>4, <1>5
  <2>3. \A x \in Buffers \ N : mem'[x].kind = mem[x].kind /\ O2[x] = O[x] /\ R[x] = R[x]
    BY <1>4, <1>11
  <2>4. \A x \in Buffers \ N : mem[x].at["data"] # NoBuffer => mem'[x].at["data"] # NoBuffer
    <3>1. \A x \in Buffers : At(mem')[x]["data"] = At(mem)[x]["data"]
      BY <1>9, <1>12 DEF Fields
    <3> QED BY <1>1, <1>11, <3>1, LinksAt
  <2>5. \A x \in Buffers, h \in Fields : At(mem)[x][h] # NoBuffer => At(mem')[x][h] = At(mem)[x][h]
    BY <1>9, <1>12
  <2>6. \A x \in Buffers \ N : At(mem')[x]["prev"] = At(mem)[x]["prev"]
    BY <1>9, <1>12 DEF Fields
  <2>7. ASSUME NEW x \in Buffers, NEW h \in Fields,
               At(mem)[x][h] = NoBuffer /\ At(mem')[x][h] # NoBuffer
        PROVE  LinkFits(mem', At(mem'), O2, R, x, h, At(mem')[x][h])
    <3>1. x = u /\ h = f /\ At(mem')[x][h] = t
      BY <1>12, <2>7
    <3>2. mem'[u].kind = mem[u].kind /\ mem'[t].kind = do
      BY <1>3, <1>4, <1>6, <1>11
    <3>3. do # "surface" => O2[t] = O2[u]
      BY <1>4, <1>6 DEF u
    <3> QED BY <1>9, <3>1, <3>2, <3>3 DEF LinkFits
  <2>8. \A x \in Buffers \ N : x \in C <=> x \in C
    OBVIOUS
  <2>9. \A x \in N : mem'[x].kind = do
    BY <1>4, <1>5, <1>11
  <2>10. \A x \in N : (mem'[x].kind \in CommandKinds <=> x \in C) /\ (x \in C => O2[x] = x)
    BY <1>4, <1>5, <2>9 DEF CommandKinds
  <2>11. \A x \in N : mem'[x].kind \in PartKinds => O2[x] \in C
    BY <1>3, <1>4, <1>5, <2>9 DEF PartKinds, u
  <2>12. \A x \in N : mem'[x].kind # "bitmap" /\ mem'[x].kind # "chunk"
    BY <1>4, <2>9
  <2>13. \A x \in Buffers \ N : HeldAt(D, held, x) # {} => HeldAt(DOMAIN held', held', x) # {}
    BY <1>13 DEF HeldAt
  <2>14. Imaging(mem', image')
    BY <1>4, <1>11 DEF Imaging
  <2> QED BY <2>1, <2>2, <2>3, <2>4, <2>5, <2>6, <2>7, <2>8, <2>10, <2>11, <2>12, <2>13, <2>14 DEF Grows
<1>16. HeldFits(mem', At(mem'), todo', building', held', tail', O2, R)
  <2>1. mem'[u].kind = mem[u].kind
    BY <1>3, <1>4, <1>6, <1>11
  <2>2. ASSUME NEW i \in 1 .. Len(todo') - 1 PROVE At(mem')[u][todo'[i].field] = NoBuffer
    <3> DEFINE n == Len(todo)
    <3>1. /\ n \in Nat /\ n >= 2 /\ i \in 1 .. (n - 1) - 1
          /\ \A j \in 1 .. n - 1 : At(mem)[u][todo[j].field] = NoBuffer /\ Tail(todo)[j] = todo[j + 1]
          /\ \A j \in 1 .. n - 2 : Tail(todo)[j].field # f
          /\ todo' = Tail(todo)
      BY <1>2, <1>7, <1>8
    <3> HIDE DEF n
    <3>2. i \in 1 .. n - 2 /\ i \in 1 .. n - 1 /\ i + 1 \in 1 .. n - 1
      BY <3>1
    <3>3. todo'[i] = todo[i + 1] /\ todo'[i].field # f /\ At(mem)[u][todo'[i].field] = NoBuffer
      BY <3>1, <3>2
    <3>4. todo'[i].field \in Fields
      <4>1. \A j \in 1 .. Len(todo) - 1 : Adds(mem[u].kind, todo[j])
        BY <1>7 DEF AddLeft, Adding
      <4>2. Adds(mem[u].kind, todo[i + 1])
        BY <3>2, <4>1 DEF n
      <4> QED BY <3>3, <4>2 DEF Adds, Fields
    <3> QED BY <1>3, <1>12, <3>3, <3>4
  <2>3. ASSUME NEW i \in DOMAIN held'
        PROVE  mem'[held'[i]].kind = "surface" \/ \E h \in Fields : At(mem')[u][h] = held'[i]
    <3>1. CASE i = e
      BY <1>9, <1>12, <1>13, <3>1
    <3>2. CASE i # e
      <4>1. i \in D /\ held'[i] = held[i] /\ held[i] \in Buffers
        BY <1>2, <1>13, <3>2, ElementOfSeq, LenProperties DEF D
      <4>2. CASE mem[held[i]].kind = "surface"
        <5>1. mem[held[i]].refcnt # 0
          BY <1>1, <4>1, <4>2, CellOf
        <5>2. held[i] \notin N
          BY <1>4, <5>1
        <5> QED BY <1>4, <1>11, <4>1, <4>2, <5>2
      <4>3. CASE \E h \in Fields : At(mem)[u][h] = held[i]
        <5>1. held[i] # NoBuffer
          BY <4>1, FieldsAre
        <5> QED BY <1>3, <1>9, <1>12, <4>1, <4>3, <5>1
      <4> QED BY <1>7, <4>1, <4>2, <4>3 DEF D
    <3> QED BY <3>1, <3>2
  <2>4. todo' = Tail(todo) /\ building' = u /\ tail' = NoBuffer /\ u # NoBuffer
    BY <1>7 DEF u
  <2>5. ~UploadLeft(todo') /\ AddLeft(todo', mem'[u].kind) /\ mem'[u].kind # "copy"
    BY <1>8, <1>9, <2>1, <2>4
  <2> QED BY <2>2, <2>3, <2>4, <2>5 DEF HeldFits
<1>17. building' \notin pushed \cup released /\ Current' = C
  BY <1>1 DEF Apart, C, Current
<1> QED BY <1>11, <1>14, <1>15, <1>16, <1>17, Built DEF C, D
LEMMA AllocDataHere ==
  ASSUME BuffersAssumption, Staged, NEW O \in [Buffers -> Somewhere], NEW R \in [Buffers -> Nat],
         HereInv(O, R), AllocData
  PROVE  \E O2 \in [Buffers -> Somewhere] : HereInv(O2, R)'
<1> DEFINE b == NewBuffer
           k == Head(todo).do
           m0 == Alloc(mem, b, k)
<1>1. /\ gc = NoGc /\ gc' = NoGc /\ todo # <<>> /\ k \in {"transform", "shape"} /\ FreeIn(mem) # {}
      /\ todo' = Tail(todo) /\ held' = Append(held, b) /\ mem' = LinkTo(m0, b)
      /\ UNCHANGED <<image, building, tail, pushed, released, vtSema, dropped>>
  BY DEF AllocData, Needs, outside
<1>2. /\ Memory(mem) /\ At(mem) \in Linked
      /\ Counted(mem, At(mem), DOMAIN held, held, image, Current)
      /\ Shape(mem, At(mem), DOMAIN held, held, image, Current, O, R, NoBuffer)
  BY <1>1, Between
<1>3. b \in Buffers /\ mem[b].kind = "none" /\ mem[b].refcnt = 0
  BY <1>1, <1>2, NewBufferIs, CellOf
<1>4. building # NoBuffer /\ building \in Somewhere
  <2>1. todo \in Seq(StepSet) /\ k = todo[1].do
    BY <1>1, Rest DEF Staged
  <2> QED BY <1>1, <2>1, StageReads DEF Staged
<1>5. k \in Kinds \ {"none"} /\ k # "surface"
  BY <1>1 DEF Kinds, PartKinds
<1>6. ImageOf(image, b) = {}
  BY <1>2, <1>3, CurrentIs, Fresh
<1> HIDE DEF b, k
<1>7. /\ Memory(m0) /\ At(m0) = At(mem) /\ m0[b].kind = k
      /\ \A x \in Buffers : x # b => m0[x].kind = mem[x].kind
      /\ \A x \in Buffers : m0[x].refcnt = mem[x].refcnt + One(x, b)
  BY <1>2, <1>3, <1>5, AtAlloc
<1> HIDE DEF m0
<1>8. Taken(m0, b, {b})
  <2>1. m0[b].refcnt > 0
    BY <1>3, <1>5, <1>7, CellOf
  <2>2. Imaging(m0, image')
    <3> SUFFICES ASSUME NEW x \in Buffers PROVE m0[x].kind = "surface" <=> ImageOf(image, x) # {}
      BY <1>1 DEF Imaging
    <3>1. CASE x = b
      BY <1>5, <1>6, <1>7, <3>1
    <3>2. CASE x # b
      BY <1>2, <1>7, <3>2 DEF Shape, Imaging
    <3> QED BY <3>1, <3>2
  <2>3. \A x \in Buffers :
          m0[x].refcnt = Count(At(mem), DOMAIN held, held, image', Current, x) + One(x, b)
    BY <1>1, <1>2, <1>7 DEF Counted
  <2>4. \A x \in Buffers \ {b} : m0[x].kind = mem[x].kind
    BY <1>7
  <2>5. m0[b].kind \in {"surface", "transform", "shape"}
    BY <1>1, <1>7
  <2> QED BY <1>3, <1>7, <2>1, <2>2, <2>3, <2>4, <2>5 DEF Taken
<1>9. PICK O2 \in [Buffers -> Somewhere] : O2[b] = building /\ \A x \in Buffers \ {b} : O2[x] = O[x]
  <2>1. [O EXCEPT ![b] = building] \in [Buffers -> Somewhere]
    BY <1>4
  <2> QED BY <1>3, <2>1
<1>10. HereInv(O2, R)'
  BY <1>1, <1>4, <1>7, <1>8, <1>9, FieldAdded DEF k
<1> QED BY <1>9, <1>10

LEMMA SurfaceTaken ==
  ASSUME BuffersAssumption, Staged, NEW O, NEW R, HereInv(O, R), SurfaceImage, Head(todo).s \in Imaged
  PROVE  \E m0, t, N : /\ Taken(m0, t, N) /\ m0[t].kind = "surface"
                       /\ held' = Append(held, t) /\ mem' = LinkTo(m0, t)
<1> DEFINE s == Head(todo).s
           b == NewBuffer
           C == Current
           D == DOMAIN held
<1>1. /\ gc = NoGc /\ s \in Imaged /\ held' = Append(held, image'[s])
      /\ image[s] = NoBuffer =>
           /\ FreeIn(mem) # {} /\ image' = [image EXCEPT ![s] = b]
           /\ mem' = LinkTo(Incref(Alloc(mem, b, "surface"), b), b)
      /\ image[s] # NoBuffer => image' = image /\ mem' = LinkTo(Incref(mem, image[s]), image[s])
  BY DEF SurfaceImage, Needs
<1>2. /\ Memory(mem) /\ At(mem) \in Linked
      /\ Counted(mem, At(mem), D, held, image, C)
      /\ Shape(mem, At(mem), D, held, image, C, O, R, NoBuffer)
  BY <1>1, Between
<1>3. image \in [Imaged -> Somewhere] /\ IsFiniteSet(D)
  BY CurrentIs DEF Staged
<1>4. CASE image[s] = NoBuffer
  <2> DEFINE m == Alloc(mem, b, "surface")
             m0 == Incref(m, b)
  <2>1. b \in Buffers /\ mem[b].kind = "none" /\ mem[b].refcnt = 0
    BY <1>1, <1>2, <1>4, NewBufferIs, CellOf
  <2>2. ImageOf(image, b) = {}
    BY <1>2, <1>3, <2>1, Fresh
  <2> HIDE DEF b, s, C, D
  <2>3. /\ Memory(m) /\ At(m) = At(mem) /\ m[b].kind = "surface"
        /\ \A x \in Buffers : x # b => m[x].kind = mem[x].kind
        /\ \A x \in Buffers : m[x].refcnt = mem[x].refcnt + One(x, b)
    BY <1>2, <2>1, AtAlloc DEF Kinds
  <2> HIDE DEF m
  <2>4. m[b].refcnt > 0
    BY <2>1, <2>3, CellOf
  <2>5. /\ Memory(m0) /\ At(m0) = At(m)
        /\ \A x \in Buffers : m0[x].kind = m[x].kind
        /\ \A x \in Buffers : m0[x].refcnt = m[x].refcnt + One(x, b)
    BY <2>1, <2>3, <2>4, AtIncref
  <2> HIDE DEF m0
  <2>6. image' = [image EXCEPT ![s] = b] /\ image'[s] = b /\ mem' = LinkTo(m0, b)
    BY <1>1, <1>3, <1>4 DEF m0, m
  <2>7. OneMore(At(mem), D, held, image, C, At(mem), D, held, image', C, b)
    BY <1>1, <1>3, <1>4, <2>1, <2>6, CountImage
  <2>8. \A x \in Buffers : m0[x].refcnt = Count(At(mem), D, held, image', C, x) + One(x, b)
    <3> SUFFICES ASSUME NEW x \in Buffers
                 PROVE  m0[x].refcnt = Count(At(mem), D, held, image', C, x) + One(x, b)
      OBVIOUS
    <3>1. Count(At(mem), D, held, image', C, x) = mem[x].refcnt + One(x, b)
      BY <1>2, <2>7 DEF Counted, OneMore
    <3> QED BY <2>3, <2>5, <3>1
  <2>9. Imaging(m0, image')
    <3> SUFFICES ASSUME NEW x \in Buffers PROVE m0[x].kind = "surface" <=> ImageOf(image', x) # {}
      BY DEF Imaging
    <3>1. CASE x = b
      <4>1. s \in ImageOf(image', b)
        BY <1>1, <2>6 DEF ImageOf
      <4> QED BY <2>1, <2>3, <2>5, <3>1, <4>1
    <3>2. CASE x # b
      <4>1. ImageOf(image', x) = ImageOf(image, x)
        <5>1. x # NoBuffer
          BY FieldsAre
        <5> QED BY <1>3, <1>4, <2>6, <3>2, <5>1 DEF ImageOf
      <4>2. mem[x].kind = "surface" <=> ImageOf(image, x) # {}
        BY <1>2 DEF Shape, Imaging
      <4>3. m0[x].kind = mem[x].kind
        BY <2>3, <2>5, <3>2
      <4> QED BY <4>1, <4>2, <4>3
    <3> QED BY <3>1, <3>2
  <2>10. m0[b].refcnt > 0 /\ m0[b].kind = "surface"
    BY <2>1, <2>3, <2>5, CellOf
  <2>11. \A x \in Buffers \ {b} : m0[x].kind = mem[x].kind
    BY <2>3, <2>5
  <2>12. Taken(m0, b, {b})
    BY <2>1, <2>3, <2>5, <2>8, <2>9, <2>10, <2>11 DEF Taken, C, D
  <2> QED BY <1>1, <2>6, <2>10, <2>12
<1>5. CASE image[s] # NoBuffer
  <2> DEFINE t == image[s]
             m0 == Incref(mem, t)
  <2>1. t \in Buffers /\ mem[t].kind = "surface"
    <3>1. t \in Buffers
      BY <1>1, <1>3, <1>5 DEF Somewhere
    <3>2. s \in ImageOf(image, t)
      BY <1>1 DEF ImageOf
    <3> QED BY <1>2, <3>1, <3>2 DEF Shape, Imaging
  <2>2. mem[t].refcnt > 0
    BY <1>2, <2>1, CellOf
  <2>3. held' = Append(held, t) /\ mem' = LinkTo(m0, t) /\ image' = image
    BY <1>1, <1>5
  <2> HIDE DEF t, s, C, D
  <2>4. /\ Memory(m0) /\ At(m0) = At(mem)
        /\ \A x \in Buffers : m0[x].kind = mem[x].kind
        /\ \A x \in Buffers : m0[x].refcnt = mem[x].refcnt + One(x, t)
    BY <1>2, <2>1, <2>2, AtIncref
  <2> HIDE DEF m0
  <2>5. \A x \in Buffers : m0[x].refcnt = Count(At(mem), D, held, image', C, x) + One(x, t)
    BY <1>2, <2>3, <2>4 DEF Counted
  <2>6. Imaging(m0, image')
    BY <1>2, <2>3, <2>4 DEF Shape, Imaging
  <2>7. m0[t].refcnt > 0 /\ m0[t].kind = "surface"
    BY <2>1, <2>4, CellOf
  <2>8. Taken(m0, t, {})
    BY <2>1, <2>4, <2>5, <2>6, <2>7 DEF Taken, C, D
  <2> QED BY <2>3, <2>7, <2>8
<1> QED BY <1>4, <1>5

LEMMA SurfaceImageHere ==
  ASSUME BuffersAssumption, Staged, NEW O \in [Buffers -> Somewhere], NEW R \in [Buffers -> Nat],
         HereInv(O, R), SurfaceImage
  PROVE  HereInv(O, R)'
<1> DEFINE C == Current
           D == DOMAIN held
<1>1. /\ gc = NoGc /\ gc' = NoGc /\ todo # <<>> /\ Head(todo).do = "surface" /\ todo' = Tail(todo)
      /\ UNCHANGED <<building, tail, pushed, released, vtSema, dropped>>
  BY DEF SurfaceImage, Needs, outside
<1>2. todo \in Seq(StepSet) /\ Head(todo) = todo[1] /\ held \in Seq(Buffers) /\ image \in [Imaged -> Somewhere]
  BY <1>1, Rest DEF Staged
<1>3. /\ Memory(mem) /\ At(mem) \in Linked
      /\ Counted(mem, At(mem), D, held, image, C)
      /\ Shape(mem, At(mem), D, held, image, C, O, R, NoBuffer)
      /\ HeldFits(mem, At(mem), todo, building, held, tail, O, R)
      /\ Apart
  BY <1>1, Between
<1>4. IsFiniteSet(D) /\ C \subseteq Buffers
  BY CurrentIs
<1>5. Head(todo).s \in Imaged
  <2>1. CASE building = NoBuffer
    BY <1>1, <1>2, <2>1, SourceTaken DEF Staged
  <2>2. CASE building # NoBuffer
    <3>1. PICK k \in CommandKinds : AddLeft(todo, k)
      BY <1>1, <1>2, <2>2, StageReads DEF Staged
    <3>2. Adds(k, todo[1])
      BY <1>1, <1>2, <2>2, <3>1, FieldTaken DEF Staged
    <3> QED BY <1>1, <1>2, <3>2 DEF Adds
  <2> QED BY <2>1, <2>2
<1>6. PICK m0, t, N : /\ Taken(m0, t, N) /\ m0[t].kind = "surface"
                      /\ held' = Append(held, t) /\ mem' = LinkTo(m0, t)
  BY <1>5, SurfaceTaken
<1>7. CASE building # NoBuffer
  BY <1>1, <1>6, <1>7, FieldAdded
<1>8. CASE building = NoBuffer
  <2>1. tail = NoBuffer /\ held = <<>> /\ Head(todo).field = "none" /\ Tail(todo) = CopyTail
    BY <1>1, <1>2, <1>8, SourceTaken DEF Staged
  <2>2. mem' = m0
    BY <1>6, <2>1 DEF LinkTo
  <2>3. /\ Memory(m0) /\ At(m0) = At(mem) /\ t \in Buffers /\ N \subseteq {t}
        /\ \A x \in N : mem[x].refcnt = 0
        /\ \A x \in Buffers \ N : m0[x].kind = mem[x].kind
        /\ \A x \in Buffers : m0[x].refcnt = Count(At(mem), D, held, image', C, x) + One(x, t)
        /\ Imaging(m0, image')
    BY <1>6 DEF Taken
  <2>4. \A x \in N : x = t /\ x \notin C /\ \A h \in Fields : At(mem)[x][h] = NoBuffer
    BY <1>1, <1>6, TakenFree
  <2>5. held' = <<t>> /\ DOMAIN held' = {1} /\ held'[1] = t
    BY <1>6, <2>1
  <2>6. D = {} /\ Current' = C
    BY <1>1, <2>1 DEF Current
  <2> HIDE DEF C, D
  <2>7. Counted(mem', At(mem'), DOMAIN held', held', image', C)
    <3>1. OneMore(At(mem), D, held, image', C, At(mem), D \cup {1}, held', image', C, t)
      BY <1>4, <2>5, <2>6, CountHeld
    <3>2. D \cup {1} = DOMAIN held'
      BY <2>5, <2>6
    <3> QED BY <2>2, <2>3, <3>1, <3>2 DEF Counted, OneMore
  <2>8. Grows(mem, mem', At(mem), At(mem'), D, held, DOMAIN held', held', C, C, O, O, R, R, image', NoBuffer, N)
    <3>1. N \subseteq Buffers /\ C \subseteq Buffers /\ At(mem) \in Linked /\ At(mem') = At(mem)
      BY <1>3, <1>4, <2>2, <2>3
    <3>2. \A x \in N : mem[x].refcnt = 0 /\ \A h \in Fields : At(mem)[x][h] = NoBuffer
      BY <2>3, <2>4
    <3>3. \A x \in Buffers \ N : mem'[x].kind = mem[x].kind
      BY <2>2, <2>3
    <3>4. \A x \in Buffers \ N : mem[x].at["data"] # NoBuffer => mem'[x].at["data"] # NoBuffer
      BY <1>3, <2>2, <2>3, LinksAt
    <3>5. \A x \in N : mem'[x].kind = "surface" /\ x \notin C
      BY <1>6, <2>2, <2>4
    <3>6. \A x \in N : mem'[x].kind \notin CommandKinds \cup PartKinds /\ mem'[x].kind \notin {"bitmap", "chunk"}
      BY <3>5 DEF CommandKinds, PartKinds
    <3>7. \A x \in Buffers \ N : HeldAt(D, held, x) = {}
      BY <2>6 DEF HeldAt
    <3>8. Imaging(mem', image')
      BY <2>2, <2>3
    <3> QED BY <3>1, <3>2, <3>3, <3>4, <3>5, <3>6, <3>7, <3>8 DEF Grows
  <2>9. HeldFits(mem', At(mem'), todo', building', held', tail', O, R)
    BY <1>1, <1>6, <1>8, <2>2, <2>5 DEF HeldFits
  <2>10. building' \notin pushed \cup released
    BY <1>1, <1>3 DEF Apart
  <2> QED BY <1>1, <2>2, <2>3, <2>6, <2>7, <2>8, <2>9, <2>10, Built DEF C, D
<1> QED BY <1>7, <1>8
(* Every buffer X lets go of is held by somebody else.                     *)
LEMMA PushKeeps ==
  ASSUME BuffersAssumption, Staged, NEW O \in [Buffers -> Somewhere], NEW R \in [Buffers -> Nat],
         HereInv(O, R), vtSema, Push
  PROVE  /\ Memory(mem') /\ Counted(mem', At(mem), {}, held, image, Current)
         /\ \A x \in Buffers : mem'[x].refcnt = 0 => mem[x].refcnt = 0
         /\ \A x \in Buffers : mem'[x].kind = mem[x].kind /\ mem'[x].at = mem[x].at
         /\ building # NoBuffer /\ ~UploadLeft(todo)
         /\ building \in Current /\ building \in Buffers /\ mem[building].kind \in CommandKinds
         /\ \A x \in Buffers : HeldAt(DOMAIN held, held, x) # {} =>
              mem[x].kind = "surface" \/ \E f \in Fields : At(mem)[building][f] = x
<1> DEFINE C == Current
           D == DOMAIN held
           L == At(mem)
           u == building
           i1 == Incref(mem, u)
           m1 == Decref(i1, u)
<1>1. /\ gc = NoGc /\ gc' = NoGc /\ todo # <<>> /\ Head(todo).do = "push"
      /\ pushed' = pushed \cup {u} /\ mem' = DecrefAll(m1, held)
      /\ todo' = <<>> /\ building' = NoBuffer /\ held' = <<>>
      /\ UNCHANGED <<image, tail, released, dropped>>
  BY DEF Push, Needs
<1>2. /\ Memory(mem) /\ L \in Linked
      /\ Counted(mem, L, D, held, image, C)
      /\ Shape(mem, L, D, held, image, C, O, R, NoBuffer)
      /\ HeldFits(mem, L, todo, u, held, tail, O, R)
      /\ Apart
  BY <1>1, Between
<1>3. IsFiniteSet(D) /\ C \subseteq Buffers
  BY CurrentIs
<1>4. u # NoBuffer /\ ~UploadLeft(todo) /\ held \in Seq(Buffers)
  <2>1. todo \in Seq(StepSet) /\ todo[1].do = "push"
    BY <1>1, Rest DEF Staged
  <2> QED BY <1>1, <2>1, PushTaken DEF Staged
<1>5. u \in C /\ u \in Buffers /\ mem[u].refcnt > 0 /\ mem[u].kind \in CommandKinds
  <2>1. u \in C
    BY <1>4, CurrentIs
  <2>2. mem[u].kind \in CommandKinds
    BY <1>2, <1>3, <2>1 DEF Shape, Rooted
  <2>3. mem[u].refcnt # 0
    BY <1>2, <1>3, <2>1, Fresh
  <2> QED BY <1>2, <1>3, <2>1, <2>2, <2>3, CellOf
<1>6. Current' = C
  BY <1>1 DEF Current
<1> HIDE DEF C, D, L, u
(* the ring's reference for X's *)
<1>7. /\ Memory(i1) /\ At(i1) = L
      /\ \A x \in Buffers : i1[x].kind = mem[x].kind
      /\ \A x \in Buffers : i1[x].refcnt = mem[x].refcnt + One(x, u)
  BY <1>2, <1>5, AtIncref DEF L
<1>8. i1[u].refcnt > 1
  BY <1>2, <1>5, <1>7, CellOf DEF One
<1> HIDE DEF i1
<1>9. /\ Memory(m1) /\ At(m1) = L
      /\ \A x \in Buffers : m1[x].kind = mem[x].kind
      /\ \A x \in Buffers : i1[x].refcnt = m1[x].refcnt + One(x, u)
  BY <1>5, <1>7, <1>8, AtDecref
<1> HIDE DEF m1
<1>10. \A x \in Buffers : m1[x].refcnt = mem[x].refcnt
  <2> SUFFICES ASSUME NEW x \in Buffers PROVE m1[x].refcnt = mem[x].refcnt
    OBVIOUS
  <2>1. m1[x].refcnt \in Nat /\ mem[x].refcnt \in Nat /\ One(x, u) \in Nat
    BY <1>2, <1>9, CellOf DEF One
  <2>2. i1[x].refcnt = mem[x].refcnt + One(x, u) /\ i1[x].refcnt = m1[x].refcnt + One(x, u)
    BY <1>7, <1>9
  <2> QED BY <2>1, <2>2
<1>11. Counted(m1, L, D, held, image, C)
  BY <1>2, <1>10 DEF Counted
<1>12. /\ Memory(mem') /\ Trimmed(m1, mem') /\ Counted(mem', L, {}, held, image, C)
  BY <1>1, <1>4, <1>9, <1>11, HeldLetGo DEF D
(* what X held *)
<1>13. ASSUME NEW x \in Buffers, HeldAt(D, held, x) # {}
       PROVE  mem[x].kind = "surface" \/ \E f \in Fields : L[u][f] = x
  <2>1. PICK i \in D : held[i] = x
    BY <1>13 DEF HeldAt
  <2> QED BY <1>2, <1>4, <2>1 DEF HeldFits, D
<1>14. ASSUME NEW x \in Buffers, mem'[x].refcnt = 0 PROVE mem[x].refcnt = 0
  <2>1. Count(L, {}, held, image, C, x) = 0
    BY <1>12, <1>14 DEF Counted
  <2>2. Into(L, x) = {} /\ ImageOf(image, x) = {} /\ x \notin C
    <3>1. IsFiniteSet({})
      BY FS_EmptySet
    <3> QED BY <2>1, <3>1, NobodyHolds
  <2>3. mem[x].kind # "surface"
    BY <1>2, <2>2 DEF Shape, Imaging
  <2>4. HeldAt(D, held, x) = {}
    <3>1. ASSUME NEW f \in Fields, L[u][f] = x PROVE FALSE
      <4>1. <<u, f>> \in Into(L, x)
        BY <1>5, <3>1 DEF Into
      <4> QED BY <2>2, <4>1
    <3> QED BY <1>13, <2>3, <3>1
  <2>5. Count(L, D, held, image, C, x) = 0
    BY <1>3, <2>2, <2>4, NobodyHolds
  <2> QED BY <1>2, <2>5 DEF Counted
<1>15. \A x \in Buffers : mem'[x].kind = mem[x].kind /\ mem'[x].at = mem[x].at
  <2> SUFFICES ASSUME NEW x \in Buffers PROVE mem'[x].kind = mem[x].kind /\ mem'[x].at = mem[x].at
    OBVIOUS
  <2>1. CASE mem'[x].refcnt = 0
    <3>1. mem[x] = Free /\ mem'[x] = Free
      BY <1>2, <1>12, <1>14, <2>1, CellOf
    <3> QED BY <3>1
  <2>2. CASE mem'[x].refcnt # 0
    <3>1. mem'[x].refcnt > 0
      BY <1>12, <2>2, CellOf
    <3>2. mem'[x].kind = m1[x].kind /\ mem'[x].at = m1[x].at
      BY <1>12, <3>1 DEF Trimmed
    <3>3. m1[x].at = At(m1)[x] /\ mem[x].at = At(mem)[x]
      BY <1>2, <1>9, LinksAt
    <3> QED BY <1>9, <3>2, <3>3 DEF L
  <2> QED BY <2>1, <2>2
<1> QED BY <1>4, <1>5, <1>12, <1>13, <1>14, <1>15 DEF C, D, L, u

LEMMA PushHere ==
  ASSUME BuffersAssumption, Staged, NEW O \in [Buffers -> Somewhere], NEW R \in [Buffers -> Nat],
         HereInv(O, R), vtSema, Push
  PROVE  HereInv(O, R)'
<1> DEFINE C == Current
           D == DOMAIN held
           L == At(mem)
           u == building
<1>1. /\ gc = NoGc /\ gc' = NoGc /\ pushed' = pushed \cup {u}
      /\ todo' = <<>> /\ building' = NoBuffer /\ held' = <<>>
      /\ UNCHANGED <<image, tail, released, dropped>>
  BY DEF Push, Needs
<1>2. /\ Memory(mem) /\ L \in Linked
      /\ Counted(mem, L, D, held, image, C)
      /\ Shape(mem, L, D, held, image, C, O, R, NoBuffer)
      /\ HeldFits(mem, L, todo, u, held, tail, O, R)
      /\ Apart
  BY <1>1, Between
<1>3. C \subseteq Buffers
  BY CurrentIs
<1>4. /\ Memory(mem') /\ Counted(mem', L, {}, held, image, C)
      /\ u # NoBuffer /\ ~UploadLeft(todo)
      /\ u \in C /\ u \in Buffers /\ mem[u].kind \in CommandKinds
  BY PushKeeps
<1>5. /\ \A x \in Buffers : mem'[x].refcnt = 0 => mem[x].refcnt = 0
      /\ \A x \in Buffers : mem'[x].kind = mem[x].kind /\ mem'[x].at = mem[x].at
      /\ \A x \in Buffers : HeldAt(D, held, x) # {} =>
           mem[x].kind = "surface" \/ \E f \in Fields : L[u][f] = x
  BY PushKeeps
<1>6. Current' = C
  BY <1>1 DEF Current
<1> HIDE DEF C, D, L, u
<1>16. At(mem') = L
  BY <1>4, <1>5 DEF At, L
<1>17. DOMAIN held' = {} /\ Counted(mem', L, {}, held', image, C)
  <2>1. DOMAIN held' = {}
    BY <1>1
  <2>2. \A x \in Buffers : HeldAt({}, held, x) = {} /\ HeldAt({}, held', x) = {}
    BY DEF HeldAt
  <2>3. \A x \in Buffers : Count(L, {}, held, image, C, x) = Count(L, {}, held', image, C, x)
    BY <2>2 DEF Count
  <2> QED BY <1>4, <2>1, <2>3 DEF Counted
<1>18. Shrinks(mem, mem', L, L, C, C, O, {}, held', NoBuffer)
  <2>1. Trimmed(mem, mem')
    BY <1>4, <1>5 DEF Trimmed
  <2>2. \A x \in Buffers : mem'[x].refcnt = 0 => \A f \in Fields : L[x][f] = NoBuffer
    <3> SUFFICES ASSUME NEW x \in Buffers, mem'[x].refcnt = 0, NEW f \in Fields PROVE L[x][f] = NoBuffer
      OBVIOUS
    <3>1. mem[x] = Free
      BY <1>2, <1>4, <1>5, CellOf
    <3>2. L[x] = mem[x].at
      BY <1>2, LinksAt DEF L
    <3> QED BY <3>1, <3>2 DEF Free, Nowhere
  <2>3. /\ \A x \in Buffers : L[x]["next"] # NoBuffer => L[L[x]["next"]]["prev"] = x
        /\ \A x \in Buffers : L[x]["prev"] # NoBuffer => L[L[x]["prev"]]["next"] = x
    BY <1>2 DEF Shape, Pointing, LinkFits, Fields
  <2>4. /\ \A x \in Buffers : mem'[x].kind \in PartKinds => O[x] \in C
        /\ \A x \in Buffers : mem'[x].kind = "bitmap" => L[O[x]]["src"] = x
    BY <1>2, <1>4, <1>5 DEF Shape, Owned
  <2>5. ASSUME NEW x \in Buffers, mem'[x].kind = "chunk"
        PROVE  Anchored(L, {}, held', NoBuffer, x)
    <3>1. mem[x].kind = "chunk" /\ Anchored(L, D, held, NoBuffer, x)
      BY <1>2, <1>4, <1>5, <2>5 DEF Shape, Chunked
    <3>2. HeldAt(D, held, x) = {}
      <4>1. ASSUME NEW f \in Fields, L[u][f] = x PROVE FALSE
        <5>1. x # NoBuffer
          BY FieldsAre
        <5>2. Fits(mem[u].kind, f, "chunk")
          BY <1>2, <1>4, <1>5, <3>1, <4>1, <5>1 DEF Shape, Pointing, LinkFits
        <5> QED BY <1>4, <1>5, <5>2 DEF Fits, CommandKinds
      <4> QED BY <1>4, <1>5, <3>1, <4>1
    <3> QED BY <3>1, <3>2 DEF Anchored
  <2> QED BY <1>2, <2>1, <2>2, <2>3, <2>4, <2>5 DEF Shrinks
<1>19. Shape(mem', L, {}, held', image, C, O, R, NoBuffer)
  <2>1. IsFiniteSet({})
    BY FS_EmptySet
  <2> QED BY <1>2, <1>4, <1>17, <1>18, <2>1, ShapeShrinks
<1>20. HeldFits(mem', At(mem'), todo', building', held', tail', O, R)
  BY <1>1 DEF HeldFits
<1>21. Apart'
  <2>1. \A c \in pushed' \cup released' : mem'[c].kind = "copy" => mem'[c].at["src"] # NoBuffer
    <3> SUFFICES ASSUME NEW c \in pushed' \cup released', mem'[c].kind = "copy"
                 PROVE  mem'[c].at["src"] # NoBuffer
      OBVIOUS
    <3>1. CASE c = u
      <4>1. L[u]["src"] # NoBuffer
        BY <1>2, <1>4, <1>5, <1>5, <3>1 DEF HeldFits
      <4> QED BY <1>5, <1>4, <1>16, <3>1, <4>1, LinksAt
    <3>2. CASE c # u
      <4>1. c \in pushed \cup released /\ c \in Buffers
        BY <1>1, <3>2 DEF HereInv
      <4> QED BY <1>2, <1>4, <1>5, <4>1 DEF Apart
    <3> QED BY <3>1, <3>2
  <2>2. pushed' \cap released' = {} /\ building' \notin pushed' \cup released'
    BY <1>1, <1>2, <1>4, FieldsAre DEF Apart, HereInv, u
  <2>3. gc'.cmd = NoBuffer /\ gc'.cmd \notin pushed' \cup released'
    BY <1>1, <2>2 DEF NoGc
  <2> QED BY <2>1, <2>2, <2>3 DEF Apart
<1>22. pushed' \subseteq Buffers /\ released' \subseteq Buffers /\ dropped' = {}
  BY <1>1, <1>4, <1>5 DEF HereInv
<1>23. /\ Counted(mem', At(mem'), DOMAIN held', held', image', Current')
       /\ Shape(mem', At(mem'), DOMAIN held', held', image', Current', O, R, NoBuffer)
  BY <1>1, <1>6, <1>16, <1>17, <1>19
<1> QED BY <1>1, <1>4, <1>20, <1>21, <1>22, <1>23, BetweenAgain

LEMMA ReleaseHere ==
  ASSUME BuffersAssumption, Staged, NEW O, NEW R, HereInv(O, R), NEW c, Release(c)
  PROVE  HereInv(O, R)'
<1>1. /\ c \in pushed /\ pushed' = pushed \ {c} /\ released' = released \cup {c}
      /\ UNCHANGED <<mem, image, todo, building, held, tail, gc, vtSema, dropped>>
  BY DEF Release, buildvars
<1>2. Current' = Current
  BY <1>1 DEF Current
<1>3. Apart'
  BY <1>1 DEF HereInv, Apart
<1>4. Links(mem, gc)' = Links(mem, gc) /\ Behind(mem, gc)' = Behind(mem, gc)
  BY <1>1
<1>5. pushed' \subseteq Buffers /\ released' \subseteq Buffers
  BY <1>1 DEF HereInv
<1>6. Walking(O)'
  BY <1>1 DEF HereInv, Walking
<1> QED BY <1>1, <1>2, <1>3, <1>4, <1>5, <1>6 DEF HereInv
-----------------------------------------------------------------------------
(* Who belongs to whom.                                                    *)

LEMMA FitsReads ==
  ASSUME NEW k, NEW f, NEW t, Fits(k, f, t)
  PROVE  /\ k \in CommandKinds \cup {"bitmap", "chunk"} /\ t \in PartKinds \cup {"surface"}
         /\ t \notin CommandKinds /\ t # "none" /\ k # "plain"
         /\ t = "bitmap" <=> f = "src" /\ k = "copy"
         /\ k = "copy" => f = "src" /\ t = "bitmap"
         /\ t \in {"transform", "shape"} => k \in {"composite", "cursor"}
         /\ t = "chunk" <=> k \in {"bitmap", "chunk"}
         /\ k = "bitmap" <=> f = "data"
         /\ k = "chunk" <=> f \in {"next", "prev"}
         /\ k = "cursor" => f = "shape"
         /\ k = "copy_surface" => f = "src"
         /\ k = "composite" => f \in {"src", "mask", "src_transform", "mask_transform"}
  BY DEF Fits, CommandKinds, PartKinds

LEMMA LinksLinked ==
  ASSUME NEW m, Memory(m), NEW g
  PROVE  /\ Links(m, g) \in Linked
         /\ \A b \in Buffers : \A f \in Fields :
              Links(m, g)[b][f] = IF Stale(m, g, b, f) THEN NoBuffer ELSE m[b].at[f]
<1>1. \A b \in Buffers : m[b].at \in [Fields -> Somewhere]
  BY CellOf
<1> QED BY <1>1 DEF Links, Linked, Somewhere

(* What the invariant says of links L and the chunk B behind the walk.     *)
LEMMA HereReads ==
  ASSUME Staged, NEW O, NEW R, HereInv(O, R)
  PROVE  /\ Memory(mem) /\ Links(mem, gc) \in Linked
         /\ Counted(mem, Links(mem, gc), DOMAIN held, held, image, Current)
         /\ Shape(mem, Links(mem, gc), DOMAIN held, held, image, Current, O, R, Behind(mem, gc))
         /\ HeldFits(mem, Links(mem, gc), todo, building, held, tail, O, R)
         /\ Apart /\ Walking(O) /\ IsFiniteSet(DOMAIN held) /\ Current \subseteq Buffers
         /\ O \in [Buffers -> Somewhere] /\ R \in [Buffers -> Nat]
  BY LinksLinked, CurrentIs DEF HereInv

LEMMA LinkReads ==
  ASSUME Staged, NEW O, NEW R, HereInv(O, R), NEW b \in Buffers, NEW f \in Fields,
         Links(mem, gc)[b][f] # NoBuffer
  PROVE  /\ Links(mem, gc)[b][f] \in Buffers
         /\ LinkFits(mem, Links(mem, gc), O, R, b, f, Links(mem, gc)[b][f])
         /\ Fits(mem[b].kind, f, mem[Links(mem, gc)[b][f]].kind)
<1>1. Links(mem, gc) \in Linked /\ Pointing(mem, Links(mem, gc), O, R)
  BY HereReads DEF Shape
<1> QED BY <1>1 DEF Pointing, LinkFits, Linked, Somewhere

LEMMA UploadHeld ==
  ASSUME BuffersAssumption, Staged, building # NoBuffer, UploadLeft(todo)
  PROVE  IF tail = NoBuffer THEN held = <<>> ELSE Len(held) = 1
<1>1. todo \in Seq(StepSet) /\ todo # <<>> /\ Stage(todo, building, held, tail)
  BY StageIdle DEF Staged
<1>2. /\ Len(todo) \in Nat /\ Len(todo) >= 2
      /\ Len(todo) = 2 => todo[1] = BitmapStep
      /\ Len(todo) > 2 => todo[1] = ChunkStep
  BY <1>1, UploadsOne
<1>3. Len(todo) = 2 \/ Len(todo) > 2
  <2> DEFINE n == Len(todo)
  <2>1. n \in Nat /\ n >= 2
    BY <1>2
  <2> HIDE DEF n
  <2>2. n = 2 \/ n > 2
    BY <2>1
  <2> QED BY <2>2 DEF n
<1>4. todo[1].do = "chunk" \/ todo[1].do = "bitmap"
  BY <1>2, <1>3, StepWords
<1> QED BY <1>1, <1>4, ChunkTaken, BitmapTaken

LEMMA HeldReads ==
  ASSUME BuffersAssumption, Staged, NEW O, NEW R, HereInv(O, R), NEW i \in DOMAIN held
  PROVE  /\ held[i] \in Buffers
         /\ \/ mem[held[i]].kind = "surface"
            \/ /\ building \in Current /\ O[held[i]] = building
               /\ mem[held[i]].kind \in PartKinds
<1> DEFINE L == Links(mem, gc)
           x == held[i]
           u == building
<1>1. held \in Seq(Buffers) /\ u \in Somewhere /\ Stage(todo, u, held, tail) /\ x \in Buffers
  BY ElementOfSeq, LenProperties DEF Staged
<1>2. /\ Shape(mem, L, DOMAIN held, held, image, Current, O, R, Behind(mem, gc))
      /\ HeldFits(mem, L, todo, u, held, tail, O, R) /\ Current \subseteq Buffers
  BY HereReads
<1>3. u # NoBuffer => u \in Current /\ O[u] = u
  BY <1>2, CurrentIs DEF Shape, Rooted
<1>4. CASE u = NoBuffer
  <2>1. mem[held[i]].kind = "surface"
    BY <1>2, <1>4 DEF HeldFits
  <2> QED BY <1>1, <2>1
<1>5. CASE u # NoBuffer /\ UploadLeft(todo)
  <2>2. IF tail = NoBuffer THEN held = <<>> ELSE Len(held) = 1
    BY <1>5, UploadHeld
  <2>3. tail # NoBuffer /\ i = 1
    <3>1. held # <<>>
      OBVIOUS
    <3> QED BY <1>1, <2>2, <3>1, OneHeld
  <2>4. mem[x].kind = "chunk" /\ O[x] = u
    BY <1>2, <1>5, <2>3 DEF HeldFits
  <2> QED BY <1>1, <1>3, <1>5, <2>4 DEF PartKinds
<1>6. CASE u # NoBuffer /\ ~UploadLeft(todo)
  <2>1. mem[x].kind = "surface" \/ \E f \in Fields : L[u][f] = x
    BY <1>2, <1>6 DEF HeldFits
  <2>2. ASSUME NEW f \in Fields, L[u][f] = x
        PROVE  mem[x].kind = "surface" \/ (O[x] = u /\ mem[x].kind \in PartKinds)
    <3>1. x # NoBuffer /\ u \in Buffers
      BY <1>1, <1>2, <1>3, <1>6, FieldsAre
    <3>2. LinkFits(mem, L, O, R, u, f, x) /\ Fits(mem[u].kind, f, mem[x].kind)
      BY <2>2, <3>1, LinkReads
    <3> QED BY <1>3, <1>6, <3>2, FitsReads DEF LinkFits
  <2> QED BY <1>1, <1>3, <1>6, <2>1, <2>2
<1> QED BY <1>4, <1>5, <1>6

(* What X builds is not collected.                                         *)
BuildKept(m2, L2, O) ==
  /\ building # NoBuffer =>
       /\ m2[building].kind = mem[building].kind
       /\ \A f \in Fields : L2[building][f] = Links(mem, gc)[building][f]
  /\ \A i \in DOMAIN held : m2[held[i]].kind = mem[held[i]].kind
  /\ \A b \in Buffers : mem[b].kind = "chunk" /\ O[b] = building =>
       /\ m2[b].kind = "chunk"
       /\ \A f \in Fields : L2[b][f] = Links(mem, gc)[b][f]

LEMMA HeldKept ==
  ASSUME BuffersAssumption, Staged, NEW O, NEW R, HereInv(O, R),
         NEW m2, NEW L2, BuildKept(m2, L2, O)
  PROVE  HeldFits(m2, L2, todo, building, held, tail, O, R)
<1> DEFINE L == Links(mem, gc)
<1>1. /\ held \in Seq(Buffers) /\ tail \in Somewhere
      /\ todo \in Seq(StepSet) /\ Len(todo) \in Nat /\ \A i \in 1 .. Len(todo) : todo[i] \in StepSet
  BY ElementOfSeq, LenProperties DEF Staged
<1>2. HeldFits(mem, L, todo, building, held, tail, O, R)
  BY HereReads
<1> HIDE DEF L
<1>3. /\ \A i \in DOMAIN held : m2[held[i]].kind = mem[held[i]].kind
      /\ building # NoBuffer => /\ m2[building].kind = mem[building].kind
                                /\ \A f \in Fields : L2[building][f] = L[building][f]
      /\ \A b \in Buffers : mem[b].kind = "chunk" /\ O[b] = building =>
           m2[b].kind = "chunk" /\ \A f \in Fields : L2[b][f] = L[b][f]
  BY DEF BuildKept, L
<1>4. "src" \in Fields /\ "next" \in Fields /\ "prev" \in Fields
  BY DEF Fields
<1>5. building = NoBuffer => \A i \in DOMAIN held : m2[held[i]].kind = "surface"
  BY <1>2, <1>3 DEF HeldFits
<1>6. ASSUME building # NoBuffer, UploadLeft(todo)
      PROVE  /\ m2[building].kind = "copy" /\ \A f \in Fields : L2[building][f] = NoBuffer
             /\ tail # NoBuffer =>
                  /\ m2[held[1]].kind = "chunk" /\ L2[held[1]]["prev"] = NoBuffer
                  /\ O[held[1]] = building
                  /\ m2[tail].kind = "chunk" /\ L2[tail]["next"] = NoBuffer /\ O[tail] = building
                  /\ R[tail] + (Len(todo) - 2) <= MaxChunks
  <2>1. mem[building].kind = "copy" /\ \A f \in Fields : L[building][f] = NoBuffer
    BY <1>2, <1>6 DEF HeldFits
  <2>2. ASSUME tail # NoBuffer
        PROVE  /\ mem[held[1]].kind = "chunk" /\ L[held[1]]["prev"] = NoBuffer
               /\ O[held[1]] = building
               /\ mem[tail].kind = "chunk" /\ L[tail]["next"] = NoBuffer /\ O[tail] = building
               /\ R[tail] + (Len(todo) - 2) <= MaxChunks
               /\ held[1] \in Buffers /\ tail \in Buffers
    <3>1. tail \in Buffers
      BY <1>1, <2>2 DEF Somewhere
    <3>2. held[1] \in Buffers
      BY <1>1, <1>6, <2>2, UploadHeld, OneHeld
    <3> QED BY <1>2, <1>6, <2>2, <3>1, <3>2 DEF HeldFits
  <2> QED BY <1>3, <1>4, <1>6, <2>1, <2>2
<1>7. ASSUME building # NoBuffer, ~UploadLeft(todo)
      PROVE  /\ AddLeft(todo, m2[building].kind)
             /\ \A i \in 1 .. Len(todo) - 1 : L2[building][todo[i].field] = NoBuffer
             /\ m2[building].kind = "copy" => L2[building]["src"] # NoBuffer
             /\ \A i \in DOMAIN held : \/ m2[held[i]].kind = "surface"
                                      \/ \E f \in Fields : L2[building][f] = held[i]
  <2>1. ASSUME NEW i \in 1 .. Len(todo) - 1
        PROVE  L2[building][todo[i].field] = NoBuffer
    <3>1. L[building][todo[i].field] = NoBuffer /\ AddLeft(todo, mem[building].kind)
      BY <1>2, <1>7 DEF HeldFits
    <3>2. Adds(mem[building].kind, todo[i])
      BY <3>1 DEF AddLeft, Adding
    <3>3. todo[i].field \in Fields
      BY <3>2 DEF Adds, Fields
    <3> QED BY <1>3, <1>7, <3>1, <3>3
  <2> QED BY <1>2, <1>3, <1>4, <1>7, <2>1 DEF HeldFits
<1> QED BY <1>5, <1>6, <1>7 DEF HeldFits

(* Nobody but the rings, X or the collector holds a command.               *)
LEMMA CommandHeld ==
  ASSUME BuffersAssumption, Staged, NEW O, NEW R, HereInv(O, R), NEW c \in Current
  PROVE  /\ c \in Buffers /\ mem[c].kind \in CommandKinds /\ O[c] = c
         /\ Into(Links(mem, gc), c) = {} /\ HeldAt(DOMAIN held, held, c) = {}
         /\ ImageOf(image, c) = {}
<1>1. c \in Buffers /\ mem[c].kind \in CommandKinds /\ O[c] = c
  BY HereReads DEF Shape, Rooted
<1>2. Into(Links(mem, gc), c) = {}
  <2> SUFFICES ASSUME NEW b \in Buffers, NEW f \in Fields, Links(mem, gc)[b][f] = c
               PROVE  FALSE
    BY DEF Into
  <2>1. c # NoBuffer
    BY <1>1, FieldsAre
  <2>2. Fits(mem[b].kind, f, mem[c].kind)
    BY <2>1, LinkReads
  <2> QED BY <1>1, <2>2, FitsReads
<1>3. mem[c].kind # "surface" /\ mem[c].kind \notin PartKinds
  BY <1>1 DEF CommandKinds, PartKinds
<1>4. HeldAt(DOMAIN held, held, c) = {}
  BY <1>3, HeldReads DEF HeldAt
<1>5. ImageOf(image, c) = {}
  BY <1>1, <1>3, HereReads DEF Shape, Imaging
<1> QED BY <1>1, <1>2, <1>4, <1>5

(* Transforms and shapes hang on the command.                              *)
LEMMA DataHeld ==
  ASSUME BuffersAssumption, Staged, NEW O, NEW R, HereInv(O, R),
         NEW b \in Buffers, mem[b].kind \in {"transform", "shape"}, O[b] # building
  PROVE  /\ \E f \in Fields : Links(mem, gc)[O[b]][f] = b
         /\ mem[O[b]].kind \in {"composite", "cursor"} /\ O[b] \in Current
         /\ HeldAt(DOMAIN held, held, b) = {} /\ ImageOf(image, b) = {} /\ b \notin Current
<1> DEFINE L == Links(mem, gc)
<1>1. /\ Memory(mem) /\ Counted(mem, L, DOMAIN held, held, image, Current)
      /\ Shape(mem, L, DOMAIN held, held, image, Current, O, R, Behind(mem, gc))
      /\ IsFiniteSet(DOMAIN held) /\ Current \subseteq Buffers
  BY HereReads
<1>2. mem[b].kind \notin CommandKinds /\ mem[b].kind # "surface" /\ mem[b].kind # "none"
  BY DEF CommandKinds
<1>3. b \notin Current /\ ImageOf(image, b) = {}
  BY <1>1, <1>2 DEF Shape, Rooted, Imaging
<1>4. HeldAt(DOMAIN held, held, b) = {}
  BY <1>2, HeldReads DEF HeldAt
<1>5. Into(L, b) # {}
  <2>1. mem[b].refcnt # 0
    BY <1>1, <1>2, CellOf
  <2> QED BY <1>1, <1>3, <1>4, <2>1, NobodyHolds DEF Counted
<1>6. PICK x \in Buffers, f \in Fields : L[x][f] = b
  BY <1>5 DEF Into
<1>7. LinkFits(mem, L, O, R, x, f, b) /\ Fits(mem[x].kind, f, mem[b].kind)
  BY <1>6, FieldsAre, LinkReads
<1>8. mem[x].kind \in {"composite", "cursor"} /\ O[b] = O[x]
  BY <1>2, <1>7, FitsReads DEF LinkFits
<1>9. x \in Current /\ O[x] = x
  BY <1>1, <1>8 DEF Shape, Rooted, CommandKinds
<1> QED BY <1>3, <1>4, <1>6, <1>8, <1>9

(* The chunks of a command start somewhere.                                *)
LEMMA ChunksStart ==
  ASSUME BuffersAssumption, Staged, NEW O, NEW R, HereInv(O, R),
         NEW b \in Buffers, mem[b].kind = "chunk", O[b] # building
  PROVE  \E y \in Buffers : /\ mem[y].kind = "chunk" /\ O[y] = O[b]
                            /\ \/ y = Behind(mem, gc)
                               \/ \E x \in Buffers : Links(mem, gc)[x]["data"] = y
<1> DEFINE L == Links(mem, gc)
           B == Behind(mem, gc)
           S == {y \in Buffers : mem[y].kind = "chunk" /\ O[y] = O[b]}
           T == {R[y] : y \in S}
<1>1. /\ Shape(mem, L, DOMAIN held, held, image, Current, O, R, B)
      /\ R \in [Buffers -> Nat] /\ L \in Linked
  BY HereReads
<1>2. PICK n \in T : \A k \in T : n <= k
  <2>1. T \in SUBSET Nat
    BY <1>1
  <2>2. T # {}
    OBVIOUS
  <2> HIDE DEF T
  <2> QED BY <2>1, <2>2, LeastNumber
<1>3. PICK y \in S : n = R[y]
  OBVIOUS
<1>4. y \in Buffers /\ mem[y].kind = "chunk" /\ O[y] = O[b]
  BY <1>3
<1>5. L[y]["prev"] = NoBuffer
  <2> SUFFICES ASSUME L[y]["prev"] # NoBuffer PROVE FALSE
    OBVIOUS
  <2> DEFINE p == L[y]["prev"]
  <2>1. "prev" \in Fields
    BY DEF Fields
  <2>2. p \in Buffers /\ LinkFits(mem, L, O, R, y, "prev", p) /\ Fits(mem[y].kind, "prev", mem[p].kind)
    BY <1>4, <2>1, LinkReads
  <2> HIDE DEF p
  <2>3. mem[p].kind = "chunk"
    BY <1>4, <2>2, FitsReads
  <2>4. O[p] = O[b] /\ R[y] = R[p] + 1
    BY <1>4, <2>2, <2>3 DEF LinkFits
  <2>5. R[p] \in T
    BY <2>2, <2>3, <2>4
  <2>6. R[p] \in Nat /\ R[y] <= R[p]
    BY <1>1, <1>2, <1>3, <2>2, <2>5
  <2> QED BY <2>4, <2>6
<1>6. HeldAt(DOMAIN held, held, y) = {}
  BY <1>4, HeldReads DEF HeldAt
<1>7. Anchored(L, DOMAIN held, held, B, y)
  BY <1>1, <1>4 DEF Shape, Chunked
<1> QED BY <1>4, <1>5, <1>6, <1>7 DEF Anchored
-----------------------------------------------------------------------------
(* Collecting a command with no image of its own.                          *)

LEMMA ReferencesAre ==
  ASSUME NEW c, mem[c].kind \in CommandKinds, mem[c].kind # "copy"
  PROVE  /\ References(c) \in Seq(Fields)
         /\ \A i, j \in 1 .. Len(References(c)) : References(c)[i] = References(c)[j] => i = j
         /\ \A f, t : Fits(mem[c].kind, f, t) =>
              \E i \in 1 .. Len(References(c)) : References(c)[i] = f
<1> DEFINE k == mem[c].kind
           r == References(c)
<1>1. k \in {"plain", "copy_surface", "composite", "cursor"}
  BY DEF CommandKinds
<1>2. \A f, t : Fits(k, f, t) =>
        \/ k = "copy_surface" /\ f = "src"
        \/ k = "composite" /\ f \in {"src", "mask", "src_transform", "mask_transform"}
        \/ k = "cursor" /\ f = "shape"
  BY <1>1 DEF Fits
<1>3. CASE k = "plain"
  <2>1. r = <<>>
    BY <1>3 DEF References
  <2> HIDE DEF r
  <2> QED BY <1>2, <1>3, <2>1 DEF r
<1>4. CASE k = "copy_surface"
  <2>1. r = <<"src">>
    BY <1>4 DEF References
  <2> HIDE DEF r
  <2>2. r \in Seq(Fields) /\ Len(r) = 1 /\ r[1] = "src"
    BY <2>1 DEF Fields
  <2> QED BY <1>2, <1>4, <2>2 DEF r
<1>5. CASE k = "cursor"
  <2>1. r = <<"shape">>
    BY <1>5 DEF References
  <2> HIDE DEF r
  <2>2. r \in Seq(Fields) /\ Len(r) = 1 /\ r[1] = "shape"
    BY <2>1 DEF Fields
  <2> QED BY <1>2, <1>5, <2>2 DEF r
<1>6. CASE k = "composite"
  <2>1. r = <<"src", "src_transform", "mask_transform", "mask">>
    BY <1>6 DEF References
  <2> HIDE DEF r
  <2>2. /\ r \in Seq(Fields) /\ Len(r) = 4 /\ r[1] = "src" /\ r[2] = "src_transform"
        /\ r[3] = "mask_transform" /\ r[4] = "mask"
    BY <2>1 DEF Fields
  <2>3. \A i \in 1 .. 4 : i = 1 \/ i = 2 \/ i = 3 \/ i = 4
    OBVIOUS
  <2>4. \A i, j \in 1 .. Len(r) : r[i] = r[j] => i = j
    BY <2>2, <2>3
  <2>5. 1 \in 1 .. Len(r) /\ 2 \in 1 .. Len(r) /\ 3 \in 1 .. Len(r) /\ 4 \in 1 .. Len(r)
    BY <2>2
  <2> QED BY <1>2, <1>6, <2>2, <2>4, <2>5 DEF r
<1> QED BY <1>1, <1>3, <1>4, <1>5, <1>6

(* Only what is collected loses its pointers, and what it alone pointed    *)
(* to is freed.                                                            *)
CollectedFrom(m2, L2, c, O) ==
  /\ Memory(m2) /\ Trimmed(mem, m2) /\ m2[c].refcnt = 0 /\ At(m2) = L2 /\ L2 \in Linked
  /\ Counted(m2, L2, DOMAIN held, held, image, Current \ {c})
  /\ \A b \in Buffers : b # c => L2[b] = At(mem)[b]
  /\ \A f \in Fields : L2[c][f] = NoBuffer
  /\ \A b \in Buffers : b # c /\ mem[b].kind \notin {"transform", "shape"} =>
       m2[b].kind = mem[b].kind
  /\ \A b \in Buffers : m2[b].kind \in PartKinds => O[b] # c

LEMMA CommandCollected ==
  ASSUME BuffersAssumption, Staged, NEW O, NEW R, HereInv(O, R), NEW c, CollectCommand(c)
  PROVE  \E L2 : CollectedFrom(mem', L2, c, O)
<1> DEFINE C == Current
           D == DOMAIN held
           L == At(mem)
           fs == References(c)
           bs == [i \in DOMAIN fs |-> mem[c].at[fs[i]]]
           F == Named(fs)
           L2 == Without(L, c, F)
           m1 == DecrefAll(mem, bs)
<1>1. gc = NoGc /\ c \in released /\ mem[c].kind # "copy" /\ mem' = Decref(m1, c)
  BY DEF CollectCommand, Collects
<1>2. /\ Memory(mem) /\ L \in Linked /\ IsFiniteSet(D) /\ C \subseteq Buffers
      /\ Counted(mem, L, D, held, image, C)
      /\ Shape(mem, L, D, held, image, C, O, R, NoBuffer)
      /\ Links(mem, gc) = L /\ Behind(mem, gc) = NoBuffer
      /\ \A b \in Buffers : L[b] = mem[b].at
  BY <1>1, HereReads, LinksAt
<1>3. /\ c \in C /\ c \in Buffers /\ mem[c].kind \in CommandKinds /\ O[c] = c
      /\ Into(L, c) = {} /\ HeldAt(D, held, c) = {} /\ ImageOf(image, c) = {}
  <2>1. c \in C
    BY <1>1, CurrentIs
  <2> QED BY <1>2, <2>1, CommandHeld
<1>4. c # building
  BY <1>1 DEF HereInv, Apart
<1>5. /\ fs \in Seq(Fields) /\ \A i, j \in 1 .. Len(fs) : fs[i] = fs[j] => i = j
      /\ \A f, t : Fits(mem[c].kind, f, t) => f \in F
  BY <1>1, <1>3, ReferencesAre DEF Named
<1>6. bs \in Seq(Somewhere) /\ Len(bs) = Len(fs) /\ \A i \in 1 .. Len(fs) : bs[i] = L[c][fs[i]]
  <2>1. /\ mem[c].at \in [Fields -> Somewhere] /\ L[c] = mem[c].at
    BY <1>2, <1>3, CellOf
  <2>2. DOMAIN fs = 1 .. Len(fs) /\ Len(fs) \in Nat /\ \A i \in 1 .. Len(fs) : fs[i] \in Fields
    BY <1>5, LenProperties, ElementOfSeq
  <2> HIDE DEF fs, L
  <2>3. \A i \in 1 .. Len(fs) : mem[c].at[fs[i]] \in Somewhere
    BY <2>1, <2>2
  <2>4. bs \in [1 .. Len(fs) -> Somewhere]
    BY <2>2, <2>3
  <2>5. bs \in Seq(Somewhere) /\ Len(bs) = Len(fs)
    BY <2>2, <2>4, IsASeq, LenProperties
  <2> QED BY <2>1, <2>2, <2>5
<1> HIDE DEF C, D, L, fs, bs
<1>7. Memory(m1) /\ Trimmed(mem, m1) /\ Counted(m1, L2, D, held, image, C)
  <2>1. c \in Buffers /\ Memory(mem) /\ L \in Linked /\ Counted(mem, L, D, held, image, C)
    BY <1>2, <1>3
  <2>2. IsFiniteSet(D) /\ fs \in Seq(Fields) /\ bs \in Seq(Somewhere)
    BY <1>2, <1>5, <1>6
  <2>3. Letting(L, c, fs, bs)
    BY <1>5, <1>6 DEF Letting
  <2> QED BY <2>1, <2>2, <2>3, LinksLetGo
<1> HIDE DEF m1
<1>8. OneMore(L2, D, held, image, C \ {c}, L2, D, held, image, C, c)
  <2>1. (C \ {c}) \cup {c} = C
    BY <1>3
  <2>2. OneMore(L2, D, held, image, C \ {c}, L2, D, held, image, (C \ {c}) \cup {c}, c)
    <3> HIDE DEF L2
    <3> QED BY <1>2, CountRoot
  <2> QED BY <2>1, <2>2
<1>9. Memory(mem') /\ Trimmed(m1, mem') /\ Counted(mem', L2, D, held, image, C \ {c})
  <2> HIDE DEF L2
  <2> QED BY <1>1, <1>2, <1>3, <1>7, <1>8, DecrefCounts
<1>10. Trimmed(mem, mem')
  BY <1>2, <1>7, <1>9, TrimmedTwice
<1>11. /\ L2 \in Linked /\ \A b \in Buffers : b # c => L2[b] = L[b]
       /\ \A f \in Fields : L2[c][f] = NoBuffer
       /\ \A b \in Buffers, f \in Fields : L2[b][f] # NoBuffer => L2[b][f] = L[b][f]
  <2>1. \A b \in Buffers : L[b] \in [Fields -> Somewhere] /\ L[b] = [f \in Fields |-> L[b][f]]
    BY <1>2 DEF Linked
  <2>2. \A b \in Buffers : L2[b] = [f \in Fields |-> IF b = c /\ f \in F THEN NoBuffer ELSE L[b][f]]
    BY DEF Without
  <2> HIDE DEF F
  <2>3. L2 \in Linked
    BY <2>1 DEF Without, Linked, Somewhere
  <2>4. \A b \in Buffers : b # c => L2[b] = L[b]
    BY <2>1, <2>2
  <2>5. ASSUME NEW f \in Fields PROVE L2[c][f] = NoBuffer
    <3>1. CASE f \in F
      BY <1>3, <2>2, <3>1
    <3>2. CASE f \notin F
      <4>1. L2[c][f] = L[c][f]
        BY <1>3, <2>2, <3>2
      <4>2. L[c][f] # NoBuffer => Fits(mem[c].kind, f, mem[L[c][f]].kind)
        BY <1>2, <1>3 DEF Shape, Pointing, LinkFits
      <4> QED BY <1>5, <3>2, <4>1, <4>2
    <3> QED BY <3>1, <3>2
  <2> QED BY <1>3, <2>3, <2>4, <2>5
<1> HIDE DEF L2, F
<1>12. ASSUME NEW b \in Buffers, mem'[b].kind = "none"
       PROVE  Into(L2, b) = {} /\ HeldAt(D, held, b) = {} /\ ImageOf(image, b) = {} /\ b \notin C \ {c}
  <2>1. mem'[b].refcnt = 0
    BY <1>9, <1>12, CellOf
  <2>2. Count(L2, D, held, image, C \ {c}, b) = 0
    BY <1>9, <2>1 DEF Counted
  <2> QED BY <1>2, <2>2, NobodyHolds
<1>13. mem'[c].refcnt = 0
  <2>1. Into(L2, c) = {}
    <3>1. Into(L2, c) \subseteq Into(L, c)
      <4>1. c # NoBuffer
        BY <1>3, FieldsAre
      <4> QED BY <1>11, <4>1 DEF Into
    <3> QED BY <1>3, <3>1
  <2>2. Count(L2, D, held, image, C \ {c}, c) = 0
    BY <1>2, <1>3, <2>1, NobodyHolds
  <2> QED BY <1>3, <1>9, <2>2 DEF Counted
<1>14. ASSUME NEW b \in Buffers, b # c, mem[b].kind \notin {"transform", "shape"}
       PROVE  mem'[b].kind = mem[b].kind
  <2>1. CASE mem'[b].kind # "none"
    <3>1. mem'[b].refcnt > 0
      BY <1>9, <2>1, CellOf
    <3> QED BY <1>10, <3>1 DEF Trimmed
  <2>2. CASE mem'[b].kind = "none" /\ mem[b].kind # "none"
    <3>1. Into(L2, b) = {} /\ HeldAt(D, held, b) = {} /\ ImageOf(image, b) = {} /\ b \notin C
      BY <1>12, <1>14, <2>2
    <3>2. mem[b].kind \in CommandKinds \cup {"surface", "bitmap", "chunk"}
      <4>1. mem[b].kind \in Kinds
        BY <1>2, CellOf
      <4> QED BY <1>14, <2>2, <4>1 DEF Kinds, PartKinds
    <3>3. mem[b].kind \notin CommandKinds /\ mem[b].kind # "surface"
      BY <1>2, <3>1 DEF Shape, Rooted, Imaging
    <3>4. \A x \in Buffers, f \in Fields : L2[x][f] # b
      <4> SUFFICES ASSUME NEW x \in Buffers, NEW f \in Fields, L2[x][f] = b PROVE FALSE
        OBVIOUS
      <4>1. <<x, f>> \in Into(L2, b)
        BY DEF Into
      <4> QED BY <3>1, <4>1
    <3>5. "src" \in Fields /\ "data" \in Fields /\ "next" \in Fields /\ "prev" \in Fields
      BY DEF Fields
    <3>6. b # NoBuffer
      BY FieldsAre
    <3>7. CASE mem[b].kind = "bitmap"
      <4>1. O[b] \in C /\ L[O[b]]["src"] = b
        BY <1>2, <3>7 DEF Shape, Owned, PartKinds
      <4>2. O[b] \in Buffers
        BY <1>2, <4>1
      <4>3. Fits(mem[O[b]].kind, "src", "bitmap")
        BY <1>2, <3>5, <3>6, <3>7, <4>1, <4>2 DEF Shape, Pointing, LinkFits
      <4>4. O[b] # c
        BY <1>1, <4>3, FitsReads
      <4> QED BY <1>11, <3>4, <3>5, <4>1, <4>2, <4>4
    <3>8. CASE mem[b].kind = "chunk"
      <4>1. Anchored(L, D, held, NoBuffer, b)
        BY <1>2, <3>8 DEF Shape, Chunked
      <4>2. CASE L[b]["prev"] # NoBuffer
        <5> DEFINE p == L[b]["prev"]
        <5>1. p \in Buffers
          BY <1>2, <3>5, <4>2 DEF Linked, Somewhere
        <5>2. Fits("chunk", "prev", mem[p].kind) /\ L[p]["next"] = b
          BY <1>2, <3>5, <3>8, <4>2 DEF Shape, Pointing, LinkFits
        <5> HIDE DEF p
        <5>3. mem[p].kind = "chunk"
          BY <5>2, FitsReads
        <5>4. p # c
          BY <1>3, <5>3 DEF CommandKinds
        <5> QED BY <1>11, <3>4, <3>5, <5>1, <5>2, <5>4
      <4>3. CASE \E x \in Buffers : L[x]["data"] = b
        <5>1. PICK x \in Buffers : L[x]["data"] = b
          BY <4>3
        <5>2. Fits(mem[x].kind, "data", mem[b].kind)
          BY <1>2, <3>5, <3>6, <5>1 DEF Shape, Pointing, LinkFits
        <5>3. mem[x].kind = "bitmap"
          BY <5>2, FitsReads
        <5>4. x # c
          BY <1>3, <5>3 DEF CommandKinds
        <5> QED BY <1>11, <3>4, <3>5, <5>1, <5>4
      <4> QED BY <3>1, <3>6, <4>1, <4>2, <4>3 DEF Anchored
    <3> QED BY <3>2, <3>3, <3>7, <3>8
  <2> QED BY <2>1, <2>2
<1>15. At(mem') = L2
  <2>1. ASSUME NEW b \in Buffers PROVE mem'[b].at = L2[b]
    <3>1. L2[b] \in [Fields -> Somewhere] /\ mem'[b].at \in [Fields -> Somewhere]
      BY <1>9, <1>11, CellOf DEF Linked
    <3>2. CASE mem'[b].refcnt # 0
      <4>1. mem'[b].refcnt > 0 /\ b # c
        BY <1>9, <1>13, <3>2, CellOf
      <4> QED BY <1>2, <1>10, <1>11, <4>1 DEF Trimmed
    <3>3. CASE mem'[b].refcnt = 0
      <4>1. mem'[b].at = Nowhere
        BY <1>9, <3>3, CellOf DEF Free
      <4>2. ASSUME NEW f \in Fields PROVE L2[b][f] = NoBuffer
        <5>1. CASE b = c
          BY <1>11, <5>1
        <5>2. CASE b # c
          <6>1. mem'[b].kind = "none"
            BY <1>9, <3>3, CellOf
          <6>2. mem[b].kind \in {"none", "transform", "shape"}
            BY <1>14, <5>2, <6>1
          <6>3. L[b][f] # NoBuffer => Fits(mem[b].kind, f, mem[L[b][f]].kind)
            BY <1>2 DEF Shape, Pointing, LinkFits
          <6>4. ~ Fits(mem[b].kind, f, mem[L[b][f]].kind)
            BY <6>2, FitsReads DEF CommandKinds
          <6> QED BY <1>11, <5>2, <6>3, <6>4
        <5> QED BY <5>1, <5>2
      <4> QED BY <3>1, <4>1, <4>2 DEF Nowhere
    <3> QED BY <3>2, <3>3
  <2> QED BY <1>11, <2>1 DEF At, Linked
<1>16. ASSUME NEW b \in Buffers, mem'[b].kind \in PartKinds PROVE O[b] # c
  <2>1. mem'[b].refcnt > 0 /\ mem[b].kind = mem'[b].kind
    <3>1. mem'[b].kind # "none"
      BY <1>16 DEF PartKinds
    <3>2. mem'[b].refcnt > 0
      BY <1>9, <3>1, CellOf
    <3> QED BY <1>10, <3>2 DEF Trimmed
  <2> SUFFICES ASSUME O[b] = c PROVE FALSE
    OBVIOUS
  <2>2. "src" \in Fields /\ "data" \in Fields /\ b # NoBuffer
    BY FieldsAre DEF Fields
  <2>3. ASSUME NEW x \in Buffers, mem[x].kind = "bitmap", O[x] = c PROVE FALSE
    <3>1. L[c]["src"] = x
      BY <1>2, <2>3 DEF Shape, Owned
    <3>2. Fits(mem[c].kind, "src", "bitmap")
      BY <1>2, <1>3, <2>2, <2>3, <3>1, FieldsAre DEF Shape, Pointing, LinkFits
    <3> QED BY <1>1, <3>2, FitsReads
  <2>4. CASE mem[b].kind = "chunk"
    <3>1. PICK y \in Buffers : /\ mem[y].kind = "chunk" /\ O[y] = c
                               /\ \/ y = NoBuffer
                                  \/ \E x \in Buffers : L[x]["data"] = y
      BY <1>2, <1>4, <2>4, ChunksStart
    <3>2. PICK x \in Buffers : L[x]["data"] = y
      BY <3>1, FieldsAre
    <3>3. Fits(mem[x].kind, "data", "chunk") /\ O[y] = O[x]
      BY <1>2, <2>2, <3>1, <3>2, FieldsAre DEF Shape, Pointing, LinkFits
    <3>4. mem[x].kind = "bitmap"
      BY <3>3, FitsReads
    <3> QED BY <2>3, <3>1, <3>3, <3>4
  <2>5. CASE mem[b].kind \in {"transform", "shape"}
    <3>1. HeldAt(D, held, b) = {} /\ ImageOf(image, b) = {} /\ b \notin C
      BY <1>4, <2>5, DataHeld DEF C, D
    <3>2. Into(L2, b) = {}
      <4> SUFFICES ASSUME NEW x \in Buffers, NEW f \in Fields, L2[x][f] = b PROVE FALSE
        BY DEF Into
      <4>1. x # c /\ L[x][f] = b
        BY <1>11, <2>2
      <4>2. Fits(mem[x].kind, f, mem[b].kind) /\ O[b] = O[x]
        BY <1>2, <2>2, <2>5, <4>1 DEF Shape, Pointing, LinkFits
      <4>3. mem[x].kind \in CommandKinds
        BY <2>5, <4>2, FitsReads DEF CommandKinds
      <4>4. O[x] = x
        BY <1>2, <4>3 DEF Shape, Rooted
      <4> QED BY <4>1, <4>2, <4>4
    <3>3. Count(L2, D, held, image, C \ {c}, b) = 0
      BY <1>2, <3>1, <3>2, NobodyHolds
    <3> QED BY <1>9, <2>1, <3>3 DEF Counted
  <2>6. mem[b].kind # "bitmap"
    BY <2>3
  <2> QED BY <1>16, <2>1, <2>4, <2>5, <2>6 DEF PartKinds
<1> QED BY <1>9, <1>10, <1>11, <1>13, <1>14, <1>15, <1>16 DEF CollectedFrom, C, D, L
LEMMA CollectCommandHere ==
  ASSUME BuffersAssumption, Staged, NEW O \in [Buffers -> Somewhere], NEW R \in [Buffers -> Nat],
         HereInv(O, R), NEW c, CollectCommand(c)
  PROVE  HereInv(O, R)'
<1> DEFINE C == Current
           D == DOMAIN held
           L == At(mem)
<1>1. /\ gc = NoGc /\ gc' = NoGc /\ c \in released /\ mem[c].kind # "copy"
      /\ released' = released \ {c}
      /\ UNCHANGED <<image, todo, building, held, tail, pushed, dropped>>
  BY DEF CollectCommand, Collects, buildvars
<1>2. /\ Memory(mem) /\ L \in Linked /\ IsFiniteSet(D) /\ C \subseteq Buffers
      /\ Counted(mem, L, D, held, image, C)
      /\ Shape(mem, L, D, held, image, C, O, R, NoBuffer)
      /\ HeldFits(mem, L, todo, building, held, tail, O, R) /\ Apart
      /\ Links(mem, gc) = L /\ Behind(mem, gc) = NoBuffer
      /\ \A b \in Buffers : L[b] = mem[b].at
  BY <1>1, HereReads, LinksAt
<1>3. c \in C /\ c \in Buffers /\ mem[c].kind \in CommandKinds
  <2>1. c \in C
    BY <1>1, CurrentIs
  <2> QED BY <2>1, CommandHeld
<1>4. c # building /\ c \notin pushed /\ gc.cmd = NoBuffer
  BY <1>1, <1>2 DEF Apart, NoGc
<1>5. Current' = C \ {c}
  <2>1. c # NoBuffer /\ dropped = {}
    BY <1>3, FieldsAre DEF HereInv
  <2> QED BY <1>1, <1>4, <2>1 DEF Current, NoGc
<1>6. PICK L2 : CollectedFrom(mem', L2, c, O)
  BY CommandCollected
<1> HIDE DEF C, D, L
<1>7. /\ Memory(mem') /\ Trimmed(mem, mem') /\ mem'[c].refcnt = 0 /\ At(mem') = L2 /\ L2 \in Linked
      /\ Counted(mem', L2, D, held, image, C \ {c})
      /\ \A b \in Buffers : b # c => L2[b] = L[b]
      /\ \A f \in Fields : L2[c][f] = NoBuffer
      /\ \A b \in Buffers : b # c /\ mem[b].kind \notin {"transform", "shape"} =>
           mem'[b].kind = mem[b].kind
      /\ \A b \in Buffers : mem'[b].kind \in PartKinds => O[b] # c
  BY <1>6 DEF CollectedFrom, C, D, L
<1>8. ASSUME NEW b \in Buffers, NEW f \in Fields, L2[b][f] # NoBuffer
      PROVE  b # c /\ L2[b][f] = L[b][f]
  BY <1>7, <1>8
<1>9. ASSUME NEW b \in Buffers, mem'[b].kind # "none"
      PROVE  b # c /\ mem'[b].kind = mem[b].kind /\ mem'[b].at = mem[b].at
  <2>1. mem'[b].refcnt > 0
    BY <1>7, <1>9, CellOf
  <2> QED BY <1>7, <2>1 DEF Trimmed
<1>10. "next" \in Fields /\ "prev" \in Fields /\ "src" \in Fields /\ "data" \in Fields
  BY DEF Fields
<1>11. Shrinks(mem, mem', L, L2, C, C \ {c}, O, D, held, NoBuffer)
  <2>1. \A b \in Buffers, f \in Fields : L2[b][f] \in {NoBuffer, L[b][f]}
    BY <1>8
  <2>2. \A b \in Buffers : mem'[b].refcnt = 0 => \A f \in Fields : L2[b][f] = NoBuffer
    <3> SUFFICES ASSUME NEW b \in Buffers, mem'[b].refcnt = 0, NEW f \in Fields
                 PROVE  L2[b][f] = NoBuffer
      OBVIOUS
    <3>1. mem'[b].at[f] = NoBuffer
      BY <1>7, CellOf DEF Free, Nowhere
    <3> QED BY <1>7, <3>1, LinksAt
  <2>3. ASSUME NEW b \in Buffers, NEW f \in {"next", "prev"}, L2[b][f] # NoBuffer
        PROVE  /\ L2[b][f] = L[b][f] /\ L2[b][f] \in Buffers /\ L2[L2[b][f]] = L[L2[b][f]]
               /\ f = "next" => L[L2[b][f]]["prev"] = b
               /\ f = "prev" => L[L2[b][f]]["next"] = b
    <3> DEFINE t == L[b][f]
    <3>1. L2[b][f] = t /\ t # NoBuffer
      BY <1>8, <1>10, <2>3
    <3>2. t \in Buffers
      BY <1>2, <1>10, <3>1 DEF Linked, Somewhere
    <3>3. LinkFits(mem, L, O, R, b, f, t)
      BY <1>2, <1>10, <3>1 DEF Shape, Pointing
    <3> HIDE DEF t
    <3>4. Fits(mem[b].kind, f, mem[t].kind)
      BY <3>3 DEF LinkFits
    <3>5. mem[t].kind = "chunk"
      BY <3>4, FitsReads
    <3>6. t # c
      BY <1>3, <3>5 DEF CommandKinds
    <3>7. L2[t] = L[t]
      BY <1>7, <3>2, <3>6
    <3> QED BY <3>1, <3>2, <3>3, <3>7 DEF LinkFits, t
  <2>4. /\ \A b \in Buffers : L2[b]["next"] # NoBuffer => L2[L2[b]["next"]]["prev"] = b
        /\ \A b \in Buffers : L2[b]["prev"] # NoBuffer => L2[L2[b]["prev"]]["next"] = b
    BY <2>3
  <2>5. ASSUME NEW b \in Buffers, mem'[b].kind \in PartKinds
        PROVE  O[b] \in C \ {c} /\ L2[O[b]] = L[O[b]]
    <3>1. mem[b].kind = mem'[b].kind
      BY <1>9, <2>5 DEF PartKinds
    <3>2. O[b] \in C /\ O[b] # c
      BY <1>2, <1>7, <2>5, <3>1 DEF Shape, Owned
    <3> QED BY <1>2, <1>7, <3>2
  <2>6. ASSUME NEW b \in Buffers, mem'[b].kind = "bitmap" PROVE L2[O[b]]["src"] = b
    <3>1. mem[b].kind = "bitmap"
      BY <1>9, <2>6
    <3>2. L[O[b]]["src"] = b
      BY <1>2, <3>1 DEF Shape, Owned
    <3> QED BY <2>5, <2>6, <3>2 DEF PartKinds
  <2>7. ASSUME NEW b \in Buffers, mem'[b].kind = "chunk"
        PROVE  Anchored(L2, D, held, NoBuffer, b)
    <3>1. mem[b].kind = "chunk" /\ b # c
      BY <1>9, <2>7
    <3>2. Anchored(L, D, held, NoBuffer, b)
      BY <1>2, <3>1 DEF Shape, Chunked
    <3>3. CASE \E x \in Buffers : L[x]["data"] = b
      <4>1. PICK x \in Buffers : L[x]["data"] = b
        BY <3>3
      <4>2. b # NoBuffer
        BY FieldsAre
      <4>3. Fits(mem[x].kind, "data", mem[b].kind)
        BY <1>2, <1>10, <4>1, <4>2 DEF Shape, Pointing, LinkFits
      <4>4. mem[x].kind = "bitmap"
        BY <4>3, FitsReads
      <4>5. x # c
        BY <1>3, <4>4 DEF CommandKinds
      <4>6. L2[x]["data"] = b
        BY <1>7, <4>1, <4>5
      <4> QED BY <4>6 DEF Anchored
    <3>4. L2[b] = L[b]
      BY <1>7, <3>1
    <3> QED BY <3>2, <3>3, <3>4 DEF Anchored
  <2>8. C \ {c} \subseteq C /\ \A b \in C \ (C \ {c}) : mem'[b].refcnt = 0
    BY <1>7
  <2> QED BY <1>2, <1>7, <2>1, <2>2, <2>4, <2>5, <2>6, <2>7, <2>8 DEF Shrinks
<1>12. Shape(mem', L2, D, held, image, C \ {c}, O, R, NoBuffer)
  BY <1>2, <1>7, <1>11, ShapeShrinks
<1>13. HeldFits(mem', L2, todo, building, held, tail, O, R)
  <2>1. held \in Seq(Buffers) /\ building \in Somewhere /\ tail \in Somewhere
    BY DEF Staged
  <2>2. building # NoBuffer => building \in Buffers /\ building # c
    BY <1>4, <2>1 DEF Somewhere
  <2>3. building # NoBuffer =>
          /\ L2[building] = L[building] /\ mem[building].kind \in CommandKinds
          /\ mem'[building].kind = mem[building].kind
    <3>1. building # NoBuffer => building \in C
      BY CurrentIs DEF C
    <3>2. building # NoBuffer => mem[building].kind \in CommandKinds
      BY <3>1, CommandHeld DEF C
    <3> QED BY <1>7, <2>2, <3>2 DEF CommandKinds
  <2>4. ASSUME NEW i \in D PROVE held[i] \in Buffers /\ mem'[held[i]].kind = mem[held[i]].kind
    <3>1. held[i] \in Buffers
      BY <2>1, ElementOfSeq, LenProperties DEF D
    <3>2. HeldAt(D, held, held[i]) # {}
      BY DEF HeldAt
    <3>3. mem'[held[i]].kind # "none"
      BY <1>2, <1>7, <3>1, <3>2, UsedBuffers
    <3> QED BY <1>9, <3>1, <3>3
  <2>5. ASSUME NEW b \in Buffers, mem[b].kind = "chunk"
        PROVE  mem'[b].kind = "chunk" /\ L2[b] = L[b]
    <3>1. b # c
      BY <1>3, <2>5 DEF CommandKinds
    <3> QED BY <1>7, <2>5, <3>1
  <2>6. BuildKept(mem', L2, O)
    BY <1>2, <2>3, <2>4, <2>5 DEF BuildKept, D
  <2> QED BY <2>6, HeldKept
<1>14. Apart'
  <2>1. \A b \in pushed' \cup released' : mem'[b].kind = "copy" => mem'[b].at["src"] # NoBuffer
    <3> SUFFICES ASSUME NEW b \in pushed' \cup released', mem'[b].kind = "copy"
                 PROVE  mem'[b].at["src"] # NoBuffer
      OBVIOUS
    <3>1. b \in pushed \cup released /\ b \in Buffers
      BY <1>1 DEF HereInv
    <3>2. mem[b].kind = "copy" /\ mem'[b].at = mem[b].at
      BY <1>9, <3>1
    <3> QED BY <1>2, <3>1, <3>2 DEF Apart
  <2> QED BY <1>1, <1>2, <2>1 DEF Apart
<1>15. pushed' \subseteq Buffers /\ released' \subseteq Buffers /\ dropped' = {}
  BY <1>1 DEF HereInv
<1>16. /\ Counted(mem', At(mem'), DOMAIN held', held', image', Current')
       /\ Shape(mem', At(mem'), DOMAIN held', held', image', Current', O, R, NoBuffer)
       /\ HeldFits(mem', At(mem'), todo', building', held', tail', O, R)
  BY <1>1, <1>5, <1>7, <1>12, <1>13 DEF D
<1> QED BY <1>1, <1>7, <1>14, <1>15, <1>16, BetweenAgain
-----------------------------------------------------------------------------
(* Collecting a copy and its image.                                        *)

LEMMA CollectCopyHere ==
  ASSUME BuffersAssumption, Staged, NEW O \in [Buffers -> Somewhere], NEW R \in [Buffers -> Nat],
         HereInv(O, R), NEW c, CollectCopy(c)
  PROVE  HereInv(O, R)'
<1> DEFINE L == At(mem)
           img == mem[c].at["src"]
           y == mem[img].at["data"]
<1>1. /\ gc = NoGc /\ gc' = [cmd |-> c, img |-> img, chunk |-> y]
      /\ c \in released /\ mem[c].kind = "copy" /\ released' = released \ {c}
      /\ UNCHANGED <<mem, image, todo, building, held, tail, pushed, dropped>>
  BY DEF CollectCopy, Collects, buildvars
<1>2. /\ Memory(mem) /\ L \in Linked
      /\ Shape(mem, L, DOMAIN held, held, image, Current, O, R, NoBuffer) /\ Apart
      /\ Links(mem, gc) = L /\ Behind(mem, gc) = NoBuffer
      /\ \A b \in Buffers : L[b] = mem[b].at
  BY <1>1, HereReads, LinksAt
<1>3. c \in Buffers /\ c \in Current /\ c # NoBuffer /\ c \notin pushed /\ c # building
  <2>1. c \in Current
    BY <1>1, CurrentIs
  <2>2. c \in Buffers
    BY <2>1, CommandHeld
  <2> QED BY <1>1, <1>2, <2>1, <2>2, FieldsAre DEF Apart
<1>4. "src" \in Fields /\ "data" \in Fields /\ "prev" \in Fields
  BY DEF Fields
<1>5. img \in Buffers /\ mem[img].kind = "bitmap" /\ O[img] = c
  <2>1. img # NoBuffer /\ L[c]["src"] = img
    BY <1>1, <1>2, <1>3 DEF Apart
  <2>2. /\ img \in Buffers /\ Fits(mem[c].kind, "src", mem[img].kind)
        /\ LinkFits(mem, L, O, R, c, "src", img)
    BY <1>2, <1>3, <1>4, <2>1, LinkReads
  <2> HIDE DEF img
  <2>3. mem[img].kind = "bitmap"
    BY <1>1, <2>2, FitsReads
  <2>4. O[c] = c
    BY <1>3, CommandHeld
  <2> QED BY <2>2, <2>3, <2>4 DEF LinkFits
<1> HIDE DEF img
<1>6. y \in Buffers /\ mem[y].kind = "chunk" /\ O[y] = c /\ mem[y].at["prev"] = NoBuffer
  <2>1. y # NoBuffer /\ L[img]["data"] = y
    BY <1>2, <1>5 DEF Shape, Owned
  <2>2. /\ y \in Buffers /\ Fits(mem[img].kind, "data", mem[y].kind)
        /\ LinkFits(mem, L, O, R, img, "data", y)
    BY <1>2, <1>4, <1>5, <2>1, LinkReads
  <2> HIDE DEF y
  <2>3. mem[y].kind = "chunk"
    BY <1>5, <2>2, FitsReads
  <2> QED BY <1>2, <1>5, <2>2, <2>3 DEF LinkFits
<1> HIDE DEF y
<1>7. y # NoBuffer /\ gc' # NoGc
  BY <1>1, <1>3, <1>6, FieldsAre DEF NoGc
<1>8. gc'.cmd = c /\ gc'.img = img /\ gc'.chunk = y
  BY <1>1
<1>9. Behind(mem', gc') = NoBuffer
  BY <1>1, <1>6, <1>7, <1>8 DEF Behind
<1>10. Links(mem', gc') = L
  <2>1. \A b \in Buffers, f \in Fields : ~ Stale(mem', gc', b, f)
    BY <1>7, <1>8, <1>9, FieldsAre DEF Stale
  <2>2. \A b \in Buffers : L[b] = [f \in Fields |-> mem[b].at[f]]
    BY <1>2 DEF Linked
  <2>3. Links(mem', gc') = [b \in Buffers |-> [f \in Fields |-> mem[b].at[f]]]
    BY <1>1, <2>1 DEF Links
  <2> QED BY <1>2, <2>2, <2>3 DEF Linked
<1>11. Current' = Current
  BY <1>1, <1>3, <1>8 DEF Current, NoGc
<1>12. Apart'
  BY <1>1, <1>2, <1>3, <1>8 DEF Apart
<1>13. Walking(O)'
  BY <1>1, <1>3, <1>5, <1>6, <1>7, <1>8, FieldsAre DEF Walking, img
<1>14. gc' \in [cmd : Somewhere, img : Somewhere, chunk : Somewhere]
  BY <1>1, <1>3, <1>5, <1>6 DEF Somewhere
<1>15. pushed' \subseteq Buffers /\ released' \subseteq Buffers /\ dropped' = {}
  BY <1>1 DEF HereInv
<1>16. /\ Counted(mem', L, DOMAIN held', held', image', Current')
       /\ Shape(mem', L, DOMAIN held', held', image', Current', O, R, NoBuffer)
       /\ HeldFits(mem', L, todo', building', held', tail', O, R)
  BY <1>1, <1>2, <1>11, HereReads
<1> QED BY <1>1, <1>2, <1>9, <1>10, <1>12, <1>13, <1>14, <1>15, <1>16 DEF HereInv
-----------------------------------------------------------------------------
(* The walk along the chunks of an image.                                  *)

LEMMA DecrefOther ==
  ASSUME NEW m, Memory(m), NEW t \in Buffers, NEW b \in Buffers, b # t
  PROVE  Decref(m, t)[b] = m[b]
<1>1. m \in [Buffers -> Cell]
  BY DEF Memory
<1>2. /\ [m EXCEPT ![t].refcnt = @ - 1][b] = m[b]
      /\ [m EXCEPT ![t] = [Free EXCEPT !.refcnt = m[t].refcnt - 1]][b] = m[b]
  BY <1>1
<1> QED BY <1>2 DEF Decref

LEMMA WalkReads ==
  ASSUME BuffersAssumption, Staged, NEW O, NEW R, HereInv(O, R), gc # NoGc
  PROVE  /\ gc.cmd \in Current /\ gc.cmd \in Buffers /\ mem[gc.cmd].kind = "copy"
         /\ gc.cmd # building /\ gc.cmd \notin pushed \cup released
         /\ gc.img \in Buffers /\ mem[gc.img].kind = "bitmap" /\ O[gc.img] = gc.cmd
         /\ Links(mem, gc)[gc.cmd]["src"] = gc.img
         /\ \A x \in Buffers : mem[x].kind = "bitmap" /\ O[x] = gc.cmd => x = gc.img
         /\ \A i \in DOMAIN held : mem[held[i]].kind = "surface" \/ O[held[i]] # gc.cmd
<1> DEFINE c == gc.cmd
           img == gc.img
           L == Links(mem, gc)
<1>1. /\ c \in Buffers /\ mem[c].kind = "copy" /\ img \in Buffers /\ mem[c].at["src"] = img
      /\ c # building /\ c \notin pushed \cup released
  BY FieldsAre DEF HereInv, Walking, Apart
<1>2. c \in Current
  BY <1>1, FieldsAre DEF Current
<1>3. "src" \in Fields
  BY DEF Fields
<1>4. L[c]["src"] = img
  <2>1. ~ Stale(mem, gc, c, "src")
    BY DEF Stale
  <2> QED BY <1>1, <1>3, <2>1, HereReads, LinksLinked
<1>5. Shape(mem, L, DOMAIN held, held, image, Current, O, R, Behind(mem, gc))
  BY HereReads
<1>6. Fits(mem[c].kind, "src", mem[img].kind) /\ LinkFits(mem, L, O, R, c, "src", img) /\ O[c] = c
  <2>1. img # NoBuffer
    BY <1>1, FieldsAre
  <2> QED BY <1>1, <1>2, <1>3, <1>4, <2>1, LinkReads, CommandHeld
<1> HIDE DEF L, c, img
<1>7. mem[img].kind = "bitmap"
  BY <1>1, <1>6, FitsReads
<1>8. O[img] = c
  BY <1>6, <1>7 DEF LinkFits
<1>9. ASSUME NEW x \in Buffers, mem[x].kind = "bitmap", O[x] = c PROVE x = img
  BY <1>4, <1>5, <1>9 DEF Shape, Owned
<1>10. ASSUME NEW i \in DOMAIN held PROVE mem[held[i]].kind = "surface" \/ O[held[i]] # c
  BY <1>1, HeldReads
<1> QED BY <1>1, <1>2, <1>4, <1>7, <1>8, <1>9, <1>10 DEF L, c, img

(* Which links there are around the chunk the walk has come to.            *)
WalkAt(L, O, R, g, p, n) ==
  /\ g \in Buffers /\ mem[g].kind = "chunk" /\ O[g] = gc.cmd /\ p # g
  /\ L[g]["prev"] = p /\ L[g]["next"] = n
  /\ p = NoBuffer => L[gc.img]["data"] = g
  /\ p # NoBuffer => /\ p \in Buffers /\ mem[p].kind = "chunk" /\ O[p] = gc.cmd
                     /\ L[p]["next"] = g /\ L[p]["prev"] = NoBuffer
                     /\ L[gc.img]["data"] = NoBuffer
  /\ n # NoBuffer => /\ n \in Buffers /\ mem[n].kind = "chunk" /\ O[n] = gc.cmd
                     /\ L[n]["prev"] = g /\ mem[n].at["prev"] = g /\ n # g /\ n # p
  /\ \A x \in Buffers, f \in Fields : L[x][f] = g =>
       \/ x = p /\ f = "next"
       \/ x = gc.img /\ f = "data"
       \/ x = n /\ f = "prev"
  /\ p # NoBuffer => \A x \in Buffers, f \in Fields : L[x][f] = p => x = g /\ f = "prev"

LEMMA ChunkReads ==
  ASSUME BuffersAssumption, Staged, NEW O \in [Buffers -> Somewhere], NEW R \in [Buffers -> Nat],
         HereInv(O, R), gc # NoGc, gc.chunk # NoBuffer
  PROVE  WalkAt(Links(mem, gc), O, R, gc.chunk, mem[gc.chunk].at["prev"], mem[gc.chunk].at["next"])
<1> DEFINE c == gc.cmd
           img == gc.img
           g == gc.chunk
           p == mem[g].at["prev"]
           n == mem[g].at["next"]
           L == Links(mem, gc)
<1>1. /\ "prev" \in Fields /\ "next" \in Fields /\ "data" \in Fields /\ "src" \in Fields
      /\ NoBuffer \notin Buffers
  BY FieldsAre DEF Fields
<1>2. g \in Buffers /\ g # NoBuffer /\ mem[g].kind = "chunk" /\ O[g] = c /\ p # g
  BY DEF HereInv, Walking, Somewhere
<1>3. /\ Memory(mem) /\ L \in Linked
      /\ Shape(mem, L, DOMAIN held, held, image, Current, O, R, Behind(mem, gc))
  BY HereReads
<1>4. /\ c \in Current /\ c \in Buffers /\ mem[c].kind = "copy" /\ c # building
      /\ img \in Buffers /\ mem[img].kind = "bitmap" /\ O[img] = c
      /\ \A x \in Buffers : mem[x].kind = "bitmap" /\ O[x] = c => x = img
      /\ \A i \in DOMAIN held : mem[held[i]].kind = "surface" \/ O[held[i]] # c
  BY WalkReads
<1>5. Behind(mem, gc) = p
  BY <1>2 DEF Behind
<1>6. /\ \A b \in Buffers : \A f \in Fields :
           L[b][f] = IF Stale(mem, gc, b, f) THEN NoBuffer ELSE mem[b].at[f]
  BY <1>3, LinksLinked
<1>7. \A b \in Buffers, f \in Fields :
        Stale(mem, gc, b, f) <=> (b = img /\ f = "data" /\ p # NoBuffer) \/ (b = p /\ f = "prev")
  BY <1>2, <1>5 DEF Stale
<1>8. p \in Somewhere /\ n \in Somewhere
  <2>1. mem[g].at \in [Fields -> Somewhere]
    BY <1>2, <1>3, CellOf
  <2> QED BY <1>1, <2>1
<1>9. L[g]["prev"] = p /\ L[g]["next"] = n
  <2>1. ~ Stale(mem, gc, g, "prev") /\ ~ Stale(mem, gc, g, "next")
    BY <1>1, <1>2, <1>7
  <2> QED BY <1>1, <1>2, <1>6, <2>1
<1>10. \A b \in Buffers, f \in Fields : L[b][f] # NoBuffer =>
         /\ L[b][f] \in Buffers /\ LinkFits(mem, L, O, R, b, f, L[b][f])
         /\ Fits(mem[b].kind, f, mem[L[b][f]].kind)
  BY LinkReads
<1> HIDE DEF L, p, n, c, img, g
<1>11. ASSUME NEW x \in Buffers, NEW y \in Buffers, L[x]["data"] = y, O[y] = c, mem[y].kind = "chunk"
       PROVE  x = img
  <2>1. Fits(mem[x].kind, "data", mem[y].kind) /\ LinkFits(mem, L, O, R, x, "data", y)
    BY <1>1, <1>10, <1>11
  <2>2. mem[x].kind = "bitmap" /\ O[x] = c
    BY <1>11, <2>1, FitsReads DEF LinkFits
  <2> QED BY <1>4, <2>2
<1>12. ASSUME p = NoBuffer PROVE L[img]["data"] = g
  <2>1. Anchored(L, DOMAIN held, held, p, g)
    BY <1>2, <1>3, <1>5 DEF Shape, Chunked
  <2>2. HeldAt(DOMAIN held, held, g) = {}
    BY <1>2, <1>4 DEF HeldAt
  <2>3. \E x \in Buffers : L[x]["data"] = g
    BY <1>1, <1>2, <1>9, <1>12, <2>1, <2>2 DEF Anchored
  <2> QED BY <1>2, <1>11, <2>3
<1>13. ASSUME p # NoBuffer
       PROVE  /\ p \in Buffers /\ mem[p].kind = "chunk" /\ O[p] = c
              /\ L[p]["next"] = g /\ L[p]["prev"] = NoBuffer /\ L[img]["data"] = NoBuffer
  <2>1. p \in Buffers
    BY <1>8, <1>13 DEF Somewhere
  <2>2. LinkFits(mem, L, O, R, g, "prev", p) /\ Fits(mem[g].kind, "prev", mem[p].kind)
    BY <1>1, <1>2, <1>9, <1>10, <1>13
  <2>3. mem[p].kind = "chunk"
    BY <2>2, FitsReads
  <2>4. O[p] = c /\ L[p]["next"] = g
    BY <1>2, <2>2, <2>3 DEF LinkFits
  <2>5. L[p]["prev"] = NoBuffer /\ L[img]["data"] = NoBuffer
    BY <1>1, <1>4, <1>6, <1>7, <1>13, <2>1
  <2> QED BY <2>1, <2>3, <2>4, <2>5
<1>14. ASSUME n # NoBuffer
       PROVE  /\ n \in Buffers /\ mem[n].kind = "chunk" /\ O[n] = c
              /\ L[n]["prev"] = g /\ mem[n].at["prev"] = g /\ n # g /\ n # p
  <2>1. n \in Buffers
    BY <1>8, <1>14 DEF Somewhere
  <2>2. LinkFits(mem, L, O, R, g, "next", n) /\ Fits(mem[g].kind, "next", mem[n].kind)
    BY <1>1, <1>2, <1>9, <1>10, <1>14
  <2>3. mem[n].kind = "chunk"
    BY <2>2, FitsReads
  <2>4. O[n] = c /\ L[n]["prev"] = g
    BY <1>2, <2>2, <2>3 DEF LinkFits
  <2>5. mem[n].at["prev"] = g
    BY <1>1, <1>2, <1>6, <2>1, <2>4
  <2>6. R[n] = R[g] + 1
    <3>1. LinkFits(mem, L, O, R, n, "prev", g)
      BY <1>1, <1>2, <1>10, <2>1, <2>4
    <3> QED BY <3>1 DEF LinkFits
  <2>7. n # g
    <3>1. R[g] \in Nat
      BY <1>2
    <3> QED BY <2>6, <3>1
  <2>8. n # p
    BY <1>2, <1>13, <1>14, <2>4
  <2> QED BY <2>1, <2>3, <2>4, <2>5, <2>7, <2>8
<1>15. ASSUME NEW x \in Buffers, NEW f \in Fields, L[x][f] = g
       PROVE  \/ x = p /\ f = "next"
              \/ x = img /\ f = "data"
              \/ x = n /\ f = "prev"
  <2>1. LinkFits(mem, L, O, R, x, f, g) /\ Fits(mem[x].kind, f, mem[g].kind)
    BY <1>2, <1>10, <1>15
  <2>2. f = "data" \/ f = "next" \/ f = "prev"
    BY <1>2, <2>1, FitsReads
  <2>3. CASE f = "data"
    BY <1>2, <1>11, <1>15, <2>3
  <2>4. CASE f = "next"
    BY <1>9, <2>1, <2>4 DEF LinkFits
  <2>5. CASE f = "prev"
    BY <1>9, <2>1, <2>5 DEF LinkFits
  <2> QED BY <2>2, <2>3, <2>4, <2>5
<1>16. ASSUME p # NoBuffer, NEW x \in Buffers, NEW f \in Fields, L[x][f] = p
       PROVE  x = g /\ f = "prev"
  <2>1. LinkFits(mem, L, O, R, x, f, p) /\ Fits(mem[x].kind, f, mem[p].kind)
    BY <1>10, <1>16
  <2>2. f = "data" \/ f = "next" \/ f = "prev"
    BY <1>13, <1>16, <2>1, FitsReads
  <2>3. f # "data"
    BY <1>11, <1>13, <1>16
  <2>4. f # "next"
    BY <1>1, <1>13, <1>16, <2>1 DEF LinkFits
  <2>5. f = "prev" => x = g
    BY <1>13, <1>16, <2>1 DEF LinkFits
  <2> QED BY <2>2, <2>3, <2>4, <2>5
<1> QED BY <1>2, <1>9, <1>12, <1>13, <1>14, <1>15, <1>16 DEF WalkAt, L, p, n, c, img, g
(* What one round of the loop drops.                                       *)
Dropping(L, g, p) ==
  [b \in Buffers |-> [f \in Fields |->
     IF (b = gc.img /\ f = "data") \/ (b = p /\ f = "next") \/ (b = g /\ f = "prev")
     THEN NoBuffer ELSE L[b][f]]]

LEMMA DroppingReads ==
  ASSUME NEW L \in Linked, NEW g, NEW p
  PROVE  /\ Dropping(L, g, p) \in Linked
         /\ \A b \in Buffers : \A f \in Fields :
              Dropping(L, g, p)[b][f] =
                IF (b = gc.img /\ f = "data") \/ (b = p /\ f = "next") \/ (b = g /\ f = "prev")
                THEN NoBuffer ELSE L[b][f]
  BY DEF Dropping, Linked, Somewhere

ChunkGone(m2, L2, g, p, n) ==
  /\ Memory(m2) /\ Trimmed(mem, m2) /\ Counted(m2, L2, DOMAIN held, held, image, Current)
  /\ \A b \in Buffers : b # g /\ b # p => m2[b] = mem[b]
  /\ p # NoBuffer => m2[p].refcnt = 0
  /\ IF n = NoBuffer THEN m2[g].refcnt = 0 ELSE m2[g].kind = "chunk" /\ m2[g].at = mem[g].at

LEMMA ChunkDropped ==
  ASSUME BuffersAssumption, Staged, NEW O \in [Buffers -> Somewhere], NEW R \in [Buffers -> Nat],
         HereInv(O, R), DestroyChunk, gc # NoGc,
         NEW g, g = gc.chunk, NEW p, p = mem[gc.chunk].at["prev"],
         NEW n, n = mem[gc.chunk].at["next"],
         NEW L, L = Links(mem, gc), WalkAt(L, O, R, g, p, n)
  PROVE  ChunkGone(mem', Dropping(L, g, p), g, p, n)
<1> DEFINE c == gc.cmd
           img == gc.img
           C == Current
           D == DOMAIN held
           L2 == Dropping(L, g, p)
           m1 == Decref(mem, g)
<1>1. mem' = IF p = NoBuffer THEN m1 ELSE Decref(m1, p)
  BY DEF DestroyChunk
<1>2. /\ Memory(mem) /\ L \in Linked /\ IsFiniteSet(D) /\ C \subseteq Buffers
      /\ Counted(mem, L, D, held, image, C)
      /\ Shape(mem, L, D, held, image, C, O, R, Behind(mem, gc))
  BY HereReads
<1>3. /\ img \in Buffers /\ mem[img].kind = "bitmap"
      /\ \A i \in D : mem[held[i]].kind = "surface" \/ O[held[i]] # c
  BY WalkReads
<1>4. /\ "prev" \in Fields /\ "next" \in Fields /\ "data" \in Fields /\ NoBuffer \notin Buffers
  BY FieldsAre DEF Fields
<1>5. L2 \in Linked /\ \A b \in Buffers : \A f \in Fields :
        L2[b][f] = IF (b = img /\ f = "data") \/ (b = p /\ f = "next") \/ (b = g /\ f = "prev")
                   THEN NoBuffer ELSE L[b][f]
  BY <1>2, DroppingReads
<1> HIDE DEF C, D, L2, c, img
<1>6. /\ g \in Buffers /\ mem[g].kind = "chunk" /\ O[g] = c /\ p # g
      /\ L[g]["prev"] = p /\ L[g]["next"] = n
      /\ p = NoBuffer => L[img]["data"] = g
      /\ p # NoBuffer => /\ p \in Buffers /\ mem[p].kind = "chunk" /\ O[p] = c
                         /\ L[p]["next"] = g /\ L[p]["prev"] = NoBuffer
                         /\ L[img]["data"] = NoBuffer
      /\ n # NoBuffer => /\ n \in Buffers /\ L[n]["prev"] = g /\ n # g /\ n # p
      /\ \A x \in Buffers, f \in Fields : L[x][f] = g =>
           \/ x = p /\ f = "next"
           \/ x = img /\ f = "data"
           \/ x = n /\ f = "prev"
      /\ p # NoBuffer => \A x \in Buffers, f \in Fields : L[x][f] = p => x = g /\ f = "prev"
  BY DEF WalkAt, c, img
<1>7. /\ Memory(mem') /\ Trimmed(mem, mem') /\ Counted(mem', L2, D, held, image, C)
      /\ \A b \in Buffers : b # g /\ b # p => mem'[b] = mem[b]
  <2>1. CASE p = NoBuffer
    <3>1. NewLink(L2, L, img, "data", g)
      <4>1. ASSUME NEW x \in Buffers, NEW h \in Fields
            PROVE  <<x, h>> = <<img, "data">> \/ L[x][h] = L2[x][h]
        <5>1. x # p
          BY <1>4, <2>1
        <5>2. x = g /\ h = "prev" => L[x][h] = NoBuffer
          BY <1>6, <2>1
        <5> QED BY <1>5, <5>1, <5>2
      <4>2. L2[img]["data"] = NoBuffer
        BY <1>3, <1>4, <1>5
      <4> QED BY <1>2, <1>3, <1>4, <1>5, <1>6, <2>1, <4>1, <4>2 DEF NewLink
    <3>2. OneMore(L2, D, held, image, C, L, D, held, image, C, g)
      BY <1>2, <3>1, CountLink
    <3>3. Memory(m1) /\ Trimmed(mem, m1) /\ Counted(m1, L2, D, held, image, C)
      BY <1>2, <1>6, <3>2, DecrefCounts
    <3>4. \A b \in Buffers : b # g => m1[b] = mem[b]
      BY <1>2, <1>6, DecrefOther
    <3> HIDE DEF m1
    <3> QED BY <1>1, <2>1, <3>3, <3>4
  <2>2. CASE p # NoBuffer
    <3> DEFINE L1 == Without(L, p, {"next"})
    <3>1. L1 \in Linked /\ \A b \in Buffers : \A f \in Fields :
            L1[b][f] = IF b = p /\ f = "next" THEN NoBuffer ELSE L[b][f]
      BY <1>2 DEF Without, Linked, Somewhere
    <3> HIDE DEF L1
    <3>2. NewLink(L1, L, p, "next", g)
      <4>1. L1[p]["next"] = NoBuffer
        BY <1>4, <1>6, <2>2, <3>1
      <4> QED BY <1>2, <1>4, <1>6, <2>2, <3>1, <4>1 DEF NewLink
    <3>3. NewLink(L2, L1, g, "prev", p)
      <4>1. ASSUME NEW x \in Buffers, NEW h \in Fields
            PROVE  <<x, h>> = <<g, "prev">> \/ L1[x][h] = L2[x][h]
        <5>1. x = img /\ h = "data" => L[x][h] = NoBuffer
          BY <1>6, <2>2
        <5> QED BY <1>5, <3>1, <5>1
      <4>2. L2[g]["prev"] = NoBuffer
        BY <1>4, <1>5, <1>6
      <4>3. L1[g]["prev"] = p
        BY <1>4, <1>6, <3>1
      <4> QED BY <1>2, <1>4, <1>5, <1>6, <2>2, <3>1, <4>1, <4>2, <4>3 DEF NewLink
    <3>4. /\ OneMore(L1, D, held, image, C, L, D, held, image, C, g)
          /\ OneMore(L2, D, held, image, C, L1, D, held, image, C, p)
      BY <1>2, <3>2, <3>3, CountLink
    <3>5. Memory(m1) /\ Trimmed(mem, m1) /\ Counted(m1, L1, D, held, image, C)
      BY <1>2, <1>6, <3>4, DecrefCounts
    <3>6. \A b \in Buffers : b # g => m1[b] = mem[b]
      BY <1>2, <1>6, DecrefOther
    <3> HIDE DEF m1
    <3>7. /\ Memory(Decref(m1, p)) /\ Trimmed(m1, Decref(m1, p))
          /\ Counted(Decref(m1, p), L2, D, held, image, C)
      BY <1>2, <1>6, <2>2, <3>4, <3>5, DecrefCounts
    <3>8. \A b \in Buffers : b # p => Decref(m1, p)[b] = m1[b]
      BY <1>6, <2>2, <3>5, DecrefOther
    <3>9. mem' = Decref(m1, p)
      BY <1>1, <2>2
    <3>10. Trimmed(mem, mem')
      BY <1>2, <3>5, <3>7, <3>9, TrimmedTwice
    <3> QED BY <3>6, <3>7, <3>8, <3>9, <3>10
  <2> QED BY <2>1, <2>2
<1> HIDE DEF m1
<1>8. \A x \in Buffers, f \in Fields : L2[x][f] # NoBuffer => L2[x][f] = L[x][f]
  BY <1>5
<1>9. ASSUME NEW b \in Buffers, mem[b].kind = "chunk", O[b] = c, Into(L2, b) = {}
      PROVE  mem'[b].refcnt = 0
  <2>1. HeldAt(D, held, b) = {}
    BY <1>3, <1>9 DEF HeldAt
  <2>2. ImageOf(image, b) = {} /\ b \notin C
    BY <1>2, <1>9 DEF Shape, Imaging, Rooted, CommandKinds
  <2>3. Count(L2, D, held, image, C, b) = 0
    BY <1>2, <1>9, <2>1, <2>2, NobodyHolds
  <2> QED BY <1>7, <2>3 DEF Counted
<1>10. ASSUME p # NoBuffer PROVE mem'[p].refcnt = 0
  <2>1. Into(L2, p) = {}
    <3> SUFFICES ASSUME NEW x \in Buffers, NEW f \in Fields, L2[x][f] = p PROVE FALSE
      BY DEF Into
    <3>1. L[x][f] = p
      BY <1>8, <1>10
    <3>2. x = g /\ f = "prev"
      BY <1>6, <1>10, <3>1
    <3>3. L2[g]["prev"] = NoBuffer
      BY <1>4, <1>5, <1>6
    <3> QED BY <1>10, <3>2, <3>3
  <2> QED BY <1>6, <1>9, <1>10, <2>1
<1>11. CASE n = NoBuffer
  <2>1. Into(L2, g) = {}
    <3> SUFFICES ASSUME NEW x \in Buffers, NEW f \in Fields, L2[x][f] = g PROVE FALSE
      BY DEF Into
    <3>1. L[x][f] = g /\ g # NoBuffer
      BY <1>4, <1>6, <1>8
    <3>2. \/ x = p /\ f = "next"
          \/ x = img /\ f = "data"
      BY <1>4, <1>6, <1>11, <3>1
    <3>3. L2[x][f] = NoBuffer
      BY <1>5, <3>2
    <3> QED BY <3>1, <3>3
  <2>2. mem'[g].refcnt = 0
    BY <1>6, <1>9, <2>1
  <2> QED BY <1>7, <1>10, <1>11, <2>2 DEF ChunkGone, C, D, L2
<1>12. CASE n # NoBuffer
  <2>1. L2[n]["prev"] = g
    BY <1>4, <1>5, <1>6, <1>12
  <2>2. mem'[g].refcnt > 0
    BY <1>2, <1>4, <1>5, <1>6, <1>7, <1>12, <2>1, UsedBuffers
  <2>3. mem'[g].kind = "chunk" /\ mem'[g].at = mem[g].at
    BY <1>6, <1>7, <2>2 DEF Trimmed
  <2> QED BY <1>7, <1>10, <1>12, <2>3 DEF ChunkGone, C, D, L2
<1> QED BY <1>11, <1>12
LEMMA DestroyChunkHere ==
  ASSUME BuffersAssumption, Staged, NEW O \in [Buffers -> Somewhere], NEW R \in [Buffers -> Nat],
         HereInv(O, R), DestroyChunk
  PROVE  HereInv(O, R)'
<1> DEFINE c == gc.cmd
           img == gc.img
           g == gc.chunk
           p == mem[g].at["prev"]
           n == mem[g].at["next"]
           C == Current
           D == DOMAIN held
           L == Links(mem, gc)
           L2 == Dropping(L, g, p)
           B2 == IF n = NoBuffer THEN NoBuffer ELSE g
<1>1. /\ g # NoBuffer /\ gc # NoGc /\ gc' = [gc EXCEPT !.chunk = n]
      /\ UNCHANGED <<image, todo, building, held, tail, pushed, released, dropped>>
  BY DEF DestroyChunk, NoGc, buildvars
<1>2. /\ Memory(mem) /\ L \in Linked /\ IsFiniteSet(D) /\ C \subseteq Buffers
      /\ Shape(mem, L, D, held, image, C, O, R, Behind(mem, gc)) /\ Apart
      /\ gc \in [cmd : Somewhere, img : Somewhere, chunk : Somewhere]
      /\ pushed \subseteq Buffers /\ released \subseteq Buffers /\ dropped = {}
  BY HereReads DEF HereInv
<1>3. /\ c \in C /\ c \in Buffers /\ mem[c].kind = "copy" /\ c # building
      /\ mem[c].at["src"] = img
      /\ img \in Buffers /\ mem[img].kind = "bitmap" /\ O[img] = c
      /\ \A i \in D : mem[held[i]].kind = "surface" \/ O[held[i]] # c
  BY <1>1, WalkReads DEF HereInv, Walking
<1>4. WalkAt(L, O, R, g, p, n)
  BY <1>1, ChunkReads
<1>5. ChunkGone(mem', L2, g, p, n)
  BY <1>1, <1>4, ChunkDropped
<1>6. Behind(mem, gc) = p
  BY <1>1 DEF Behind
<1>7. /\ gc'.cmd = c /\ gc'.img = img /\ gc'.chunk = n
      /\ n \in Somewhere /\ gc' \in [cmd : Somewhere, img : Somewhere, chunk : Somewhere]
  <2>1. n \in Somewhere
    <3>1. g \in Buffers
      BY <1>4 DEF WalkAt
    <3>2. mem[g].at \in [Fields -> Somewhere] /\ "next" \in Fields
      BY <1>2, <3>1, CellOf DEF Fields
    <3> QED BY <3>2
  <2> HIDE DEF n
  <2> QED BY <1>1, <1>2, <2>1
<1>8. gc' # NoGc
  BY <1>3, <1>7, FieldsAre DEF NoGc
<1>9. Current' = C
  BY <1>1, <1>7 DEF Current
<1>10. /\ "prev" \in Fields /\ "next" \in Fields /\ "data" \in Fields /\ "src" \in Fields
       /\ NoBuffer \notin Buffers
  BY FieldsAre DEF Fields
<1>11. L2 \in Linked /\ \A b \in Buffers : \A f \in Fields :
        L2[b][f] = IF (b = img /\ f = "data") \/ (b = p /\ f = "next") \/ (b = g /\ f = "prev")
                   THEN NoBuffer ELSE L[b][f]
  BY <1>2, DroppingReads
<1>12. \A b \in Buffers : \A f \in Fields :
         L[b][f] = IF (b = img /\ f = "data" /\ p # NoBuffer) \/ (b = p /\ f = "prev")
                   THEN NoBuffer ELSE mem[b].at[f]
  <2>1. \A b \in Buffers : \A f \in Fields :
          L[b][f] = IF Stale(mem, gc, b, f) THEN NoBuffer ELSE mem[b].at[f]
    BY <1>2, LinksLinked
  <2>2. \A b \in Buffers, f \in Fields :
          Stale(mem, gc, b, f) <=> (b = img /\ f = "data" /\ p # NoBuffer) \/ (b = p /\ f = "prev")
    BY <1>1, <1>6 DEF Stale
  <2> QED BY <2>1, <2>2
<1> HIDE DEF c, img, g, p, n, C, D, L, L2
<1>13. /\ g \in Buffers /\ mem[g].kind = "chunk" /\ O[g] = c /\ p # g
       /\ L[g]["prev"] = p /\ L[g]["next"] = n
       /\ p = NoBuffer => L[img]["data"] = g
       /\ p # NoBuffer => /\ p \in Buffers /\ mem[p].kind = "chunk" /\ O[p] = c
                          /\ L[p]["next"] = g /\ L[p]["prev"] = NoBuffer
                          /\ L[img]["data"] = NoBuffer
       /\ n # NoBuffer => /\ n \in Buffers /\ mem[n].kind = "chunk" /\ O[n] = c
                          /\ L[n]["prev"] = g /\ mem[n].at["prev"] = g /\ n # g /\ n # p
  BY <1>4 DEF WalkAt, c, img
<1>14. /\ Memory(mem') /\ Trimmed(mem, mem') /\ Counted(mem', L2, D, held, image, C)
       /\ \A b \in Buffers : b # g /\ b # p => mem'[b] = mem[b]
       /\ p # NoBuffer => mem'[p].refcnt = 0
       /\ IF n = NoBuffer THEN mem'[g].refcnt = 0 ELSE mem'[g].kind = "chunk" /\ mem'[g].at = mem[g].at
  BY <1>5 DEF ChunkGone, C, D
<1>15. \A b \in Buffers : \A f \in Fields : mem'[b].refcnt = 0 => mem'[b].at[f] = NoBuffer
  BY <1>14, CellOf DEF Free, Nowhere
<1>16. ASSUME NEW b \in Buffers, NEW f \in Fields, mem'[b].refcnt = 0 PROVE L2[b][f] = NoBuffer
  <2>1. CASE b # g /\ b # p
    <3>1. mem[b].at[f] = NoBuffer
      BY <1>14, <1>15, <1>16, <2>1
    <3> QED BY <1>11, <1>12, <3>1
  <2>2. CASE b = g \/ b = p
    <3>1. mem[b].kind = "chunk"
      BY <1>10, <1>13, <2>2
    <3>2. f = "next" \/ f = "prev" \/ L[b][f] = NoBuffer
      <4>1. L[b][f] # NoBuffer => Fits(mem[b].kind, f, mem[L[b][f]].kind)
        BY LinkReads DEF L
      <4> QED BY <3>1, <4>1, FitsReads
    <3>3. b = g => n = NoBuffer
      <4>1. ASSUME b = g, n # NoBuffer PROVE FALSE
        <5>1. mem'[g].kind = "chunk"
          BY <1>14, <4>1
        <5> QED BY <1>14, <1>16, <4>1, <5>1, CellOf
      <4> QED BY <4>1
    <3>4. L2[b][f] = NoBuffer \/ L2[b][f] = L[b][f]
      BY <1>11
    <3>5. CASE b = g
      <4>1. f = "next" => L[b][f] = NoBuffer
        BY <1>13, <3>3, <3>5
      <4>2. f = "prev" => L2[b][f] = NoBuffer
        BY <1>10, <1>11, <3>5
      <4> QED BY <3>2, <3>4, <4>1, <4>2
    <3>6. CASE b = p
      <4>1. f = "next" => L2[b][f] = NoBuffer
        BY <1>10, <1>11, <3>6
      <4>2. f = "prev" => L[b][f] = NoBuffer
        BY <1>10, <1>13, <3>6
      <4> QED BY <3>2, <3>4, <4>1, <4>2
    <3> QED BY <2>2, <3>5, <3>6
  <2> QED BY <2>1, <2>2
<1>17. Behind(mem', gc') = B2
  BY <1>7, <1>13, <1>14 DEF Behind
<1>18. Links(mem', gc') = L2
  <2>1. ASSUME NEW b \in Buffers, NEW f \in Fields
        PROVE  Stale(mem', gc', b, f) <=>
                 (b = img /\ f = "data") \/ (b = g /\ f = "prev" /\ n # NoBuffer)
    BY <1>7, <1>8, <1>10, <1>13, <1>17 DEF Stale
  <2>2. ASSUME NEW b \in Buffers, NEW f \in Fields
        PROVE  L2[b][f] = IF Stale(mem', gc', b, f) THEN NoBuffer ELSE mem'[b].at[f]
    <3>1. CASE mem'[b].refcnt = 0
      BY <1>15, <1>16, <3>1
    <3>2. CASE mem'[b].refcnt # 0
      <4>1. mem'[b].at = mem[b].at /\ b # p
        <5>1. mem'[b].refcnt > 0
          BY <1>14, <3>2, CellOf
        <5>2. b # p
          BY <1>10, <1>14, <3>2
        <5> QED BY <1>14, <5>1, <5>2 DEF Trimmed
      <4>2. b = g => n # NoBuffer
        BY <1>14, <3>2
      <4>3. b = img /\ f = "data" => L2[b][f] = NoBuffer
        BY <1>11
      <4>4. b = g /\ f = "prev" => L2[b][f] = NoBuffer
        BY <1>11
      <4>5. (b # img \/ f # "data") /\ (b # g \/ f # "prev") => L2[b][f] = mem[b].at[f]
        BY <1>11, <1>12, <4>1
      <4> QED BY <2>1, <4>1, <4>2, <4>3, <4>4, <4>5
    <3> QED BY <3>1, <3>2
  <2>3. Links(mem', gc') = [b \in Buffers |-> [f \in Fields |-> L2[b][f]]]
    BY <2>2 DEF Links
  <2> QED BY <1>11, <2>3 DEF Linked
<1>19. \A b \in Buffers, f \in Fields : L2[b][f] \in {NoBuffer, L[b][f]}
  BY <1>11
<1>20. ASSUME NEW b \in Buffers, mem'[b].kind # "none" PROVE mem'[b].kind = mem[b].kind /\ mem'[b].at = mem[b].at
  <2>1. mem'[b].refcnt > 0
    BY <1>14, <1>20, CellOf
  <2> QED BY <1>14, <2>1 DEF Trimmed
<1>21. Shrinks(mem, mem', L, L2, C, C, O, D, held, B2)
  <2>1. ASSUME NEW b \in Buffers, L2[b]["next"] # NoBuffer PROVE L2[L2[b]["next"]]["prev"] = b
    <3> DEFINE t == L[b]["next"]
    <3>1. L2[b]["next"] = t /\ t # NoBuffer /\ b # p
      BY <1>10, <1>11, <2>1
    <3>2. t \in Buffers /\ L[t]["prev"] = b
      <4>1. t \in Buffers /\ LinkFits(mem, L, O, R, b, "next", t)
        BY <1>10, <3>1, LinkReads DEF L
      <4> HIDE DEF t
      <4> QED BY <4>1 DEF LinkFits
    <3> HIDE DEF t
    <3>3. t # g
      BY <1>13, <3>1, <3>2
    <3>4. L2[t]["prev"] = L[t]["prev"]
      BY <1>10, <1>11, <3>2, <3>3
    <3> QED BY <3>1, <3>2, <3>4
  <2>2. ASSUME NEW b \in Buffers, L2[b]["prev"] # NoBuffer PROVE L2[L2[b]["prev"]]["next"] = b
    <3> DEFINE t == L[b]["prev"]
    <3>1. L2[b]["prev"] = t /\ t # NoBuffer /\ b # g
      BY <1>10, <1>11, <2>2
    <3>2. t \in Buffers /\ L[t]["next"] = b
      <4>1. t \in Buffers /\ LinkFits(mem, L, O, R, b, "prev", t)
        BY <1>10, <3>1, LinkReads DEF L
      <4> HIDE DEF t
      <4> QED BY <4>1 DEF LinkFits
    <3> HIDE DEF t
    <3>3. t # p
      BY <1>13, <3>1, <3>2
    <3>4. L2[t]["next"] = L[t]["next"]
      BY <1>10, <1>11, <3>2, <3>3
    <3> QED BY <3>1, <3>2, <3>4
  <2>3. ASSUME NEW b \in Buffers, mem'[b].kind \in PartKinds PROVE O[b] \in C
    <3>1. mem[b].kind \in PartKinds
      BY <1>20, <2>3 DEF PartKinds
    <3> QED BY <1>2, <3>1 DEF Shape, Owned
  <2>4. ASSUME NEW b \in Buffers, mem'[b].kind = "bitmap" PROVE L2[O[b]]["src"] = b
    <3>1. mem[b].kind = "bitmap"
      BY <1>20, <2>4
    <3>2. L[O[b]]["src"] = b /\ O[b] \in Buffers
      BY <1>2, <3>1 DEF Shape, Owned, PartKinds
    <3> QED BY <1>10, <1>11, <3>2
  <2>5. ASSUME NEW b \in Buffers, mem'[b].kind = "chunk" PROVE Anchored(L2, D, held, B2, b)
    <3>1. mem[b].kind = "chunk" /\ b # p /\ b # NoBuffer
      <4>1. mem'[b].refcnt # 0
        BY <1>14, <2>5, CellOf
      <4> QED BY <1>10, <1>14, <1>20, <2>5, <4>1
    <3>2. Anchored(L, D, held, p, b)
      BY <1>2, <1>6, <3>1 DEF Shape, Chunked
    <3>3. CASE b = g
      <4>1. n # NoBuffer
        <5>1. mem'[g].refcnt # 0
          BY <1>14, <2>5, <3>3, CellOf
        <5> QED BY <1>14, <5>1
      <4> QED BY <3>3, <4>1 DEF Anchored
    <3>4. CASE b # g
      <4>1. L2[b]["prev"] = L[b]["prev"]
        BY <1>10, <1>11, <3>1, <3>4
      <4>2. ASSUME NEW x \in Buffers, L[x]["data"] = b PROVE L2[x]["data"] = b
        <5>1. x # img
          BY <1>13, <3>1, <3>4, <4>2
        <5> QED BY <1>10, <1>11, <4>2, <5>1
      <4> QED BY <3>1, <3>2, <4>1, <4>2 DEF Anchored
    <3> QED BY <3>3, <3>4
  <2>6. C \subseteq C /\ \A b \in C \ C : mem'[b].refcnt = 0
    OBVIOUS
  <2> HIDE DEF B2
  <2> QED BY <1>2, <1>11, <1>14, <1>16, <1>19, <2>1, <2>2, <2>3, <2>4, <2>5, <2>6 DEF Shrinks
<1>22. Shape(mem', L2, D, held, image, C, O, R, B2)
  <2> HIDE DEF B2
  <2> QED BY <1>2, <1>14, <1>21, ShapeShrinks
<1>23. HeldFits(mem', L2, todo, building, held, tail, O, R)
  <2>1. ASSUME building # NoBuffer
        PROVE  mem'[building].kind = mem[building].kind /\ \A f \in Fields : L2[building][f] = L[building][f]
    <3>1. building \in Buffers /\ mem[building].kind \in CommandKinds
      BY <2>1, CurrentIs, CommandHeld
    <3>2. building # g /\ building # p /\ building # img
      BY <1>3, <1>13, <2>1, <3>1 DEF CommandKinds
    <3> QED BY <1>11, <1>14, <3>1, <3>2
  <2>2. ASSUME NEW i \in D PROVE mem'[held[i]].kind = mem[held[i]].kind
    <3>1. held[i] \in Buffers
      BY HeldReads DEF D
    <3>2. held[i] # g /\ held[i] # p
      BY <1>3, <1>10, <1>13, <3>1
    <3> QED BY <1>14, <3>1, <3>2
  <2>3. ASSUME NEW b \in Buffers, mem[b].kind = "chunk", O[b] = building
        PROVE  mem'[b].kind = "chunk" /\ \A f \in Fields : L2[b][f] = L[b][f]
    <3>1. b # g /\ b # p /\ b # img
      BY <1>3, <1>10, <1>13, <2>3
    <3> QED BY <1>11, <1>14, <2>3, <3>1
  <2>4. BuildKept(mem', L2, O)
    BY <2>1, <2>2, <2>3 DEF BuildKept, D, L
  <2> QED BY <2>4, HeldKept
<1>24. Apart'
  <2>1. \A b \in pushed' \cup released' : mem'[b].kind = "copy" => mem'[b].at["src"] # NoBuffer
    <3> SUFFICES ASSUME NEW b \in pushed' \cup released', mem'[b].kind = "copy"
                 PROVE  mem'[b].at["src"] # NoBuffer
      OBVIOUS
    <3>1. b \in pushed \cup released /\ b \in Buffers
      BY <1>1, <1>2
    <3>2. mem[b].kind = "copy" /\ mem'[b].at = mem[b].at
      BY <1>20, <3>1
    <3> QED BY <1>2, <3>1, <3>2 DEF Apart
  <2> QED BY <1>1, <1>2, <1>7, <2>1 DEF Apart, c
<1>25. Walking(O)'
  <2>1. mem'[c] = mem[c]
    BY <1>3, <1>10, <1>13, <1>14
  <2>2. n # NoBuffer => mem'[n] = mem[n]
    BY <1>13, <1>14
  <2> QED BY <1>3, <1>7, <1>13, <2>1, <2>2 DEF Walking
<1>26. pushed' \subseteq Buffers /\ released' \subseteq Buffers /\ dropped' = {}
  BY <1>1, <1>2
<1>27. /\ Counted(mem', Links(mem', gc'), DOMAIN held', held', image', Current')
       /\ Shape(mem', Links(mem', gc'), DOMAIN held', held', image', Current', O, R, Behind(mem', gc'))
       /\ HeldFits(mem', Links(mem', gc'), todo', building', held', tail', O, R)
  <2> HIDE DEF B2
  <2> QED BY <1>1, <1>9, <1>14, <1>17, <1>18, <1>22, <1>23 DEF D
<1> HIDE DEF B2
<1> QED BY <1>7, <1>14, <1>24, <1>25, <1>26, <1>27 DEF HereInv
LEMMA DestroyImageHere ==
  ASSUME BuffersAssumption, Staged, NEW O \in [Buffers -> Somewhere], NEW R \in [Buffers -> Nat],
         HereInv(O, R), DestroyImage
  PROVE  HereInv(O, R)'
<1> DEFINE c == gc.cmd
           img == gc.img
           C == Current
           D == DOMAIN held
           L == Links(mem, gc)
           L2 == Without(L, c, {"src"})
           m1 == Decref(mem, img)
<1>1. /\ gc # NoGc /\ gc.chunk = NoBuffer /\ gc' = NoGc /\ mem' = Decref(m1, c)
      /\ UNCHANGED <<image, todo, building, held, tail, pushed, released, dropped>>
  BY DEF DestroyImage, buildvars
<1>2. Behind(mem, gc) = NoBuffer
  BY <1>1 DEF Behind
<1>3. /\ Memory(mem) /\ L \in Linked /\ IsFiniteSet(D) /\ C \subseteq Buffers
      /\ Counted(mem, L, D, held, image, C)
      /\ Shape(mem, L, D, held, image, C, O, R, NoBuffer) /\ Apart
      /\ pushed \subseteq Buffers /\ released \subseteq Buffers /\ dropped = {}
  BY <1>2, HereReads DEF HereInv
<1>4. /\ c \in C /\ c \in Buffers /\ mem[c].kind = "copy" /\ c # building
      /\ c \notin pushed \cup released
      /\ img \in Buffers /\ mem[img].kind = "bitmap" /\ O[img] = c /\ L[c]["src"] = img
      /\ \A x \in Buffers : mem[x].kind = "bitmap" /\ O[x] = c => x = img
      /\ \A i \in D : mem[held[i]].kind = "surface" \/ O[held[i]] # c
  BY <1>1, WalkReads
<1>5. Into(L, c) = {} /\ HeldAt(D, held, c) = {} /\ ImageOf(image, c) = {} /\ O[c] = c
  BY <1>4, CommandHeld
<1>6. /\ "prev" \in Fields /\ "next" \in Fields /\ "data" \in Fields /\ "src" \in Fields
      /\ NoBuffer \notin Buffers /\ c # img
  BY <1>4, FieldsAre DEF Fields
<1>7. \A b \in Buffers : \A f \in Fields :
        L[b][f] = IF b = img /\ f = "data" THEN NoBuffer ELSE mem[b].at[f]
  <2>1. \A b \in Buffers : \A f \in Fields :
          L[b][f] = IF Stale(mem, gc, b, f) THEN NoBuffer ELSE mem[b].at[f]
    BY <1>3, LinksLinked
  <2>2. \A b \in Buffers, f \in Fields : Stale(mem, gc, b, f) <=> (b = img /\ f = "data")
    BY <1>1, <1>2, <1>6 DEF Stale
  <2> QED BY <2>1, <2>2
<1>8. \A b \in Buffers, f \in Fields : L[b][f] # NoBuffer =>
        Fits(mem[b].kind, f, mem[L[b][f]].kind) /\ LinkFits(mem, L, O, R, b, f, L[b][f])
  BY LinkReads
<1>9. Current' = C \ {c}
  BY <1>1, <1>3, <1>4, <1>6 DEF Current, NoGc
<1>10. L2 \in Linked /\ \A b \in Buffers : \A f \in Fields :
         L2[b][f] = IF b = c /\ f = "src" THEN NoBuffer ELSE L[b][f]
  BY <1>3 DEF Without, Linked, Somewhere
<1> HIDE DEF c, img, C, D, L, L2
<1>11. /\ OneMore(L2, D, held, image, C, L, D, held, image, C, img)
       /\ OneMore(L2, D, held, image, C \ {c}, L2, D, held, image, C, c)
  <2>1. NewLink(L2, L, c, "src", img)
    BY <1>3, <1>4, <1>6, <1>10 DEF NewLink
  <2>2. OneMore(L2, D, held, image, C, L, D, held, image, C, img)
    BY <1>3, <2>1, CountLink
  <2>3. (C \ {c}) \cup {c} = C
    BY <1>4
  <2>4. OneMore(L2, D, held, image, C \ {c}, L2, D, held, image, (C \ {c}) \cup {c}, c)
    BY <1>3, CountRoot
  <2> QED BY <2>2, <2>3, <2>4
<1>12. /\ Memory(m1) /\ Trimmed(mem, m1) /\ Counted(m1, L2, D, held, image, C)
       /\ \A b \in Buffers : b # img => m1[b] = mem[b]
  BY <1>3, <1>4, <1>11, DecrefCounts, DecrefOther
<1> HIDE DEF m1
<1>13. /\ Memory(mem') /\ Trimmed(m1, mem') /\ Counted(mem', L2, D, held, image, C \ {c})
       /\ \A b \in Buffers : b # c => mem'[b] = m1[b]
  BY <1>1, <1>3, <1>4, <1>11, <1>12, DecrefCounts, DecrefOther
<1>14. Trimmed(mem, mem') /\ \A b \in Buffers : b # c /\ b # img => mem'[b] = mem[b]
  BY <1>3, <1>12, <1>13, TrimmedTwice
<1>15. \A b \in Buffers, f \in Fields : L2[b][f] # NoBuffer => L2[b][f] = L[b][f]
  BY <1>10
<1>16. mem'[c].refcnt = 0
  <2>1. Into(L2, c) = {}
    <3>1. Into(L2, c) \subseteq Into(L, c)
      BY <1>4, <1>6, <1>15 DEF Into
    <3> QED BY <1>5, <3>1
  <2>2. Count(L2, D, held, image, C \ {c}, c) = 0
    BY <1>3, <1>5, <2>1, NobodyHolds
  <2> QED BY <1>4, <1>13, <2>2 DEF Counted
<1>17. mem'[img].refcnt = 0
  <2>1. Into(L2, img) = {}
    <3> SUFFICES ASSUME NEW x \in Buffers, NEW f \in Fields, L2[x][f] = img PROVE FALSE
      BY DEF Into
    <3>1. L[x][f] = img /\ img # NoBuffer
      BY <1>4, <1>6, <1>15
    <3>2. Fits(mem[x].kind, f, mem[img].kind) /\ LinkFits(mem, L, O, R, x, f, img)
      BY <1>8, <3>1
    <3>3. mem[x].kind = "copy" /\ f = "src" /\ O[x] = c
      BY <1>4, <3>2, FitsReads DEF LinkFits
    <3>4. O[x] = x
      BY <1>3, <3>3 DEF Shape, Rooted, CommandKinds
    <3>5. L2[c]["src"] = NoBuffer
      BY <1>4, <1>6, <1>10
    <3> QED BY <3>1, <3>3, <3>4, <3>5
  <2>2. HeldAt(D, held, img) = {}
    BY <1>4 DEF HeldAt
  <2>3. ImageOf(image, img) = {} /\ img \notin C
    BY <1>3, <1>4 DEF Shape, Imaging, Rooted, CommandKinds
  <2>4. Count(L2, D, held, image, C \ {c}, img) = 0
    BY <1>3, <2>1, <2>2, <2>3, NobodyHolds
  <2> QED BY <1>4, <1>13, <2>4 DEF Counted
<1>18. ASSUME NEW b \in Buffers, mem'[b].kind # "none"
       PROVE  b # c /\ b # img /\ mem'[b] = mem[b]
  <2>1. mem'[b].refcnt # 0
    BY <1>13, <1>18, CellOf
  <2> QED BY <1>14, <1>16, <1>17, <2>1
<1>19. ASSUME NEW b \in Buffers, NEW f \in Fields, mem'[b].refcnt = 0
       PROVE  L2[b][f] = NoBuffer /\ mem'[b].at[f] = NoBuffer
  <2>1. mem'[b].at[f] = NoBuffer
    BY <1>13, <1>19, CellOf DEF Free, Nowhere
  <2>2. CASE b = c
    <3>1. L[c][f] # NoBuffer => f = "src"
      BY <1>4, <1>8, FitsReads
    <3> QED BY <1>4, <1>10, <2>1, <2>2, <3>1
  <2>3. CASE b = img
    <3>1. L[img][f] # NoBuffer => f = "data"
      BY <1>4, <1>8, FitsReads
    <3>2. L[img]["data"] = NoBuffer
      BY <1>4, <1>6, <1>7
    <3> QED BY <1>4, <1>10, <2>1, <2>3, <3>1, <3>2
  <2>4. CASE b # c /\ b # img
    BY <1>7, <1>10, <1>14, <2>1, <2>4
  <2> QED BY <2>2, <2>3, <2>4
<1>20. At(mem') = L2
  <2>1. ASSUME NEW b \in Buffers, NEW f \in Fields PROVE mem'[b].at[f] = L2[b][f]
    <3>1. CASE mem'[b].refcnt = 0
      BY <1>19, <3>1
    <3>2. CASE mem'[b].refcnt # 0
      <4>1. b # c /\ b # img /\ mem'[b] = mem[b]
        BY <1>14, <1>16, <1>17, <3>2
      <4> QED BY <1>7, <1>10, <4>1
    <3> QED BY <3>1, <3>2
  <2>2. \A b \in Buffers : mem'[b].at \in [Fields -> Somewhere] /\ L2[b] \in [Fields -> Somewhere]
    BY <1>10, <1>13, CellOf DEF Linked
  <2>3. \A b \in Buffers : mem'[b].at = L2[b]
    BY <2>1, <2>2
  <2> QED BY <1>10, <2>3 DEF At, Linked
(* nothing is left of what belonged to the command *)
<1>21. ASSUME NEW b \in Buffers, mem'[b].kind \in PartKinds PROVE O[b] \in C \ {c}
  <2>1. mem'[b] = mem[b] /\ b # img
    BY <1>18, <1>21 DEF PartKinds
  <2>2. O[b] \in C
    BY <1>3, <1>21, <2>1 DEF Shape, Owned
  <2> SUFFICES ASSUME O[b] = c PROVE FALSE
    BY <2>2
  <2>3. mem[b].kind # "bitmap"
    BY <1>4, <2>1
  <2>4. mem[b].kind # "chunk"
    <3> SUFFICES ASSUME mem[b].kind = "chunk" PROVE FALSE
      OBVIOUS
    <3>1. PICK y \in Buffers : /\ mem[y].kind = "chunk" /\ O[y] = c
                               /\ \/ y = NoBuffer
                                  \/ \E x \in Buffers : L[x]["data"] = y
      BY <1>2, <1>4, ChunksStart DEF L
    <3>2. PICK x \in Buffers : L[x]["data"] = y
      BY <1>6, <3>1
    <3>3. Fits(mem[x].kind, "data", mem[y].kind) /\ LinkFits(mem, L, O, R, x, "data", y)
      BY <1>6, <1>8, <3>1, <3>2
    <3>4. mem[x].kind = "bitmap" /\ O[x] = c
      BY <3>1, <3>3, FitsReads DEF LinkFits
    <3>5. x = img
      BY <1>4, <3>4
    <3> QED BY <1>4, <1>6, <1>7, <3>1, <3>2, <3>5
  <2>5. mem[b].kind \notin {"transform", "shape"}
    BY <1>4, DataHeld
  <2> QED BY <1>21, <2>1, <2>3, <2>4, <2>5 DEF PartKinds
<1>22. Shrinks(mem, mem', L, L2, C, C \ {c}, O, D, held, NoBuffer)
  <2>1. \A b \in Buffers, f \in Fields : L2[b][f] \in {NoBuffer, L[b][f]}
    BY <1>10
  <2>2. \A b \in Buffers : mem'[b].refcnt = 0 => \A f \in Fields : L2[b][f] = NoBuffer
    BY <1>19
  <2>3. \A b \in Buffers : /\ L2[b]["next"] = L[b]["next"] /\ L2[b]["prev"] = L[b]["prev"]
                           /\ L2[b]["data"] = L[b]["data"]
    BY <1>6, <1>10
  <2>4. \A b \in Buffers, f \in Fields : L[b][f] # NoBuffer => L[b][f] \in Buffers
    BY <1>3 DEF Linked, Somewhere
  <2>5. /\ \A b \in Buffers : L2[b]["next"] # NoBuffer => L2[L2[b]["next"]]["prev"] = b
        /\ \A b \in Buffers : L2[b]["prev"] # NoBuffer => L2[L2[b]["prev"]]["next"] = b
    BY <1>6, <1>8, <2>3, <2>4 DEF LinkFits
  <2>6. ASSUME NEW b \in Buffers, mem'[b].kind = "bitmap" PROVE L2[O[b]]["src"] = b
    <3>1. O[b] \in C \ {c} /\ mem[b].kind = "bitmap"
      BY <1>18, <1>21, <2>6 DEF PartKinds
    <3>2. L[O[b]]["src"] = b
      BY <1>3, <3>1 DEF Shape, Owned
    <3> QED BY <1>3, <1>6, <1>10, <3>1, <3>2
  <2>7. ASSUME NEW b \in Buffers, mem'[b].kind = "chunk" PROVE Anchored(L2, D, held, NoBuffer, b)
    <3>1. mem[b].kind = "chunk"
      BY <1>18, <2>7
    <3>2. Anchored(L, D, held, NoBuffer, b)
      BY <1>3, <3>1 DEF Shape, Chunked
    <3> QED BY <2>3, <3>2 DEF Anchored
  <2>8. C \ {c} \subseteq C /\ \A b \in C \ (C \ {c}) : mem'[b].refcnt = 0
    BY <1>16
  <2> QED BY <1>3, <1>10, <1>14, <1>21, <2>1, <2>2, <2>5, <2>6, <2>7, <2>8 DEF Shrinks
<1>23. Shape(mem', L2, D, held, image, C \ {c}, O, R, NoBuffer)
  BY <1>3, <1>13, <1>22, ShapeShrinks
<1>24. HeldFits(mem', L2, todo, building, held, tail, O, R)
  <2>1. ASSUME building # NoBuffer
        PROVE  mem'[building].kind = mem[building].kind /\ \A f \in Fields : L2[building][f] = L[building][f]
    <3>1. building \in Buffers /\ mem[building].kind \in CommandKinds
      BY <2>1, CurrentIs, CommandHeld
    <3>2. building # c /\ building # img
      BY <1>4, <3>1 DEF CommandKinds
    <3> QED BY <1>10, <1>14, <3>1, <3>2
  <2>2. ASSUME NEW i \in D PROVE mem'[held[i]].kind = mem[held[i]].kind
    <3>1. held[i] \in Buffers
      BY HeldReads DEF D
    <3>2. held[i] # img
      BY <1>4
    <3>3. held[i] # c
      BY <1>5 DEF HeldAt
    <3> QED BY <1>14, <3>1, <3>2, <3>3
  <2>3. ASSUME NEW b \in Buffers, mem[b].kind = "chunk"
        PROVE  mem'[b].kind = "chunk" /\ \A f \in Fields : L2[b][f] = L[b][f]
    <3>1. b # c /\ b # img
      BY <1>4, <2>3
    <3> QED BY <1>10, <1>14, <2>3, <3>1
  <2>4. BuildKept(mem', L2, O)
    BY <2>1, <2>2, <2>3 DEF BuildKept, D, L
  <2> QED BY <2>4, HeldKept
<1>25. Apart'
  <2>1. \A b \in pushed' \cup released' : mem'[b].kind = "copy" => mem'[b].at["src"] # NoBuffer
    <3> SUFFICES ASSUME NEW b \in pushed' \cup released', mem'[b].kind = "copy"
                 PROVE  mem'[b].at["src"] # NoBuffer
      OBVIOUS
    <3>1. b \in pushed \cup released /\ b \in Buffers
      BY <1>1, <1>3
    <3>2. mem'[b] = mem[b]
      BY <1>18, <3>1
    <3> QED BY <1>3, <3>1, <3>2 DEF Apart
  <2>2. gc'.cmd = NoBuffer
    BY <1>1 DEF NoGc
  <2> QED BY <1>1, <1>3, <1>6, <2>1, <2>2 DEF Apart
<1>26. /\ Counted(mem', At(mem'), DOMAIN held', held', image', Current')
       /\ Shape(mem', At(mem'), DOMAIN held', held', image', Current', O, R, NoBuffer)
       /\ HeldFits(mem', At(mem'), todo', building', held', tail', O, R)
  BY <1>1, <1>9, <1>13, <1>20, <1>23, <1>24 DEF D
<1> QED BY <1>1, <1>3, <1>13, <1>25, <1>26, BetweenAgain
-----------------------------------------------------------------------------
(* The invariant holds at first, and after every step.                     *)

LEMMA NothingThere ==
  ASSUME BuffersAssumption, NEW m, m = Empty, NEW I, I = [s \in Imaged |-> NoBuffer],
         NEW O, NEW R
  PROVE  /\ Memory(m) /\ Counted(m, At(m), DOMAIN << >>, << >>, I, {})
         /\ Shape(m, At(m), DOMAIN << >>, << >>, I, {}, O, R, NoBuffer)
         /\ HeldFits(m, At(m), << >>, NoBuffer, << >>, NoBuffer, O, R)
<1>1. \A b \in Buffers : m[b] = Free
  BY DEF Empty
<1>2. Memory(m)
  BY <1>1, FreeIs DEF Memory, Empty, Free
<1>3. \A b \in Buffers : \A f \in Fields : At(m)[b][f] = NoBuffer
  BY <1>1 DEF At, Free, Nowhere
<1>4. DOMAIN << >> = {} /\ IsFiniteSet({})
  BY FS_EmptySet
<1>5. NoBuffer \notin Buffers
  BY FieldsAre
<1>6. Counted(m, At(m), {}, << >>, I, {})
  <2> SUFFICES ASSUME NEW b \in Buffers PROVE m[b].refcnt = Count(At(m), {}, << >>, I, {}, b)
    BY DEF Counted
  <2>1. Into(At(m), b) = {} /\ HeldAt({}, << >>, b) = {} /\ ImageOf(I, b) = {}
    <3>1. Into(At(m), b) = {}
      BY <1>3, <1>5 DEF Into
    <3> QED BY <1>5, <3>1 DEF HeldAt, ImageOf
  <2>2. Count(At(m), {}, << >>, I, {}, b) = 0
    BY <1>4, <2>1, NobodyHolds
  <2> QED BY <1>1, <2>2 DEF Free
<1>7. Shape(m, At(m), {}, << >>, I, {}, O, R, NoBuffer)
  <2>1. Pointing(m, At(m), O, R)
    BY <1>3 DEF Pointing
  <2>2. \A b \in Buffers : /\ m[b].kind \notin CommandKinds /\ m[b].kind \notin PartKinds
                           /\ m[b].kind # "surface"
    BY <1>1 DEF Free, CommandKinds, PartKinds
  <2>3. Rooted(m, {}, O) /\ Owned(m, At(m), {}, O) /\ Chunked(m, At(m), {}, << >>, R, NoBuffer)
    BY <2>2 DEF Rooted, Owned, Chunked, PartKinds
  <2>4. Imaging(m, I)
    BY <1>5, <2>2 DEF Imaging, ImageOf
  <2> QED BY <2>1, <2>3, <2>4 DEF Shape
<1>8. HeldFits(m, At(m), << >>, NoBuffer, << >>, NoBuffer, O, R)
  BY DEF HeldFits
<1> QED BY <1>2, <1>4, <1>6, <1>7, <1>8

LEMMA AnyOwner ==
  /\ [b \in Buffers |-> NoBuffer] \in [Buffers -> Somewhere]
  /\ [b \in Buffers |-> 1] \in [Buffers -> Nat]
  BY DEF Somewhere

(* The inductive invariant holds when nothing is allocated yet.            *)
THEOREM IInvInit ==
  ASSUME BuffersAssumption, BuffersInit
  PROVE  IInv
<1> DEFINE O == [b \in Buffers |-> NoBuffer]
           R == [b \in Buffers |-> 1]
<1>1. /\ mem = Empty /\ image = [s \in Imaged |-> NoBuffer]
      /\ todo = << >> /\ building = NoBuffer /\ held = << >> /\ tail = NoBuffer
      /\ pushed = {} /\ released = {} /\ gc = NoGc /\ vtSema = TRUE /\ dropped = {}
  BY DEF BuffersInit
<1>2. Staged
  <2>1. Stage(todo, building, held, tail)
    BY <1>1 DEF Stage
  <2>2. << >> \in Seq(StepSet) /\ << >> \in Seq(Buffers)
    OBVIOUS
  <2> QED BY <1>1, <2>1, <2>2 DEF Staged, Somewhere
<1>3. O \in [Buffers -> Somewhere] /\ R \in [Buffers -> Nat]
  BY AnyOwner
<1> HIDE DEF O, R
<1>4. /\ Memory(mem) /\ Counted(mem, At(mem), DOMAIN held, held, image, {})
      /\ Shape(mem, At(mem), DOMAIN held, held, image, {}, O, R, NoBuffer)
      /\ HeldFits(mem, At(mem), todo, building, held, tail, O, R)
  BY <1>1, NothingThere
<1>5. Links(mem, gc) = At(mem) /\ Behind(mem, gc) = NoBuffer
  BY <1>1, <1>4, LinksAt
<1>6. Current = {}
  BY <1>1 DEF Current, NoGc
<1>7. Apart /\ Walking(O)
  BY <1>1 DEF Apart, Walking, NoGc
<1>8. gc \in [cmd : Somewhere, img : Somewhere, chunk : Somewhere]
  BY <1>1 DEF NoGc, Somewhere
<1>9. HereInv(O, R)
  BY <1>1, <1>3, <1>4, <1>5, <1>6, <1>7, <1>8 DEF HereInv
<1> QED BY <1>1, <1>2, <1>3, <1>9 DEF IInv, Here

LEMMA EnterVtHere ==
  ASSUME BuffersAssumption, Staged, pushed = {}, released = {}, EnterVtBuffers
  PROVE  Here'
<1> DEFINE O == [b \in Buffers |-> NoBuffer]
           R == [b \in Buffers |-> 1]
<1>1. /\ todo = << >> /\ gc' = NoGc /\ dropped' = {}
      /\ mem' = Empty /\ image' = [s \in Imaged |-> NoBuffer]
      /\ todo' = todo /\ building' = building /\ held' = held /\ tail' = tail
      /\ pushed' = {} /\ released' = {}
  BY DEF EnterVtBuffers, NoCommand, buildvars
<1>2. building = NoBuffer /\ held = << >> /\ tail = NoBuffer
  BY <1>1, StageIdle DEF Staged
<1>3. O \in [Buffers -> Somewhere] /\ R \in [Buffers -> Nat]
  BY AnyOwner
<1> HIDE DEF O, R
<1>4. /\ Memory(mem') /\ Counted(mem', At(mem'), DOMAIN << >>, << >>, image', {})
      /\ Shape(mem', At(mem'), DOMAIN << >>, << >>, image', {}, O, R, NoBuffer)
      /\ HeldFits(mem', At(mem'), << >>, NoBuffer, << >>, NoBuffer, O, R)
  BY <1>1, NothingThere
<1>5. Current' = {}
  BY <1>1, <1>2 DEF Current, NoGc
<1>6. Apart'
  BY <1>1 DEF Apart, NoGc
<1>7. /\ Counted(mem', At(mem'), DOMAIN held', held', image', Current')
      /\ Shape(mem', At(mem'), DOMAIN held', held', image', Current', O, R, NoBuffer)
      /\ HeldFits(mem', At(mem'), todo', building', held', tail', O, R)
  BY <1>1, <1>2, <1>4, <1>5
<1>8. HereInv(O, R)'
  BY <1>1, <1>3, <1>4, <1>6, <1>7, BetweenAgain
<1> QED BY <1>3, <1>8 DEF Here

(* Every step of building, pushing, releasing, collecting and of the VT    *)
(* keeps the inductive invariant.                                          *)
THEOREM IInvStep ==
  ASSUME BuffersAssumption, IInv, [BuffersNext]_buffervars
  PROVE  IInv'
<1>1. Staged /\ Staged'
  BY StageStep DEF IInv
<1>2. CASE vtSema
  <2>1. PICK O \in [Buffers -> Somewhere], R \in [Buffers -> Nat] : HereInv(O, R)
    BY <1>2 DEF IInv, Here
  <2>2. ASSUME vtSema' = vtSema, NEW O2 \in [Buffers -> Somewhere], NEW R2 \in [Buffers -> Nat],
               HereInv(O2, R2)'
        PROVE  IInv'
    <3>1. Here'
      BY <2>2 DEF Here
    <3> QED BY <1>1, <1>2, <2>2, <3>1 DEF IInv
  <2>3. ASSUME NEW command \in Commands, Begin(command) PROVE IInv'
    <3>1. vtSema' = vtSema
      BY <2>3 DEF Begin
    <3> QED BY <1>1, <2>1, <2>2, <2>3, <3>1, BeginHere
  <2>4. CASE AllocCommand
    <3>1. vtSema' = vtSema
      BY <2>4 DEF AllocCommand, outside
    <3>2. PICK O2 \in [Buffers -> Somewhere] : HereInv(O2, R)'
      BY <1>1, <2>1, <2>4, AllocCommandHere
    <3> QED BY <2>2, <3>1, <3>2
  <2>5. CASE AllocChunk
    <3>1. vtSema' = vtSema
      BY <2>5 DEF AllocChunk, outside
    <3>2. PICK O2 \in [Buffers -> Somewhere], R2 \in [Buffers -> Nat] : HereInv(O2, R2)'
      BY <1>1, <2>1, <2>5, AllocChunkHere
    <3> QED BY <2>2, <3>1, <3>2
  <2>6. CASE AllocBitmap
    <3>1. vtSema' = vtSema
      BY <2>6 DEF AllocBitmap, outside
    <3>2. PICK O2 \in [Buffers -> Somewhere] : HereInv(O2, R)'
      BY <1>1, <2>1, <2>6, AllocBitmapHere
    <3> QED BY <2>2, <3>1, <3>2
  <2>7. CASE AllocData
    <3>1. vtSema' = vtSema
      BY <2>7 DEF AllocData, outside
    <3>2. PICK O2 \in [Buffers -> Somewhere] : HereInv(O2, R)'
      BY <1>1, <2>1, <2>7, AllocDataHere
    <3> QED BY <2>2, <3>1, <3>2
  <2>8. CASE SurfaceImage
    <3>1. vtSema' = vtSema
      BY <2>8 DEF SurfaceImage, outside
    <3> QED BY <1>1, <2>1, <2>2, <2>8, <3>1, SurfaceImageHere
  <2>9. CASE Push
    <3>1. vtSema' = vtSema
      BY <2>9 DEF Push
    <3> QED BY <1>1, <1>2, <2>1, <2>2, <2>9, <3>1, PushHere
  <2>10. ASSUME NEW c \in Buffers, Release(c) PROVE IInv'
    <3>1. vtSema' = vtSema
      BY <2>10 DEF Release
    <3> QED BY <1>1, <2>1, <2>2, <2>10, <3>1, ReleaseHere
  <2>11. ASSUME NEW c \in Buffers, CollectCommand(c) PROVE IInv'
    <3>1. vtSema' = vtSema
      BY <2>11 DEF CollectCommand
    <3> QED BY <1>1, <2>1, <2>2, <2>11, <3>1, CollectCommandHere
  <2>12. ASSUME NEW c \in Buffers, CollectCopy(c) PROVE IInv'
    <3>1. vtSema' = vtSema
      BY <2>12 DEF CollectCopy
    <3> QED BY <1>1, <2>1, <2>2, <2>12, <3>1, CollectCopyHere
  <2>13. CASE DestroyChunk
    <3>1. vtSema' = vtSema
      BY <2>13 DEF DestroyChunk
    <3> QED BY <1>1, <2>1, <2>2, <2>13, <3>1, DestroyChunkHere
  <2>14. CASE DestroyImage
    <3>1. vtSema' = vtSema
      BY <2>14 DEF DestroyImage
    <3> QED BY <1>1, <2>1, <2>2, <2>14, <3>1, DestroyImageHere
  <2>15. CASE LeaveVtBuffers
    <3>1. vtSema' = FALSE /\ pushed' = {} /\ released' = {} /\ gc' = NoGc
      BY <2>15 DEF LeaveVtBuffers, NoCommand
    <3> QED BY <1>1, <3>1 DEF IInv
  <2>16. ~ EnterVtBuffers
    BY <1>2 DEF EnterVtBuffers
  <2>17. CASE UNCHANGED buffervars
    <3>1. /\ UNCHANGED <<mem, image, todo, building, held, tail>>
          /\ UNCHANGED <<pushed, released, gc, vtSema, dropped>>
      BY <2>17 DEF buffervars, buildvars
    <3>2. HereInv(O, R)'
      <4>1. /\ Links(mem, gc)' = Links(mem, gc) /\ Behind(mem, gc)' = Behind(mem, gc)
            /\ Current' = Current
        BY <3>1 DEF Current
      <4>2. Apart' /\ Walking(O)'
        BY <2>1, <3>1 DEF HereInv, Apart, Walking
      <4> QED BY <2>1, <3>1, <4>1, <4>2 DEF HereInv
    <3> QED BY <2>1, <2>2, <3>1, <3>2
  <2> QED BY <2>3, <2>4, <2>5, <2>6, <2>7, <2>8, <2>9, <2>10, <2>11, <2>12, <2>13, <2>14,
             <2>15, <2>16, <2>17 DEF BuffersNext
<1>3. CASE ~ vtSema
  <2>1. pushed = {} /\ released = {} /\ gc = NoGc /\ gc.chunk = NoBuffer
    BY <1>3 DEF IInv, NoGc
  <2>2. ASSUME vtSema' = vtSema, pushed' = pushed, released' = released, gc' = gc
        PROVE  IInv'
    BY <1>1, <1>3, <2>1, <2>2 DEF IInv
  <2>3. CASE \E command \in Commands : Begin(command)
    BY <2>2, <2>3 DEF Begin
  <2>4. CASE AllocCommand \/ AllocChunk \/ AllocBitmap \/ AllocData \/ SurfaceImage
    BY <2>2, <2>4 DEF AllocCommand, AllocChunk, AllocBitmap, AllocData, SurfaceImage, outside
  <2>5. CASE Push
    BY <1>3, <2>2, <2>5 DEF Push
  <2>6. \A c : ~ Release(c) /\ ~ CollectCommand(c) /\ ~ CollectCopy(c)
    BY <2>1 DEF Release, CollectCommand, CollectCopy
  <2>7. ~ DestroyChunk /\ ~ DestroyImage /\ ~ LeaveVtBuffers
    BY <1>3, <2>1 DEF DestroyChunk, DestroyImage, LeaveVtBuffers
  <2>8. CASE EnterVtBuffers
    <3>1. Here' /\ vtSema'
      BY <1>1, <2>1, <2>8, EnterVtHere DEF EnterVtBuffers
    <3> QED BY <1>1, <3>1 DEF IInv
  <2>9. CASE UNCHANGED buffervars
    BY <2>2, <2>9 DEF buffervars
  <2> QED BY <2>3, <2>4, <2>5, <2>6, <2>7, <2>8, <2>9 DEF BuffersNext
<1> QED BY <1>2, <1>3
-----------------------------------------------------------------------------
(* What is reached from a set, in a set that holds all its buffers point to.*)

Reaching(P, n, from) ==
  /\ P[0] = from
  /\ \A k \in 1 .. n : P[k] = P[k - 1] \cup UNION {Targets(b) : b \in P[k - 1]}

LEMMA ReachedUnfolds ==
  ASSUME BuffersAssumption, NEW X, NEW from \in SUBSET X, \A b \in X : Targets(b) \subseteq X
  PROVE  \E P \in [0 .. MaxChunks + 2 -> SUBSET X] :
           Reaching(P, MaxChunks + 2, from) /\ Reached(from) = P[MaxChunks + 2]
<1> DEFINE n == MaxChunks + 2
           V == SUBSET X
           N(Y) == Y \cup UNION {Targets(b) : b \in Y}
           H == [x \in (1 .. n) \X V |-> N(x[2])]
<1>1. n \in Nat
  BY DEF BuffersAssumption
<1>2. H \in [(1 .. n) \X V -> V]
  <2>1. ASSUME NEW Y \in V PROVE N(Y) \in V
    OBVIOUS
  <2>2. \A x \in (1 .. n) \X V : x[2] \in V
    OBVIOUS
  <2> HIDE DEF N, V
  <2> QED BY <2>1, <2>2
<1>3. PICK P \in [0 .. n -> V] : Iterates(P, n, from, H)
  <2>1. from \in V
    OBVIOUS
  <2> HIDE DEF H, n, V
  <2> QED BY <1>1, <1>2, <2>1, Recursion, Zenon
<1>4. ASSUME NEW i \in 1 .. n
      PROVE  P[i] = N(P[i - 1])
  <2>1. i - 1 \in 0 .. n
    BY <1>1
  <2>2. P[i] = H[<<i, P[i - 1]>>]
    <3> HIDE DEF H
    <3> QED BY <1>3 DEF Iterates
  <2>3. P[i - 1] \in V
    BY <2>1
  <2> HIDE DEF N, V
  <2> QED BY <2>2, <2>3
<1>5. P[0] = from
  BY <1>3 DEF Iterates
<1> DEFINE F(g) == [i \in 0 .. MaxChunks + 2 |->
                     IF i = 0 THEN from
                     ELSE g[i - 1] \cup UNION {Targets(b) : b \in g[i - 1]}]
           S == CHOOSE g : g = F(g)
<1>6. P = F(P)
  <2>1. ASSUME NEW i \in 0 .. n PROVE P[i] = F(P)[i]
    <3>1. CASE i = 0
      BY <1>5, <3>1
    <3>2. CASE i # 0
      <4>1. i \in 1 .. n
        BY <1>1, <3>2
      <4> QED BY <1>4, <3>2, <4>1
    <3> QED BY <3>1, <3>2
  <2> QED BY <2>1
<1>7. S = F(S)
  <2> HIDE DEF F
  <2> QED BY <1>6, Zenon
<1>8. Reached(from) = S[n]
  BY Zenon DEF Reached
<1>9. ASSUME NEW i \in 0 .. n PROVE S[i] = P[i]
  <2> DEFINE T == {j \in 0 .. n : S[j] = P[j]}
  <2>0. \A j \in 0 .. n : S[j] = IF j = 0 THEN from ELSE N(S[j - 1])
    <3> HIDE DEF S
    <3> QED BY <1>7
  <2> HIDE DEF S
  <2>1. 0 \in T
    <3>1. 0 \in 0 .. n
      BY <1>1
    <3>2. S[0] = from
      BY <2>0, <3>1, Zenon
    <3> QED BY <1>5, <3>1, <3>2
  <2>2. ASSUME NEW j \in 0 .. n - 1, j \in T PROVE j + 1 \in T
    <3>1. j + 1 \in 1 .. n /\ (j + 1) - 1 = j /\ j + 1 # 0 /\ j + 1 \in 0 .. n
      BY <1>1
    <3> HIDE DEF N
    <3>2. P[j + 1] = N(P[j])
      BY <1>4, <3>1
    <3>3. S[j + 1] = N(S[j])
      BY <2>0, <3>1
    <3> QED BY <2>2, <3>1, <3>2, <3>3
  <2>3. \A j \in 0 .. n : j \in T
    <3> HIDE DEF T, n
    <3> QED BY <1>1, <2>1, <2>2, UpTo
  <2> QED BY <2>3
<1>10. Reached(from) = P[n]
  <2>1. n \in 0 .. n
    BY <1>1
  <2> QED BY <1>8, <1>9, <2>1
<1> QED BY <1>3, <1>4, <1>5, <1>10 DEF Reaching

LEMMA ReachedWithin ==
  ASSUME BuffersAssumption, NEW X, NEW from \in SUBSET X, \A b \in X : Targets(b) \subseteq X
  PROVE  Reached(from) \subseteq X
<1>1. PICK P \in [0 .. MaxChunks + 2 -> SUBSET X] : Reached(from) = P[MaxChunks + 2]
  BY ReachedUnfolds
<1>2. MaxChunks + 2 \in 0 .. MaxChunks + 2
  BY DEF BuffersAssumption
<1> QED BY <1>1, <1>2

LEMMA ReachingMore ==
  ASSUME NEW P, NEW n \in Nat, NEW from, Reaching(P, n, from), NEW i \in 0 .. n
  PROVE  /\ \A j \in i .. n : P[i] \subseteq P[j]
         /\ i < n => \A b \in P[i] : Targets(b) \subseteq P[i + 1]
<1>1. ASSUME NEW k \in 0 .. n - 1
      PROVE  P[k] \subseteq P[k + 1] /\ \A b \in P[k] : Targets(b) \subseteq P[k + 1]
  <2>1. k + 1 \in 1 .. n /\ (k + 1) - 1 = k
    OBVIOUS
  <2>2. P[k + 1] = P[k] \cup UNION {Targets(b) : b \in P[k]}
    BY <2>1 DEF Reaching
  <2> QED BY <2>2
<1>2. \A j \in i .. n : P[i] \subseteq P[j]
  <2> DEFINE T == {j \in 0 .. n : j >= i => P[i] \subseteq P[j]}
  <2>1. 0 \in T
    <3>1. 0 >= i => i = 0
      OBVIOUS
    <3>2. 0 >= i => P[i] \subseteq P[0]
      BY <3>1
    <3> QED BY <3>2
  <2>2. ASSUME NEW j \in 0 .. n - 1, j \in T PROVE j + 1 \in T
    <3>1. j + 1 \in 0 .. n /\ P[j] \subseteq P[j + 1]
      BY <1>1
    <3>2. CASE j >= i
      BY <2>2, <3>1, <3>2
    <3>3. CASE ~ j >= i
      <4>1. j + 1 >= i => j + 1 = i
        BY <3>3
      <4> QED BY <3>1, <4>1
    <3> QED BY <3>2, <3>3
  <2>3. \A j \in 0 .. n : j \in T
    <3> HIDE DEF T
    <3> QED BY <2>1, <2>2, UpTo
  <2> QED BY <2>3
<1>3. i < n => i \in 0 .. n - 1
  OBVIOUS
<1> QED BY <1>1, <1>2, <1>3
-----------------------------------------------------------------------------
(* Between two collections every buffer's refcnt is the number of those    *)
(* who hold it.                                                            *)

LEMMA CountsFollow ==
  ASSUME BuffersAssumption, IInv
  PROVE  CountsAreExact
<1>1. ASSUME vtSema, gc = NoGc, NEW b \in Buffers
      PROVE  mem[b].refcnt =
               Cardinality(PointersTo(b)) + Cardinality({i \in DOMAIN held : held[i] = b})
                 + Cardinality({s \in Imaged : image[s] = b}) + IF b \in Roots THEN 1 ELSE 0
  <2>1. PICK O \in [Buffers -> Somewhere], R \in [Buffers -> Nat] : HereInv(O, R)
    BY <1>1 DEF IInv, Here
  <2>2. /\ Memory(mem) /\ Counted(mem, At(mem), DOMAIN held, held, image, Current)
        /\ \A x \in Buffers : At(mem)[x] = mem[x].at
    BY <1>1, <2>1, Between, LinksAt
  <2>3. PointersTo(b) = Into(At(mem), b)
    <3>1. b # NoBuffer
      BY FieldsAre
    <3>2. ASSUME NEW x \in Buffers, NEW f \in Fields, mem[x].at[f] = b PROVE x \in Used
      <4>1. ASSUME mem[x].kind = "none" PROVE FALSE
        <5>1. mem[x].at = Nowhere
          BY <2>2, <4>1, CellOf DEF Free
        <5> QED BY <3>1, <3>2, <5>1 DEF Nowhere
      <4> QED BY <4>1 DEF Used, FreeIn
    <3>3. Used \subseteq Buffers
      BY DEF Used
    <3>4. \A x \in Buffers : \A f \in Fields : At(mem)[x][f] = mem[x].at[f]
      BY <2>2
    <3> QED BY <3>2, <3>3, <3>4 DEF PointersTo, Into
  <2>4. Roots = Current
    BY <1>1 DEF Roots, Current, NoGc
  <2>5. mem[b].refcnt = Count(At(mem), DOMAIN held, held, image, Current, b)
    BY <2>2 DEF Counted
  <2> QED BY <2>3, <2>4, <2>5 DEF Count, HeldAt, ImageOf, RootOf
<1>2. ASSUME gc # NoGc
      PROVE  /\ mem[gc.img].kind = "bitmap"
             /\ gc.chunk # NoBuffer =>
                  /\ mem[gc.chunk].kind = "chunk"
                  /\ mem[gc.chunk].at.prev # NoBuffer => mem[mem[gc.chunk].at.prev].kind = "chunk"
  <2>1. Staged /\ \E O \in [Buffers -> Somewhere], R \in [Buffers -> Nat] : HereInv(O, R)
    BY <1>2 DEF IInv, Here
  <2>2. PICK O \in [Buffers -> Somewhere], R \in [Buffers -> Nat] : HereInv(O, R)
    BY <2>1
  <2>3. mem[gc.img].kind = "bitmap"
    BY <1>2, <2>1, <2>2, WalkReads
  <2>4. gc.chunk # NoBuffer =>
          WalkAt(Links(mem, gc), O, R, gc.chunk, mem[gc.chunk].at["prev"], mem[gc.chunk].at["next"])
    BY <1>2, <2>1, <2>2, ChunkReads
  <2> QED BY <2>3, <2>4 DEF WalkAt
<1> QED BY <1>1, <1>2 DEF CountsAreExact, WalkFindsChunks

(* CountsAreExact: whatever X builds, pushes and collects, each buffer's    *)
(* refcnt is the number of its holders, so what qxl_bo_decref frees nobody  *)
(* uses, and the assertions of qxl_image_destroy on the chunks hold.        *)
THEOREM CountsAreExactTheorem ==
  ASSUME BuffersAssumption
  PROVE  BuffersSpec => []CountsAreExact
<1>1. BuffersInit => IInv
  BY IInvInit
<1>2. IInv /\ [BuffersNext]_buffervars => IInv'
  BY IInvStep
<1>3. IInv => CountsAreExact
  BY CountsFollow
<1> QED BY <1>1, <1>2, <1>3, PTL DEF BuffersSpec

-----------------------------------------------------------------------------
(* No buffer in use is out of everybody's reach: not by its count, which   *)
(* neighbouring chunks keep up for each other, but because the chunks of   *)
(* an image begin somewhere.                                               *)

LEMMA UsedIsReached ==
  ASSUME BuffersAssumption, Staged, NEW O \in [Buffers -> Somewhere], NEW R \in [Buffers -> Nat],
         HereInv(O, R), gc = NoGc
  PROVE  Used \subseteq Reached(Roots \cup Range(held)
                                  \cup ({image[s] : s \in Imaged} \ {NoBuffer}))
<1> DEFINE from == Roots \cup Range(held) \cup ({image[s] : s \in Imaged} \ {NoBuffer})
           n == MaxChunks + 2
           L == At(mem)
           D == DOMAIN held
           C == Current
<1>1. /\ Memory(mem) /\ L \in Linked /\ IsFiniteSet(D) /\ C \subseteq Buffers
      /\ Counted(mem, L, D, held, image, C)
      /\ Shape(mem, L, D, held, image, C, O, R, NoBuffer)
      /\ \A b \in Buffers : L[b] = mem[b].at
  BY Between, LinksAt, CurrentIs
<1>2. C = Roots
  BY DEF Roots, Current, NoGc
<1>3. \A b \in Buffers : Targets(b) \subseteq Buffers
  <2> SUFFICES ASSUME NEW b \in Buffers PROVE Targets(b) \subseteq Buffers
    OBVIOUS
  <2>1. mem[b].at \in [Fields -> Somewhere]
    BY <1>1, CellOf
  <2> QED BY <2>1 DEF Targets, Somewhere
<1>4. from \in SUBSET Buffers
  <2>1. Range(held) \subseteq Buffers
    <3>1. held \in Seq(Buffers)
      BY DEF Staged
    <3>2. \A i \in DOMAIN held : held[i] \in Buffers
      BY <3>1, ElementOfSeq, LenProperties
    <3> QED BY <3>2 DEF Range
  <2>2. {image[s] : s \in Imaged} \ {NoBuffer} \subseteq Buffers
    BY DEF Staged, Somewhere
  <2> QED BY <1>1, <1>2, <2>1, <2>2
<1>5. /\ C \subseteq from /\ \A i \in D : held[i] \in from
      /\ \A s \in Imaged : image[s] # NoBuffer => image[s] \in from
  BY <1>2 DEF Range
<1> HIDE DEF from, n, L, D, C
<1>6. n \in Nat /\ 0 \in 0 .. n /\ 1 \in 0 .. n /\ n = MaxChunks + 2 /\ MaxChunks \in Nat
  BY DEF BuffersAssumption, n
<1>7. PICK P \in [0 .. n -> SUBSET Buffers] : Reaching(P, n, from) /\ Reached(from) = P[n]
  BY <1>3, <1>4, ReachedUnfolds DEF n
<1>8. P[0] = from
  BY <1>7 DEF Reaching
<1>9. ASSUME NEW i \in 0 .. n
      PROVE  /\ \A j \in i .. n : P[i] \subseteq P[j]
             /\ i < n => \A b \in P[i] : Targets(b) \subseteq P[i + 1]
  BY <1>6, <1>7, ReachingMore
<1>10. ASSUME NEW x \in Buffers, NEW f \in Fields, NEW i \in 0 .. n, i < n, x \in P[i],
              L[x][f] # NoBuffer
       PROVE  L[x][f] \in P[i + 1]
  <2>1. L[x][f] \in Targets(x)
    BY <1>1, <1>10 DEF Targets
  <2> QED BY <1>9, <1>10, <2>1
<1>11. NoBuffer \notin Buffers /\ "src" \in Fields /\ "data" \in Fields /\ "next" \in Fields
  BY FieldsAre DEF Fields
<1>12. ASSUME NEW b \in Buffers, NEW i \in 0 .. n, b \in P[i] PROVE b \in Reached(from)
  <2>1. n \in i .. n
    BY <1>6
  <2> QED BY <1>7, <1>9, <1>12, <2>1
<1>13. ASSUME NEW b \in Buffers, HeldAt(D, held, b) # {} \/ ImageOf(image, b) # {} \/ b \in C
       PROVE  b \in P[0]
  BY <1>5, <1>8, <1>11, <1>13 DEF HeldAt, ImageOf
<1>14. ASSUME NEW x \in Buffers, NEW f \in Fields, x \in C, L[x][f] # NoBuffer
       PROVE  L[x][f] \in P[1]
  <2>1. x \in P[0]
    BY <1>13, <1>14
  <2>2. 0 < n
    BY <1>6
  <2> QED BY <1>6, <1>10, <1>14, <2>1, <2>2
<1>15. ASSUME NEW b \in Buffers, mem[b].kind = "bitmap" PROVE b \in P[1]
  <2>1. O[b] \in C /\ L[O[b]]["src"] = b
    BY <1>1, <1>15 DEF Shape, Owned, PartKinds
  <2> QED BY <1>1, <1>11, <1>14, <2>1
<1>16. ASSUME NEW b \in Buffers, mem[b].kind \in {"transform", "shape"} PROVE b \in P[0] \/ b \in P[1]
  <2>1. mem[b].refcnt # 0
    BY <1>1, <1>16, CellOf
  <2>2. Into(L, b) # {} \/ HeldAt(D, held, b) # {} \/ ImageOf(image, b) # {} \/ b \in C
    BY <1>1, <2>1, NobodyHolds DEF Counted
  <2>3. CASE Into(L, b) # {}
    <3>1. PICK x \in Buffers, f \in Fields : L[x][f] = b
      BY <2>3 DEF Into
    <3>2. Fits(mem[x].kind, f, mem[b].kind)
      BY <1>1, <1>11, <3>1 DEF Shape, Pointing, LinkFits
    <3>3. x \in C
      BY <1>1, <1>16, <3>2, FitsReads DEF Shape, Rooted, CommandKinds
    <3> QED BY <1>11, <1>14, <3>1, <3>3
  <2> QED BY <1>13, <2>2, <2>3
(* the chunk in place r is at most r + 1 pointers away *)
<1>17. ASSUME NEW b \in Buffers, mem[b].kind = "chunk" PROVE R[b] + 1 \in 0 .. n /\ b \in P[R[b] + 1]
  <2> DEFINE T == {i \in 0 .. MaxChunks :
                     \A x \in Buffers : mem[x].kind = "chunk" /\ R[x] = i => x \in P[i + 1]}
  <2>1. \A x \in Buffers : mem[x].kind = "chunk" =>
          R[x] \in 1 .. MaxChunks /\ Anchored(L, D, held, NoBuffer, x)
    BY <1>1 DEF Shape, Chunked
  <2>2. 0 \in T
    <3>1. \A x \in Buffers : mem[x].kind = "chunk" => R[x] # 0
      BY <1>6, <2>1
    <3>2. 0 \in 0 .. MaxChunks
      BY <1>6
    <3> QED BY <3>1, <3>2
  <2>3. ASSUME NEW i \in 0 .. MaxChunks - 1, i \in T PROVE i + 1 \in T
    <3>1. /\ i \in Nat /\ i + 1 \in 0 .. MaxChunks /\ i + 1 \in 0 .. n /\ i + 1 < n /\ (i + 1) + 1 \in 0 .. n
          /\ (i + 1) + 1 \in 0 .. n /\ (i + 1) + 1 \in 1 .. n /\ (i + 1) + 1 \in 2 .. n
      BY <1>6
    <3> SUFFICES ASSUME NEW x \in Buffers, mem[x].kind = "chunk", R[x] = i + 1
                 PROVE  x \in P[(i + 1) + 1]
      BY <3>1
    <3>2. Anchored(L, D, held, NoBuffer, x)
      BY <2>1
    <3>3. CASE L[x]["prev"] # NoBuffer
      <4> DEFINE p == L[x]["prev"]
      <4>1. "prev" \in Fields
        BY DEF Fields
      <4>2. p \in Buffers /\ LinkFits(mem, L, O, R, x, "prev", p)
        BY <1>1, <3>3, <4>1 DEF Shape, Pointing, Linked, Somewhere
      <4> HIDE DEF p
      <4>3. Fits(mem[x].kind, "prev", mem[p].kind) /\ L[p]["next"] = x /\ R[x] = R[p] + 1
        BY <4>2 DEF LinkFits
      <4>4. mem[p].kind = "chunk"
        BY <4>3, FitsReads
      <4>5. R[p] = i
        <5>1. R[p] \in Nat
          BY <4>2
        <5> QED BY <3>1, <4>3, <5>1
      <4>6. p \in P[i + 1]
        BY <2>3, <4>2, <4>4, <4>5
      <4> QED BY <1>10, <1>11, <3>1, <4>2, <4>3, <4>6
    <3>4. CASE \E y \in Buffers : L[y]["data"] = x
      <4>1. PICK y \in Buffers : L[y]["data"] = x
        BY <3>4
      <4>2. Fits(mem[y].kind, "data", mem[x].kind)
        BY <1>1, <1>11, <4>1 DEF Shape, Pointing, LinkFits
      <4>3. mem[y].kind = "bitmap"
        BY <4>2, FitsReads
      <4>4. y \in P[1] /\ 1 < n
        BY <1>6, <1>15, <4>3, <3>1
      <4>5. x \in P[1 + 1]
        BY <1>6, <1>10, <1>11, <4>1, <4>4
      <4>6. 2 \in 0 .. n /\ 1 + 1 = 2
        BY <1>6, <4>4
      <4>7. P[2] \subseteq P[(i + 1) + 1]
        BY <1>9, <3>1, <4>6
      <4> QED BY <4>5, <4>6, <4>7
    <3>5. CASE HeldAt(D, held, x) # {}
      <4>1. x \in P[0] /\ (i + 1) + 1 \in 0 .. n
        BY <1>13, <3>1, <3>5
      <4> QED BY <1>6, <1>9, <4>1
    <3> QED BY <1>11, <3>2, <3>3, <3>4, <3>5 DEF Anchored
  <2>4. \A i \in 0 .. MaxChunks : i \in T
    <3> HIDE DEF T
    <3> QED BY <1>6, <2>2, <2>3, UpTo
  <2>5. R[b] \in 0 .. MaxChunks /\ R[b] + 1 \in 0 .. n
    BY <1>6, <1>17, <2>1
  <2> QED BY <1>17, <2>4, <2>5
<1>18. ASSUME NEW b \in Used PROVE b \in Reached(from)
  <2>1. b \in Buffers /\ mem[b].kind # "none" /\ mem[b].kind \in Kinds
    BY <1>1, CellOf DEF Used, FreeIn
  <2>2. CASE mem[b].kind \in CommandKinds
    <3>1. b \in C
      BY <1>1, <2>1, <2>2 DEF Shape, Rooted
    <3> QED BY <1>6, <1>12, <1>13, <2>1, <3>1
  <2>3. CASE mem[b].kind = "surface"
    <3>1. ImageOf(image, b) # {}
      BY <1>1, <2>1, <2>3 DEF Shape, Imaging
    <3> QED BY <1>6, <1>12, <1>13, <2>1, <3>1
  <2>4. CASE mem[b].kind = "bitmap"
    BY <1>6, <1>12, <1>15, <2>1, <2>4
  <2>5. CASE mem[b].kind \in {"transform", "shape"}
    BY <1>6, <1>12, <1>16, <2>1, <2>5
  <2>6. CASE mem[b].kind = "chunk"
    BY <1>12, <1>17, <2>1, <2>6
  <2> QED BY <2>1, <2>2, <2>3, <2>4, <2>5, <2>6 DEF Kinds, PartKinds
<1> QED BY <1>18 DEF from

(* NothingLeaks: between two collections every buffer in use can be reached *)
(* from a command, from what X is building or from a surface: the functions *)
(* that build and collect (qxl_image_create, push_command,                  *)
(* qxl_garbage_collect_internal) forget none.                               *)
THEOREM NothingLeaksTheorem ==
  ASSUME BuffersAssumption
  PROVE  BuffersSpec => []NothingLeaks
<1>1. BuffersInit => IInv
  BY IInvInit
<1>2. IInv /\ [BuffersNext]_buffervars => IInv'
  BY IInvStep
<1>3. IInv => NothingLeaks
  BY UsedIsReached DEF IInv, Here, NothingLeaks
<1> QED BY <1>1, <1>2, <1>3, PTL DEF BuffersSpec
-----------------------------------------------------------------------------
(* What the device may read: the images of surfaces, and what belongs to   *)
(* a command it has.                                                       *)
DeviceParts(O) ==
  {b \in Buffers : \/ mem[b].kind = "surface"
                   \/ mem[b].kind \in CommandKinds \cup PartKinds /\ O[b] \in pushed}

LEMMA DevicePartsAre ==
  ASSUME BuffersAssumption, Staged, NEW O, NEW R, HereInv(O, R)
  PROVE  /\ pushed \subseteq DeviceParts(O) /\ DeviceParts(O) \subseteq Buffers
         /\ \A b \in DeviceParts(O) : Targets(b) \subseteq DeviceParts(O)
         /\ \A b \in DeviceParts(O) : mem[b].kind # "none"
         /\ \A b \in Buffers : b \in DeviceParts(O) => mem[b].kind = "surface" \/ O[b] \in pushed
<1> DEFINE X == DeviceParts(O)
           L == Links(mem, gc)
<1>1. /\ Memory(mem) /\ Shape(mem, L, DOMAIN held, held, image, Current, O, R, Behind(mem, gc))
      /\ Apart /\ Walking(O) /\ \A b \in Buffers : mem[b].at \in [Fields -> Somewhere]
  BY HereReads, CellOf
<1>2. \A b \in pushed : b \in Buffers /\ mem[b].kind \in CommandKinds /\ O[b] = b
  BY CurrentIs, CommandHeld
<1>3. \A b \in X : mem[b].kind # "none"
  BY DEF DeviceParts, CommandKinds, PartKinds
(* a walk's own buffers are not among them *)
<1>4. ASSUME gc # NoGc
      PROVE  /\ gc.img \notin X
             /\ Behind(mem, gc) \notin X
  <2>1. /\ mem[gc.img].kind = "bitmap" /\ O[gc.img] = gc.cmd /\ gc.cmd \notin pushed
    BY <1>4, WalkReads
  <2>2. gc.img \notin X
    BY <2>1 DEF DeviceParts
  <2>3. O \in [Buffers -> Somewhere] /\ R \in [Buffers -> Nat] /\ NoBuffer \notin Buffers
    BY HereReads, FieldsAre
  <2>4. CASE gc.chunk = NoBuffer
    <3>1. Behind(mem, gc) = NoBuffer
      BY <2>4 DEF Behind
    <3> QED BY <2>2, <2>3, <3>1 DEF DeviceParts
  <2>5. CASE gc.chunk # NoBuffer
    <3> DEFINE p == mem[gc.chunk].at["prev"]
    <3>1. Behind(mem, gc) = p
      BY <2>5 DEF Behind
    <3>2. WalkAt(L, O, R, gc.chunk, p, mem[gc.chunk].at["next"])
      BY <1>4, <2>3, <2>5, ChunkReads
    <3> HIDE DEF p
    <3>3. p # NoBuffer => mem[p].kind = "chunk" /\ O[p] = gc.cmd
      BY <3>2 DEF WalkAt
    <3> QED BY <2>1, <2>2, <2>3, <3>1, <3>3 DEF DeviceParts
  <2> QED BY <2>4, <2>5
<1>5. ASSUME NEW b \in X, NEW f \in Fields, mem[b].at[f] # NoBuffer
      PROVE  mem[b].at[f] \in X
  <2> DEFINE t == mem[b].at[f]
  <2>1. b \in Buffers
    BY DEF DeviceParts
  <2>2. ~ Stale(mem, gc, b, f)
    BY <1>4 DEF Stale
  <2>3. L[b][f] = t
    BY <1>1, <2>1, <2>2, LinksLinked
  <2>4. t \in Buffers /\ LinkFits(mem, L, O, R, b, f, t) /\ Fits(mem[b].kind, f, mem[t].kind)
    BY <1>5, <2>1, <2>3, LinkReads
  <2> HIDE DEF t
  <2>5. mem[b].kind # "surface" /\ mem[t].kind \in PartKinds \cup {"surface"}
    BY <2>4, FitsReads DEF CommandKinds
  <2>6. mem[t].kind # "surface" => O[t] = O[b]
    BY <2>4 DEF LinkFits
  <2> QED BY <2>4, <2>5, <2>6 DEF DeviceParts, t
<1>6. \A b \in X : Targets(b) \subseteq X
  BY <1>5 DEF Targets
<1> QED BY <1>2, <1>3, <1>6 DEF DeviceParts

-----------------------------------------------------------------------------
(* What leaves buffers X as they are.                                      *)
Same(m, m2, X) == \A b \in X : m2[b].kind = m[b].kind /\ m2[b].at = m[b].at

LEMMA SameTwice ==
  ASSUME NEW m, NEW m1, NEW m2, NEW X, Same(m, m1, X), Same(m1, m2, X)
  PROVE  Same(m, m2, X)
  BY DEF Same

LEMMA AllocSame ==
  ASSUME NEW m \in Deep, NEW X \in SUBSET Buffers, NEW b \in Buffers, b \notin X,
         NEW k \in Kinds
  PROVE  Alloc(m, b, k) \in Deep /\ Same(m, Alloc(m, b, k), X)
<1>1. [refcnt |-> 1, kind |-> k, at |-> Nowhere] \in [refcnt : Int, kind : Kinds, at : [Fields -> Somewhere]]
  BY FreeIs
<1> QED BY <1>1 DEF Alloc, Deep, Same

LEMMA IncrefSame ==
  ASSUME NEW m \in Deep, NEW X \in SUBSET Buffers, NEW b \in Buffers
  PROVE  Incref(m, b) \in Deep /\ Same(m, Incref(m, b), X)
<1>1. /\ \A x \in Buffers : m[x] \in [refcnt : Int, kind : Kinds, at : [Fields -> Somewhere]]
      /\ DOMAIN m = Buffers
  BY DEF Deep
<1>2. Incref(m, b) = [m EXCEPT ![b] = [m[b] EXCEPT !.refcnt = @ + 1]]
  BY DEF Incref
<1>3. [m[b] EXCEPT !.refcnt = @ + 1] = [refcnt |-> m[b].refcnt + 1, kind |-> m[b].kind, at |-> m[b].at]
  BY <1>1
<1>4. [m[b] EXCEPT !.refcnt = @ + 1] \in [refcnt : Int, kind : Kinds, at : [Fields -> Somewhere]]
  BY <1>1, <1>3
<1> QED BY <1>1, <1>2, <1>3, <1>4 DEF Deep, Same

LEMMA RelocSame ==
  ASSUME NEW m \in Deep, NEW X \in SUBSET Buffers, NEW d \in Buffers, d \notin X,
         NEW f \in Fields, NEW t \in Buffers
  PROVE  Reloc(m, d, f, t) \in Deep /\ Same(m, Reloc(m, d, f, t), X)
<1> DEFINE i == Incref(m, t)
<1>1. i \in Deep /\ Same(m, i, X)
  BY IncrefSame
<1>2. Reloc(m, d, f, t) = [i EXCEPT ![d] = [i[d] EXCEPT !.at = [i[d].at EXCEPT ![f] = t]]]
  BY DEF Reloc
<1> HIDE DEF i
<1>3. i[d].refcnt \in Int /\ i[d].kind \in Kinds /\ i[d].at \in [Fields -> Somewhere] /\ t \in Somewhere
  BY <1>1 DEF Deep, Somewhere
<1>4. [i[d] EXCEPT !.at = [i[d].at EXCEPT ![f] = t]]
        = [refcnt |-> i[d].refcnt, kind |-> i[d].kind, at |-> [i[d].at EXCEPT ![f] = t]]
  <2> DEFINE r == i[d]
             v == [i[d].at EXCEPT ![f] = t]
  <2>1. r \in [refcnt : Int, kind : Kinds, at : [Fields -> Somewhere]]
    BY <1>1 DEF Deep
  <2> HIDE DEF v
  <2>2. [r EXCEPT !.at = v] = [refcnt |-> r.refcnt, kind |-> r.kind, at |-> v]
    <3> HIDE DEF r
    <3> QED BY <2>1
  <2> QED BY <2>2 DEF v
<1>5. [i[d].at EXCEPT ![f] = t] \in [Fields -> Somewhere]
  BY <1>3
<1>6. [i[d] EXCEPT !.at = [i[d].at EXCEPT ![f] = t]] \in [refcnt : Int, kind : Kinds, at : [Fields -> Somewhere]]
  BY <1>3, <1>4, <1>5
<1>7. Reloc(m, d, f, t) \in Deep
  BY <1>1, <1>2, <1>6 DEF Deep
<1>8. Same(i, Reloc(m, d, f, t), X)
  BY <1>1, <1>2 DEF Same, Deep
<1> QED BY <1>1, <1>7, <1>8, SameTwice

LEMMA DecrefSame ==
  ASSUME NEW m \in Deep, NEW X \in SUBSET Buffers, NEW t \in Buffers, t \notin X
  PROVE  Decref(m, t) \in Deep /\ Same(m, Decref(m, t), X)
<1>1. Decref(m, t) \in Deep
  <2>1. Lower(m, t) \in Deep /\ Lower(m, t) = Decref(m, t)
    BY LowerType, FieldsAre DEF Lower, Somewhere
  <2> QED BY <2>1
<1>2. \A x \in X : Decref(m, t)[x] = m[x]
  BY DEF Decref, Deep
<1> QED BY <1>1, <1>2 DEF Same
-----------------------------------------------------------------------------
(* Each step leaves what the device may read as it is.  While X builds: it *)
(* writes to new buffers, to its command and to the command's parts.       *)
LEMMA Away ==
  ASSUME BuffersAssumption, Staged, NEW O, NEW R, HereInv(O, R)
  PROVE  /\ mem \in Deep /\ DeviceParts(O) \in SUBSET Buffers /\ building \notin DeviceParts(O)
         /\ FreeIn(mem) # {} => NewBuffer \in Buffers /\ NewBuffer \notin DeviceParts(O)
         /\ \A b \in DeviceParts(O) : mem[b].kind \in PartKinds => O[b] # building
<1>1. Memory(mem) /\ Apart /\ building \in Somewhere
  BY HereReads DEF Staged
<1>2. mem \in Deep
  BY <1>1, ShallowIsDeep
<1>3. \A b \in DeviceParts(O) : mem[b].kind \in PartKinds => O[b] \in pushed
  <2>1. "surface" \notin PartKinds
    BY DEF PartKinds
  <2> QED BY <2>1 DEF DeviceParts
<1>4. building \notin pushed
  BY <1>1 DEF Apart
<1>5. building \notin DeviceParts(O)
  <2>1. ASSUME building \in DeviceParts(O) PROVE FALSE
    <3>1. building \in Buffers /\ building # NoBuffer
      BY <2>1, FieldsAre DEF DeviceParts
    <3>2. mem[building].kind \in CommandKinds /\ O[building] = building
      BY <3>1, CurrentIs, CommandHeld
    <3>3. mem[building].kind # "surface"
      BY <3>2 DEF CommandKinds
    <3> QED BY <1>4, <2>1, <3>2, <3>3 DEF DeviceParts
  <2> QED BY <2>1
<1>6. ASSUME FreeIn(mem) # {} PROVE NewBuffer \in Buffers /\ NewBuffer \notin DeviceParts(O)
  <2>1. NewBuffer \in Buffers /\ mem[NewBuffer].kind = "none"
    BY <1>6, NewBufferIs
  <2>2. "none" \notin CommandKinds \cup PartKinds \cup {"surface"}
    BY DEF CommandKinds, PartKinds
  <2> HIDE DEF NewBuffer
  <2> QED BY <2>1, <2>2 DEF DeviceParts
<1> QED BY <1>2, <1>3, <1>4, <1>5, <1>6 DEF DeviceParts

LEMMA LinkToSame ==
  ASSUME NEW m \in Deep, NEW X \in SUBSET Buffers, building \notin X, NEW t \in Buffers,
         Head(todo).field # "none" => Head(todo).field \in Fields /\ building \in Buffers
  PROVE  LinkTo(m, t) \in Deep /\ Same(m, LinkTo(m, t), X)
<1>1. CASE Head(todo).field = "none"
  <2>1. LinkTo(m, t) = m
    BY <1>1 DEF LinkTo
  <2> QED BY <2>1 DEF Same
<1>2. CASE Head(todo).field # "none"
  <2>1. LinkTo(m, t) = Reloc(m, building, Head(todo).field, t)
    BY <1>2 DEF LinkTo
  <2> QED BY <1>2, <2>1, RelocSame
<1> QED BY <1>1, <1>2

LEMMA KindsAre ==
  /\ {"chunk", "bitmap", "transform", "shape", "surface"} \subseteq Kinds
  /\ CommandKinds \subseteq Kinds
  /\ {"src", "data", "next", "prev"} \subseteq Fields
  BY DEF Kinds, PartKinds, Fields

LEMMA AllocCommandSame ==
  ASSUME BuffersAssumption, Staged, NEW O, NEW R, HereInv(O, R), AllocCommand
  PROVE  Same(mem, mem', DeviceParts(O))
<1> DEFINE b == NewBuffer
           k == Head(todo).do
           m == Alloc(mem, b, k)
           X == DeviceParts(O)
<1>1. /\ FreeIn(mem) # {} /\ k \in CommandKinds
      /\ mem' = (IF held = <<>> THEN m ELSE Reloc(m, b, "src", held[1]))
  BY DEF AllocCommand, Needs, CommandKinds
<1>2. mem \in Deep /\ X \in SUBSET Buffers /\ b \in Buffers /\ b \notin X
  BY <1>1, Away
<1>3. held # <<>> => held[1] \in Buffers
  BY Rest DEF Staged
<1> HIDE DEF b, k, X
<1>4. m \in Deep /\ Same(mem, m, X)
  BY <1>1, <1>2, AllocSame, KindsAre
<1> HIDE DEF m
<1>5. CASE held = <<>>
  BY <1>1, <1>4, <1>5 DEF X
<1>6. CASE held # <<>>
  <2>1. Same(m, Reloc(m, b, "src", held[1]), X)
    BY <1>2, <1>3, <1>4, <1>6, KindsAre, RelocSame
  <2> QED BY <1>1, <1>4, <1>6, <2>1, SameTwice DEF X
<1> QED BY <1>5, <1>6

LEMMA AllocChunkSame ==
  ASSUME BuffersAssumption, Staged, NEW O, NEW R, HereInv(O, R), AllocChunk
  PROVE  Same(mem, mem', DeviceParts(O))
<1> DEFINE b == NewBuffer
           m == Alloc(mem, b, "chunk")
           m1 == Reloc(m, tail, "next", b)
           m2 == Reloc(m1, b, "prev", tail)
           X == DeviceParts(O)
<1>1. /\ gc = NoGc /\ todo # <<>> /\ Head(todo).do = "chunk" /\ FreeIn(mem) # {}
      /\ tail = NoBuffer => mem' = m
      /\ tail # NoBuffer => mem' = Decref(m2, b)
  BY DEF AllocChunk, Needs
<1>2. mem \in Deep /\ X \in SUBSET Buffers /\ b \in Buffers /\ b \notin X
  BY <1>1, Away
<1>3. tail # NoBuffer => tail \in Buffers /\ tail \notin X
  <2>1. todo \in Seq(StepSet) /\ todo[1].do = "chunk" /\ tail \in Somewhere
    BY <1>1, Rest DEF Staged
  <2>2. UploadLeft(todo) /\ building # NoBuffer
    BY <1>1, <2>1, StageReads DEF Staged
  <2>3. tail # NoBuffer => mem[tail].kind = "chunk" /\ O[tail] = building
    BY <1>1, <2>2, Between DEF HeldFits
  <2>4. "chunk" \in PartKinds
    BY DEF PartKinds
  <2> QED BY <2>1, <2>3, <2>4, Away DEF Somewhere
<1> HIDE DEF b, X
<1>4. m \in Deep /\ Same(mem, m, X)
  BY <1>2, AllocSame, KindsAre
<1> HIDE DEF m
<1>5. CASE tail = NoBuffer
  BY <1>1, <1>4, <1>5 DEF X
<1>6. CASE tail # NoBuffer
  <2>1. m1 \in Deep /\ Same(m, m1, X)
    BY <1>2, <1>3, <1>4, <1>6, KindsAre, RelocSame
  <2> HIDE DEF m1
  <2>2. m2 \in Deep /\ Same(m1, m2, X)
    BY <1>2, <1>3, <1>6, <2>1, KindsAre, RelocSame
  <2> HIDE DEF m2
  <2>3. Same(m2, Decref(m2, b), X)
    BY <1>2, <2>2, DecrefSame
  <2> QED BY <1>1, <1>4, <1>6, <2>1, <2>2, <2>3, SameTwice DEF X
<1> QED BY <1>5, <1>6

LEMMA AllocBitmapSame ==
  ASSUME BuffersAssumption, Staged, NEW O, NEW R, HereInv(O, R), AllocBitmap
  PROVE  Same(mem, mem', DeviceParts(O))
<1> DEFINE b == NewBuffer
           head == held[1]
           m == Alloc(mem, b, "bitmap")
           m1 == Reloc(m, b, "data", head)
           m2 == Decref(m1, head)
           X == DeviceParts(O)
<1>1. /\ gc = NoGc /\ todo # <<>> /\ Head(todo).do = "bitmap" /\ FreeIn(mem) # {}
      /\ mem' = LinkTo(m2, b)
  BY DEF AllocBitmap, Needs
<1>2. mem \in Deep /\ X \in SUBSET Buffers /\ b \in Buffers /\ b \notin X /\ building \notin X
  BY <1>1, Away
<1>3. /\ head \in Buffers /\ head \notin X /\ building \in Buffers
      /\ Head(todo).field = "src"
  <2>1. todo \in Seq(StepSet) /\ todo[1].do = "bitmap" /\ Head(todo) = todo[1] /\ held \in Seq(Buffers)
    BY <1>1, Rest DEF Staged
  <2>2. /\ UploadLeft(todo) /\ building # NoBuffer /\ tail # NoBuffer /\ Len(held) = 1
        /\ todo[1].field = "src"
    BY <1>1, <2>1, BitmapTaken DEF Staged
  <2>3. head \in Buffers
    BY <2>1, <2>2, OneHeld
  <2>4. mem[head].kind = "chunk" /\ O[head] = building
    BY <1>1, <2>2, Between DEF HeldFits
  <2>5. "chunk" \in PartKinds
    BY DEF PartKinds
  <2>6. head \notin X
    BY <2>4, <2>5, Away
  <2> QED BY <2>1, <2>2, <2>3, <2>6 DEF Staged, Somewhere
<1> HIDE DEF b, X, head
<1>4. m \in Deep /\ Same(mem, m, X)
  BY <1>2, AllocSame, KindsAre
<1> HIDE DEF m
<1>5. m1 \in Deep /\ Same(m, m1, X)
  BY <1>2, <1>3, <1>4, KindsAre, RelocSame
<1> HIDE DEF m1
<1>6. m2 \in Deep /\ Same(m1, m2, X)
  BY <1>2, <1>3, <1>5, DecrefSame
<1> HIDE DEF m2
<1>7. Same(m2, LinkTo(m2, b), X)
  BY <1>2, <1>3, <1>6, KindsAre, LinkToSame
<1> QED BY <1>1, <1>4, <1>5, <1>6, <1>7, SameTwice DEF X

(* The field of a step that names one, and a command for it to be in.      *)
LEMMA FieldFits ==
  ASSUME BuffersAssumption, Staged, todo # <<>>, Head(todo).do \in {"surface", "transform", "shape"}
  PROVE  /\ Head(todo).field # "none" => Head(todo).field \in Fields /\ building \in Buffers
         /\ Head(todo).do = "surface" => Head(todo).s \in Imaged
<1>1. /\ todo \in Seq(StepSet) /\ Head(todo) = todo[1] /\ building \in Somewhere
      /\ todo[1].do \in {"surface", "transform", "shape"}
      /\ todo[1] \in StepSet /\ Stage(todo, building, held, tail)
  BY Rest DEF Staged
<1>2. todo[1].field \in StepFields
  BY <1>1 DEF StepSet
<1>3. CASE building = NoBuffer
  <2>1. todo[1].do = "surface"
    BY <1>1, <1>3, StageReads
  <2>2. todo[1].field = "none" /\ todo[1].s \in Imaged
    BY <1>1, <1>3, <2>1, SourceTaken
  <2> QED BY <1>1, <2>2
<1>4. CASE building # NoBuffer
  <2>1. todo[1].field \in Fields \cup {"none"} /\ building \in Buffers
    BY <1>1, <1>2, <1>4 DEF StepFields, Somewhere
  <2>2. ASSUME todo[1].do = "surface" PROVE todo[1].s \in Imaged
    <3>1. PICK k \in CommandKinds : AddLeft(todo, k)
      BY <1>1, <1>4, <2>2, StageReads
    <3>2. Adds(k, todo[1])
      BY <1>1, <1>4, <3>1, FieldTaken
    <3> QED BY <2>2, <3>2 DEF Adds
  <2> QED BY <1>1, <2>1, <2>2
<1> QED BY <1>3, <1>4

LEMMA AllocDataSame ==
  ASSUME BuffersAssumption, Staged, NEW O, NEW R, HereInv(O, R), AllocData
  PROVE  Same(mem, mem', DeviceParts(O))
<1> DEFINE b == NewBuffer
           k == Head(todo).do
           m == Alloc(mem, b, k)
           X == DeviceParts(O)
<1>1. /\ todo # <<>> /\ k \in {"transform", "shape"} /\ FreeIn(mem) # {} /\ mem' = LinkTo(m, b)
  BY DEF AllocData, Needs
<1>2. mem \in Deep /\ X \in SUBSET Buffers /\ b \in Buffers /\ b \notin X /\ building \notin X
  BY <1>1, Away
<1>3. Head(todo).field # "none" => Head(todo).field \in Fields /\ building \in Buffers
  BY <1>1, FieldFits
<1> HIDE DEF b, X, k
<1>4. m \in Deep /\ Same(mem, m, X)
  BY <1>1, <1>2, AllocSame, KindsAre
<1> HIDE DEF m
<1>5. Same(m, LinkTo(m, b), X)
  BY <1>2, <1>3, <1>4, LinkToSame
<1> QED BY <1>1, <1>4, <1>5, SameTwice DEF X

LEMMA SurfaceImageSame ==
  ASSUME BuffersAssumption, Staged, NEW O, NEW R, HereInv(O, R), SurfaceImage
  PROVE  Same(mem, mem', DeviceParts(O))
<1> DEFINE s == Head(todo).s
           b == NewBuffer
           X == DeviceParts(O)
<1>1. /\ todo # <<>> /\ Head(todo).do = "surface"
      /\ image[s] = NoBuffer =>
           FreeIn(mem) # {} /\ mem' = LinkTo(Incref(Alloc(mem, b, "surface"), b), b)
      /\ image[s] # NoBuffer => mem' = LinkTo(Incref(mem, image[s]), image[s])
  BY DEF SurfaceImage, Needs
<1>2. mem \in Deep /\ X \in SUBSET Buffers /\ building \notin X
      /\ (FreeIn(mem) # {} => b \in Buffers /\ b \notin X)
  BY Away
<1>3. /\ Head(todo).field # "none" => Head(todo).field \in Fields /\ building \in Buffers
      /\ s \in Imaged
  BY <1>1, FieldFits
<1>4. image[s] \in Somewhere
  BY <1>3 DEF Staged
<1> HIDE DEF b, X, s
<1>5. CASE image[s] = NoBuffer
  <2> DEFINE m == Alloc(mem, b, "surface")
             m1 == Incref(m, b)
  <2>1. m \in Deep /\ Same(mem, m, X)
    BY <1>1, <1>2, <1>5, AllocSame, KindsAre
  <2> HIDE DEF m
  <2>2. m1 \in Deep /\ Same(m, m1, X)
    BY <1>1, <1>2, <1>5, <2>1, IncrefSame
  <2>3. mem' = LinkTo(m1, b)
    BY <1>1, <1>5 DEF m
  <2> HIDE DEF m1
  <2>4. Same(m1, LinkTo(m1, b), X)
    BY <1>1, <1>2, <1>3, <1>5, <2>2, LinkToSame
  <2> QED BY <2>1, <2>2, <2>3, <2>4, SameTwice DEF X
<1>6. CASE image[s] # NoBuffer
  <2> DEFINE m1 == Incref(mem, image[s])
  <2>1. image[s] \in Buffers
    BY <1>4, <1>6 DEF Somewhere
  <2>2. m1 \in Deep /\ Same(mem, m1, X)
    BY <1>2, <2>1, IncrefSame
  <2>3. mem' = LinkTo(m1, image[s])
    BY <1>1, <1>6
  <2> HIDE DEF m1
  <2>4. Same(m1, LinkTo(m1, image[s]), X)
    BY <1>2, <1>3, <2>1, <2>2, LinkToSame
  <2> QED BY <2>2, <2>3, <2>4, SameTwice DEF X
<1> QED BY <1>5, <1>6
-----------------------------------------------------------------------------
(* While X pushes and collects: what a collected command let go of, and    *)
(* what belongs to the image being walked, the device has no longer.       *)
LEMMA CollectCommandSame ==
  ASSUME BuffersAssumption, Staged, NEW O, NEW R, HereInv(O, R), NEW c, CollectCommand(c)
  PROVE  Same(mem, mem', DeviceParts(O))
<1> DEFINE L == At(mem)
           D == DOMAIN held
           C == Current
<1>1. gc = NoGc /\ c \in released
  BY DEF CollectCommand, Collects
<1>2. /\ Links(mem, gc) = L /\ \A b \in Buffers : L[b] = mem[b].at
      /\ IsFiniteSet(D) /\ C \subseteq Buffers /\ Apart
  BY <1>1, HereReads, LinksAt
<1>3. c \in C /\ mem[c].kind \in CommandKinds /\ O[c] = c /\ c \notin pushed
  BY <1>1, <1>2, CurrentIs, CommandHeld DEF Apart
<1>4. c \notin DeviceParts(O)
  <2>1. mem[c].kind # "surface"
    BY <1>3 DEF CommandKinds
  <2> QED BY <1>3, <2>1 DEF DeviceParts
<1>5. PICK L2 : CollectedFrom(mem', L2, c, O)
  BY CommandCollected
<1> HIDE DEF L, D, C
<1>6. /\ Memory(mem') /\ Trimmed(mem, mem') /\ At(mem') = L2 /\ L2 \in Linked
      /\ Counted(mem', L2, D, held, image, C \ {c})
      /\ \A b \in Buffers : b # c => L2[b] = L[b]
      /\ \A b \in Buffers : b # c /\ mem[b].kind \notin {"transform", "shape"} =>
           mem'[b].kind = mem[b].kind
  BY <1>5 DEF CollectedFrom, L, D, C
<1>7. \A b \in Buffers : At(mem')[b] = mem'[b].at
  BY DEF At
<1> SUFFICES ASSUME NEW b \in DeviceParts(O)
             PROVE  mem'[b].kind = mem[b].kind /\ mem'[b].at = mem[b].at
  BY DEF Same
<1>8. b \in Buffers /\ b # c
  BY <1>4 DEF DeviceParts
<1>9. mem'[b].at = mem[b].at
  BY <1>2, <1>6, <1>7, <1>8
<1>10. CASE mem[b].kind \in {"transform", "shape"}
  <2>1. mem[b].kind # "surface"
    BY <1>10
  <2>2. O[b] \in pushed
    BY <2>1 DEF DeviceParts
  <2>3. O[b] # building /\ O[b] # c /\ O[b] \in Buffers
    BY <1>2, <1>3, <2>2, CurrentIs DEF Apart, C
  <2>4. PICK f \in Fields : L[O[b]][f] = b
    BY <1>2, <1>8, <1>10, <2>3, DataHeld
  <2>5. L2[O[b]][f] = b
    BY <1>6, <2>3, <2>4
  <2>6. mem'[b].refcnt > 0
    BY <1>2, <1>6, <1>8, <2>3, <2>5, UsedBuffers
  <2> QED BY <1>6, <1>8, <1>9, <2>6 DEF Trimmed
<1>11. CASE mem[b].kind \notin {"transform", "shape"}
  BY <1>6, <1>8, <1>9, <1>11
<1> QED BY <1>10, <1>11

(* A walk's command is released, and with it the parts it owns.            *)
LEMMA WalkAway ==
  ASSUME BuffersAssumption, Staged, NEW O, NEW R, HereInv(O, R), gc # NoGc
  PROVE  /\ gc.cmd \notin DeviceParts(O) /\ gc.img \notin DeviceParts(O)
         /\ gc.cmd \in Buffers /\ gc.img \in Buffers
         /\ \A b \in DeviceParts(O) : mem[b].kind = "chunk" => O[b] # gc.cmd
<1>1. /\ gc.cmd \in Current /\ gc.cmd \in Buffers /\ mem[gc.cmd].kind = "copy" /\ gc.cmd \notin pushed
      /\ gc.img \in Buffers /\ mem[gc.img].kind = "bitmap" /\ O[gc.img] = gc.cmd
  BY WalkReads
<1>2. O[gc.cmd] = gc.cmd
  BY <1>1, CommandHeld
<1>3. \A b \in DeviceParts(O) : mem[b].kind # "surface" => O[b] \in pushed
  BY DEF DeviceParts
<1> QED BY <1>1, <1>2, <1>3

LEMMA DestroyChunkSame ==
  ASSUME BuffersAssumption, Staged, NEW O, NEW R, HereInv(O, R), DestroyChunk
  PROVE  Same(mem, mem', DeviceParts(O))
<1> DEFINE g == gc.chunk
           p == mem[gc.chunk].at["prev"]
           n == mem[gc.chunk].at["next"]
           L == Links(mem, gc)
<1>1. gc # NoGc /\ g # NoBuffer
  BY DEF DestroyChunk, NoGc
<1>2. O \in [Buffers -> Somewhere] /\ R \in [Buffers -> Nat]
  BY HereReads
<1>3. WalkAt(L, O, R, g, p, n)
  BY <1>1, <1>2, ChunkReads
<1>4. ChunkGone(mem', Dropping(L, g, p), g, p, n)
  BY <1>1, <1>2, <1>3, ChunkDropped
<1> HIDE DEF g, p, n, L
<1>5. \A b \in Buffers : b # g /\ b # p => mem'[b] = mem[b]
  BY <1>4 DEF ChunkGone
<1>6. /\ mem[g].kind = "chunk" /\ O[g] = gc.cmd
      /\ p # NoBuffer => mem[p].kind = "chunk" /\ O[p] = gc.cmd
  BY <1>3 DEF WalkAt
<1>7. NoBuffer \notin DeviceParts(O)
  BY FieldsAre DEF DeviceParts
<1>8. \A b \in DeviceParts(O) : b # g /\ b # p
  BY <1>1, <1>6, <1>7, WalkAway
<1> QED BY <1>5, <1>8 DEF Same, DeviceParts

LEMMA DestroyImageSame ==
  ASSUME BuffersAssumption, Staged, NEW O, NEW R, HereInv(O, R), DestroyImage
  PROVE  Same(mem, mem', DeviceParts(O))
<1> DEFINE m == Decref(mem, gc.img)
           X == DeviceParts(O)
<1>1. gc # NoGc /\ mem' = Decref(m, gc.cmd)
  BY DEF DestroyImage
<1>2. /\ mem \in Deep /\ X \in SUBSET Buffers
      /\ gc.cmd \notin X /\ gc.img \notin X /\ gc.cmd \in Buffers /\ gc.img \in Buffers
  BY <1>1, Away, WalkAway
<1> HIDE DEF X
<1>3. m \in Deep /\ Same(mem, m, X)
  BY <1>2, DecrefSame
<1> HIDE DEF m
<1>4. Same(m, mem', X)
  BY <1>1, <1>2, <1>3, DecrefSame
<1> QED BY <1>3, <1>4, SameTwice DEF X

LEMMA DeviceKept ==
  ASSUME BuffersAssumption, Staged, NEW O, NEW R, HereInv(O, R), vtSema, [BuffersNext]_buffervars
  PROVE  Same(mem, mem', DeviceParts(O))
<1>1. mem' = mem => Same(mem, mem', DeviceParts(O))
  BY DEF Same
<1>2. CASE AllocCommand \/ AllocChunk \/ AllocBitmap \/ AllocData \/ SurfaceImage
  BY <1>2, AllocCommandSame, AllocChunkSame, AllocBitmapSame, AllocDataSame, SurfaceImageSame
<1>3. CASE Push
  <2>1. O \in [Buffers -> Somewhere] /\ R \in [Buffers -> Nat]
    BY HereReads
  <2>2. \A x \in Buffers : mem'[x].kind = mem[x].kind /\ mem'[x].at = mem[x].at
    BY <1>3, <2>1, PushKeeps
  <2> QED BY <2>2 DEF Same, DeviceParts
<1>4. CASE \E command \in Commands : Begin(command)
  BY <1>1, <1>4 DEF Begin
<1>5. ASSUME NEW c \in Buffers, Release(c) \/ CollectCommand(c) \/ CollectCopy(c)
      PROVE  Same(mem, mem', DeviceParts(O))
  <2>1. CASE CollectCommand(c)
    BY <2>1, CollectCommandSame
  <2>2. CASE Release(c) \/ CollectCopy(c)
    BY <1>1, <2>2 DEF Release, CollectCopy
  <2> QED BY <1>5, <2>1, <2>2
<1>6. CASE DestroyChunk \/ DestroyImage
  BY <1>6, DestroyChunkSame, DestroyImageSame
<1>7. CASE LeaveVtBuffers \/ UNCHANGED buffervars
  BY <1>1, <1>7 DEF LeaveVtBuffers, buffervars
<1>8. ~ EnterVtBuffers
  BY DEF EnterVtBuffers
<1> QED BY <1>2, <1>3, <1>4, <1>5, <1>6, <1>7, <1>8 DEF BuffersNext

LEMMA DeviceDataStep ==
  ASSUME BuffersAssumption, IInv, [BuffersNext]_buffervars
  PROVE  KeepsDeviceData
<1>1. CASE vtSema
  <2>1. PICK O \in [Buffers -> Somewhere], R \in [Buffers -> Nat] : HereInv(O, R)
    BY <1>1 DEF IInv, Here
  <2> DEFINE X == DeviceParts(O)
  <2>2. /\ pushed \subseteq X /\ \A b \in X : Targets(b) \subseteq X
        /\ \A b \in X : mem[b].kind # "none"
    BY <2>1, DevicePartsAre DEF IInv
  <2>3. Same(mem, mem', X)
    BY <1>1, <2>1, DeviceKept DEF IInv
  <2> HIDE DEF X
  <2>4. ASSUME NEW c \in pushed PROVE Reached({c}) \subseteq X
    <3>1. {c} \in SUBSET X
      BY <2>2
    <3> QED BY <2>2, <3>1, ReachedWithin
  <2> QED BY <2>2, <2>3, <2>4 DEF Same, KeepsDeviceData
<1>2. CASE ~ vtSema
  <2>1. pushed = {}
    BY <1>2 DEF IInv
  <2> QED BY <2>1 DEF KeepsDeviceData
<1> QED BY <1>1, <1>2

(* DeviceDataIsStable: while the device has a command, whatever X builds,  *)
(* pushes and collects (make_drawable, qxl_image_create, push_drawable,    *)
(* qxl_garbage_collect and qxl_image_destroy), no step frees, reuses or    *)
(* changes a buffer the device can reach from it.                          *)
THEOREM DeviceDataIsStableTheorem ==
  ASSUME BuffersAssumption
  PROVE  BuffersSpec => DeviceDataIsStable
<1>1. BuffersInit => IInv
  BY IInvInit
<1>2. IInv /\ [BuffersNext]_buffervars => IInv'
  BY IInvStep
<1>3. IInv /\ [BuffersNext]_buffervars => [KeepsDeviceData]_buffervars
  BY DeviceDataStep
<1> QED BY <1>1, <1>2, <1>3, PTL DEF BuffersSpec, DeviceDataIsStable
=============================================================================
