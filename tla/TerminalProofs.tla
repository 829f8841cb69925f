--------------------------- MODULE TerminalProofs ---------------------------
(***************************************************************************)
(* Proofs about what X keeps across switches of the terminal: about        *)
(* VtSwitch, for any pixmaps, any number of surfaces and any contents, and *)
(* about Screen, for any widths, any number of heads and any limit on the  *)
(* pieces of the updated region.                                           *)
(***************************************************************************)
EXTENDS VtSwitch, Screen, FiniteSetTheorems, SequenceTheorems, WellFoundedInduction,
        TLAPS

(***************************************************************************)
(*                                VtSwitch                                 *)
(***************************************************************************)
-----------------------------------------------------------------------------
(* The inductive invariant.                                                *)

Id == Surfaces \union {NULL}

Types ==
  /\ terminal \in {"here", "away", "undefined"} /\ pixmaps \subseteq Pixmaps
  /\ surface \in [Pixmaps -> Id] /\ want \in [Pixmaps -> Pixels \union {NULL}]
  /\ pixmap \in [Surfaces -> Pixmaps \union {NULL}]
  /\ image \in [Surfaces -> Pixels \union {NULL}]
  /\ free \in Seq(Surfaces) /\ live \in Seq(Surfaces) /\ dead \subseteq Surfaces
  /\ records \subseteq Surfaces /\ evacuated = records
  /\ ev \in [Surfaces -> [image : Pixels \union {NULL}, pixmap : Pixmaps \union {NULL},
                          prev : Id, next : Id]]
  /\ head \in Id

(* A surface is on one list at most, and away there is only the list of    *)
(* records.                                                                *)
Pools ==
  /\ IsInjective(free) /\ IsInjective(live)
  /\ Range(free) \intersect Range(live) = {}
  /\ dead \intersect (Range(free) \union Range(live)) = {}
  /\ terminal # "here" => free = <<>> /\ live = <<>> /\ dead = {}
  /\ terminal = "here" => records = {}

(* Pixmaps and the surfaces or records of S name each other.               *)
Pairs(S, of) ==
  /\ \A p \in pixmaps : surface[p] # NULL => surface[p] \in S /\ of[surface[p]] = p
  /\ \A s \in S : of[s] \in pixmaps /\ surface[of[s]] = s

Bound ==
  /\ \A p \in Pixmaps \ pixmaps : surface[p] = NULL
  /\ terminal = "here" => Pairs(Range(live), pixmap)
  /\ terminal = "away" => Pairs(records, [s \in Surfaces |-> ev[s].pixmap])

(* The records are one list of n, which begins at vt_surfaces unless that  *)
(* record is gone.                                                         *)
Path(n, f) ==
  /\ f \in [1 .. n -> Surfaces] /\ IsInjective(f) /\ records = {f[i] : i \in 1 .. n}
  /\ \A i \in 1 .. n : /\ ev[f[i]].next = IF i = n THEN NULL ELSE f[i + 1]
                       /\ ev[f[i]].prev = IF i = 1 THEN NULL ELSE f[i - 1]
  /\ head \in records => head = f[1]
  /\ head = NULL => n = 0

Linked == \E n \in 0 .. NSurfaces : \E f \in [1 .. n -> Surfaces] : Path(n, f)

VtIInv == Types /\ Pools /\ Bound /\ PixelsKept /\ Linked

LEMMA VtInvariantImplies == ASSUME VtAssumption, VtIInv PROVE BindingExact
<1>1. NULL \notin Surfaces /\ pixmaps \subseteq Pixmaps
  BY DEF VtAssumption, Surfaces, VtIInv, Types
<1>2. ASSUME terminal = "here"
      PROVE  /\ {surface[p] : p \in pixmaps} \ {NULL} = Range(live)
             /\ \A s \in Range(live) : pixmap[s] \in pixmaps /\ surface[pixmap[s]] = s
  <2>1. Pairs(Range(live), pixmap)
    BY <1>2 DEF VtIInv, Bound
  <2>2. Range(live) \subseteq Surfaces
    BY DEF VtIInv, Types, Range
  <2> QED BY <1>1, <2>1, <2>2 DEF Pairs
<1>3. ASSUME terminal = "away"
      PROVE  /\ {surface[p] : p \in pixmaps} \ {NULL} = records
             /\ \A s \in records : ev[s].pixmap \in pixmaps /\ surface[ev[s].pixmap] = s
  <2>1. Pairs(records, [s \in Surfaces |-> ev[s].pixmap]) /\ records \subseteq Surfaces
    BY <1>3 DEF VtIInv, Bound, Types
  <2>2. /\ \A p \in pixmaps : surface[p] # NULL => surface[p] \in records
        /\ \A s \in records : ev[s].pixmap \in pixmaps /\ surface[ev[s].pixmap] = s
    BY <2>1 DEF Pairs
  <2> QED BY <1>1, <2>1, <2>2
<1>4. LinksMatch
  <2>1. PICK n \in 0 .. NSurfaces : \E f \in [1 .. n -> Surfaces] : Path(n, f)
    BY DEF VtIInv, Linked
  <2>2. PICK f \in [1 .. n -> Surfaces] : Path(n, f)
    BY <2>1
  <2>3. /\ records = {f[i] : i \in 1 .. n}
        /\ \A i \in 1 .. n : /\ ev[f[i]].next = IF i = n THEN NULL ELSE f[i + 1]
                             /\ ev[f[i]].prev = IF i = 1 THEN NULL ELSE f[i - 1]
    BY <2>2 DEF Path
  <2>4. ASSUME NEW i \in 1 .. n, ev[f[i]].next # NULL
        PROVE  ev[f[i]].next \in records /\ ev[ev[f[i]].next].prev = f[i]
    <3>1. i + 1 \in 1 .. n /\ (i + 1) - 1 = i /\ i + 1 # 1
      BY <2>3, <2>4
    <3> QED BY <2>3, <2>4, <3>1
  <2>5. ASSUME NEW i \in 1 .. n, ev[f[i]].prev # NULL
        PROVE  ev[f[i]].prev \in records /\ ev[ev[f[i]].prev].next = f[i]
    <3>1. i - 1 \in 1 .. n /\ (i - 1) + 1 = i /\ i - 1 # n
      BY <2>3, <2>5
    <3> QED BY <2>3, <2>5, <3>1
  <2> QED BY <2>3, <2>4, <2>5 DEF LinksMatch
<1> QED BY <1>2, <1>3, <1>4 DEF BindingExact

-----------------------------------------------------------------------------
(* Lists of surfaces.                                                      *)

LEMMA InFront ==
  ASSUME NEW S, NEW s \in S, NEW q \in Seq(S), s \notin Range(q), IsInjective(q)
  PROVE  /\ <<s>> \o q \in Seq(S) /\ IsInjective(<<s>> \o q)
         /\ Range(<<s>> \o q) = {s} \union Range(q)
<1> DEFINE r == <<s>> \o q
<1>1. /\ r \in Seq(S) /\ DOMAIN r = 1 .. Len(q) + 1 /\ Len(q) \in Nat
      /\ r[1] = s /\ \A i \in 1 .. Len(q) : r[i + 1] = q[i]
      /\ DOMAIN q = 1 .. Len(q)
  OBVIOUS
<1> HIDE DEF r
<1>2. \A i \in 1 .. Len(q) + 1 : i # 1 => i - 1 \in 1 .. Len(q) /\ r[i] = q[i - 1]
  <2>1. ASSUME NEW i \in 1 .. Len(q) + 1, i # 1 PROVE i - 1 \in 1 .. Len(q) /\ r[i] = q[i - 1]
    <3>1. i - 1 \in 1 .. Len(q) /\ (i - 1) + 1 = i
      BY <1>1, <2>1
    <3> QED BY <1>1, <3>1
  <2> QED BY <2>1
<1>3. IsInjective(r)
  <2>1. ASSUME NEW i \in DOMAIN r, NEW j \in DOMAIN r, r[i] = r[j] PROVE i = j
    <3>1. CASE i = 1 /\ j = 1
      BY <3>1
    <3>2. CASE i = 1 /\ j # 1
      <4>1. r[j] = q[j - 1] /\ j - 1 \in DOMAIN q
        BY <1>1, <1>2, <3>2
      <4> QED BY <1>1, <2>1, <3>2, <4>1 DEF Range
    <3>3. CASE i # 1 /\ j = 1
      <4>1. r[i] = q[i - 1] /\ i - 1 \in DOMAIN q
        BY <1>1, <1>2, <3>3
      <4> QED BY <1>1, <2>1, <3>3, <4>1 DEF Range
    <3>4. CASE i # 1 /\ j # 1
      <4>1. i - 1 \in 1 .. Len(q) /\ j - 1 \in 1 .. Len(q) /\ q[i - 1] = q[j - 1]
        BY <1>1, <1>2, <2>1, <3>4
      <4>2. i - 1 = j - 1
        BY <1>1, <4>1 DEF IsInjective
      <4> QED BY <1>1, <4>2
    <3> QED BY <3>1, <3>2, <3>3, <3>4
  <2> QED BY <2>1 DEF IsInjective
<1>4. Range(r) = {s} \union Range(q)
  <2>1. ASSUME NEW i \in DOMAIN r PROVE r[i] \in {s} \union Range(q)
    BY <1>1, <1>2 DEF Range
  <2>2. s \in Range(r)
    BY <1>1 DEF Range
  <2>3. ASSUME NEW i \in DOMAIN q PROVE q[i] \in Range(r)
    <3>1. i + 1 \in DOMAIN r /\ r[i + 1] = q[i]
      BY <1>1
    <3> QED BY <3>1 DEF Range
  <2> QED BY <2>1, <2>2, <2>3 DEF Range
<1> QED BY <1>1, <1>3, <1>4 DEF r

LEMMA FromFront ==
  ASSUME NEW S, NEW q \in Seq(S), q # <<>>, IsInjective(q)
  PROVE  /\ Head(q) \in S /\ Tail(q) \in Seq(S) /\ IsInjective(Tail(q))
         /\ Head(q) \notin Range(Tail(q))
         /\ Range(q) = {Head(q)} \union Range(Tail(q))
<1> DEFINE r == Tail(q)
<1>1. /\ r \in Seq(S) /\ DOMAIN r = 1 .. Len(q) - 1 /\ Len(q) \in Nat \ {0}
      /\ \A i \in 1 .. Len(q) - 1 : r[i] = q[i + 1]
      /\ DOMAIN q = 1 .. Len(q) /\ Head(q) = q[1] /\ Head(q) \in S
  OBVIOUS
<1> HIDE DEF r
<1>2. \A i, j \in 1 .. Len(q) : q[i] = q[j] => i = j
  BY <1>1 DEF IsInjective
<1>3. IsInjective(r)
  <2>1. ASSUME NEW i \in DOMAIN r, NEW j \in DOMAIN r, r[i] = r[j] PROVE i = j
    <3>1. i + 1 \in 1 .. Len(q) /\ j + 1 \in 1 .. Len(q) /\ q[i + 1] = q[j + 1]
      BY <1>1, <2>1
    <3>2. i + 1 = j + 1
      BY <1>2, <3>1
    <3> QED BY <1>1, <3>2
  <2> QED BY <2>1 DEF IsInjective
<1>4. ASSUME NEW i \in DOMAIN r PROVE r[i] # q[1] /\ r[i] \in Range(q)
  <2>1. i + 1 \in 1 .. Len(q) /\ i + 1 # 1 /\ r[i] = q[i + 1] /\ 1 \in 1 .. Len(q)
    BY <1>1
  <2> QED BY <1>1, <1>2, <2>1 DEF Range
<1>5. ASSUME NEW i \in DOMAIN q PROVE q[i] \in {q[1]} \union Range(r)
  <2>1. CASE i = 1
    BY <2>1
  <2>2. CASE i # 1
    <3>1. i - 1 \in DOMAIN r /\ (i - 1) + 1 = i
      BY <1>1, <2>2
    <3>2. q[i] = r[i - 1]
      BY <1>1, <3>1
    <3> QED BY <3>1, <3>2 DEF Range
  <2> QED BY <2>1, <2>2
<1>6. q[1] \in Range(q)
  BY <1>1 DEF Range
<1> QED BY <1>1, <1>3, <1>4, <1>5, <1>6 DEF r, Range

LEMMA TakenOut ==
  ASSUME NEW S, NEW q \in Seq(S), NEW k \in DOMAIN q, IsInjective(q)
  PROVE  /\ RemoveAt(q, k) \in Seq(S) /\ IsInjective(RemoveAt(q, k))
         /\ Range(RemoveAt(q, k)) = Range(q) \ {q[k]}
<1> DEFINE r == RemoveAt(q, k)
           n == Len(q)
<1>1. n \in Nat /\ k \in 1 .. n /\ DOMAIN q = 1 .. n
  OBVIOUS
<1>2. /\ SubSeq(q, 1, k - 1) \in Seq(S) /\ Len(SubSeq(q, 1, k - 1)) = k - 1
      /\ \A i \in 1 .. k - 1 : SubSeq(q, 1, k - 1)[i] = q[i]
  BY <1>1
<1>3. /\ SubSeq(q, k + 1, n) \in Seq(S) /\ Len(SubSeq(q, k + 1, n)) = n - k
      /\ \A i \in 1 .. n - k : SubSeq(q, k + 1, n)[i] = q[i + k]
  BY <1>1
<1>4. /\ r \in Seq(S) /\ Len(r) = n - 1
      /\ \A i \in 1 .. n - 1 : r[i] = IF i < k THEN q[i] ELSE q[i + 1]
  <2> DEFINE u == SubSeq(q, 1, k - 1)
             v == SubSeq(q, k + 1, n)
  <2>1. r = u \o v
    BY DEF RemoveAt
  <2>2. /\ u \in Seq(S) /\ Len(u) = k - 1 /\ \A i \in 1 .. k - 1 : u[i] = q[i]
        /\ v \in Seq(S) /\ Len(v) = n - k /\ \A i \in 1 .. n - k : v[i] = q[i + k]
    BY <1>2, <1>3
  <2> HIDE DEF u, v, r, n
  <2>3. /\ u \o v \in Seq(S) /\ Len(u \o v) = Len(u) + Len(v)
        /\ \A i \in 1 .. Len(u) + Len(v) :
             (u \o v)[i] = IF i <= Len(u) THEN u[i] ELSE v[i - Len(u)]
    BY <2>2, ConcatProperties
  <2>4. Len(u) + Len(v) = n - 1
    BY <1>1, <2>2
  <2>5. ASSUME NEW i \in 1 .. n - 1
        PROVE  (u \o v)[i] = IF i < k THEN q[i] ELSE q[i + 1]
    <3>1. CASE i < k
      BY <1>1, <2>2, <2>3, <2>4, <3>1
    <3>2. CASE ~(i < k)
      <4>1. i - (k - 1) \in 1 .. n - k /\ (i - (k - 1)) + k = i + 1 /\ ~(i <= k - 1)
        BY <1>1, <3>2
      <4>2. (u \o v)[i] = v[i - (k - 1)]
        BY <1>1, <2>2, <2>3, <2>4, <4>1
      <4> QED BY <2>2, <3>2, <4>1, <4>2
    <3> QED BY <3>1, <3>2
  <2> QED BY <2>1, <2>3, <2>4, <2>5
<1>5. DOMAIN r = 1 .. n - 1
  BY <1>4, LenProperties
<1> HIDE DEF r, n
<1>6. \A i, j \in 1 .. n : q[i] = q[j] => i = j
  BY <1>1 DEF IsInjective
<1>7. ASSUME NEW i \in 1 .. n - 1
      PROVE  \E m \in 1 .. n : m # k /\ r[i] = q[m] /\ m = (IF i < k THEN i ELSE i + 1)
  <2>1. CASE i < k
    BY <1>1, <1>4, <2>1
  <2>2. CASE ~(i < k)
    <3>1. i + 1 \in 1 .. n /\ i + 1 # k
      BY <1>1, <2>2
    <3> QED BY <1>4, <2>2, <3>1
  <2> QED BY <2>1, <2>2
<1>8. IsInjective(r)
  <2>1. ASSUME NEW i \in 1 .. n - 1, NEW j \in 1 .. n - 1, r[i] = r[j] PROVE i = j
    <3>1. PICK m \in 1 .. n : m # k /\ r[i] = q[m] /\ m = (IF i < k THEN i ELSE i + 1)
      BY <1>7
    <3>2. PICK l \in 1 .. n : l # k /\ r[j] = q[l] /\ l = (IF j < k THEN j ELSE j + 1)
      BY <1>7
    <3>3. m = l
      BY <1>6, <2>1, <3>1, <3>2
    <3> QED BY <1>1, <3>1, <3>2, <3>3
  <2> QED BY <1>5, <2>1 DEF IsInjective
<1>9. ASSUME NEW m \in 1 .. n, m # k PROVE q[m] \in Range(r)
  <2>1. CASE m < k
    <3>1. m \in 1 .. n - 1 /\ r[m] = q[m]
      BY <1>1, <1>4, <2>1
    <3> QED BY <1>5, <3>1 DEF Range
  <2>2. CASE ~(m < k)
    <3>1. m - 1 \in 1 .. n - 1 /\ ~(m - 1 < k) /\ (m - 1) + 1 = m
      BY <1>1, <1>9, <2>2
    <3>2. r[m - 1] = q[m]
      BY <1>4, <3>1
    <3> QED BY <1>5, <3>1, <3>2 DEF Range
  <2> QED BY <2>1, <2>2
<1>10. Range(r) = Range(q) \ {q[k]}
  <2>1. ASSUME NEW x \in Range(r) PROVE x \in Range(q) \ {q[k]}
    <3>1. PICK i \in 1 .. n - 1 : x = r[i]
      BY <1>5 DEF Range
    <3>2. PICK m \in 1 .. n : m # k /\ r[i] = q[m]
      BY <1>7
    <3>3. q[m] # q[k]
      BY <1>1, <1>6, <3>2
    <3> QED BY <1>1, <3>1, <3>2, <3>3 DEF Range
  <2>2. ASSUME NEW x \in Range(q) \ {q[k]} PROVE x \in Range(r)
    <3>1. PICK m \in 1 .. n : x = q[m]
      BY <1>1 DEF Range
    <3>2. m # k
      BY <2>2, <3>1
    <3> QED BY <1>9, <3>1, <3>2
  <2> QED BY <2>1, <2>2
<1> QED BY <1>4, <1>8, <1>10 DEF r

LEMMA Short ==
  ASSUME VtAssumption, NEW q \in Seq(Surfaces), IsInjective(q)
  PROVE  Len(q) \in 0 .. NSurfaces
<1>1. NSurfaces \in Nat /\ IsFiniteSet(Surfaces) /\ Cardinality(Surfaces) = NSurfaces
  BY FS_Interval DEF VtAssumption, Surfaces
<1>2. Len(q) \in Nat /\ q \in [1 .. Len(q) -> Surfaces]
  BY LenProperties
<1>3. IsFiniteSet(1 .. Len(q)) /\ Cardinality(1 .. Len(q)) = Len(q)
  BY <1>2, FS_Interval
<1>4. q \in Injection(1 .. Len(q), Surfaces)
  BY <1>2 DEF Injection, IsInjective
<1>5. Cardinality(1 .. Len(q)) <= Cardinality(Surfaces)
  BY <1>1, <1>4, FS_Injection
<1> QED BY <1>1, <1>2, <1>3, <1>5

-----------------------------------------------------------------------------
(* What qxl_surface_cache_replace_all walks.                               *)

LEMMA LeastNumber ==
  ASSUME NEW T \in SUBSET Nat, T # {}
  PROVE  \E n \in T : \A m \in T : n <= m
<1>1. PICK n \in T : \A m \in T : <<m, n>> \notin OpToRel(<, Nat)
  BY NatLessThanWellFounded, WFMin
<1>2. ASSUME NEW m \in T PROVE n <= m
  <2>1. <<m, n>> \notin {ss \in Nat \X Nat : ss[1] < ss[2]}
    BY <1>1, Zenon DEF OpToRel
  <2> QED BY <2>1
<1> QED BY <1>2

(* One more step of the walk.                                              *)
Further(w) == IF Last(w) \in records THEN Append(w, ev[Last(w)].next) ELSE w

Unfold(W, n) == IF n = 0 THEN <<head>> ELSE Further(W[n - 1])

LEMMA WalkIs ==
  ASSUME VtAssumption, NEW W, W = [n \in 0 .. NSurfaces |-> Unfold(W, n)]
  PROVE  Walk = W[NSurfaces]
<1> DEFINE V == CHOOSE P : P = [n \in 0 .. NSurfaces |-> Unfold(P, n)]
<1>1. NSurfaces \in Nat
  BY DEF VtAssumption
<1>2. Walk = V[NSurfaces]
  BY DEF Walk, Unfold, Further
<1> HIDE DEF V
<1>3. V = [n \in 0 .. NSurfaces |-> Unfold(V, n)]
  BY Zenon DEF V
<1>4. \A n \in 0 .. NSurfaces : V[n] = Unfold(V, n) /\ W[n] = Unfold(W, n)
  <2>1. \A n \in 0 .. NSurfaces : V[n] = Unfold(V, n)
    BY <1>3
  <2>2. \A n \in 0 .. NSurfaces : W[n] = Unfold(W, n)
    OBVIOUS
  <2> QED BY <2>1, <2>2
<1>5. \A n \in 0 .. NSurfaces : V[n] = W[n]
  <2> DEFINE T == {n \in 0 .. NSurfaces : V[n] # W[n]}
  <2>1. ASSUME T # {} PROVE FALSE
    <3>1. PICK n \in T : \A m \in T : n <= m
      <4>1. T \in SUBSET Nat
        BY <1>1
      <4> HIDE DEF T
      <4> QED BY <2>1, <4>1, LeastNumber
    <3>2. n \in 0 .. NSurfaces /\ V[n] # W[n]
      BY <3>1
    <3>3. n # 0
      BY <1>4, <3>2 DEF Unfold
    <3>4. n - 1 \in 0 .. NSurfaces /\ n - 1 \notin T
      BY <1>1, <3>1, <3>2, <3>3
    <3>5. V[n - 1] = W[n - 1]
      BY <3>4
    <3> QED BY <1>4, <3>2, <3>3, <3>5 DEF Unfold
  <2> QED BY <2>1
<1> QED BY <1>1, <1>2, <1>5

(* It stops at once at a record that is gone.                              *)
LEMMA WalkFromNowhere ==
  ASSUME VtAssumption, head \notin records
  PROVE  Walk = <<head>>
<1> DEFINE W == [n \in 0 .. NSurfaces |-> <<head>>]
<1>1. Last(<<head>>) = head
  BY DEF Last
<1>2. ASSUME NEW n \in 0 .. NSurfaces PROVE Unfold(W, n) = <<head>>
  <2>1. CASE n = 0
    BY <2>1 DEF Unfold
  <2>2. CASE n # 0
    <3>1. W[n - 1] = <<head>>
      BY <2>2 DEF VtAssumption
    <3> HIDE DEF W
    <3> QED BY <1>1, <2>2, <3>1 DEF Unfold, Further
  <2> QED BY <2>1, <2>2
<1>3. W = [n \in 0 .. NSurfaces |-> Unfold(W, n)]
  <2>1. PICK P : P = W
    OBVIOUS
  <2>2. \A n \in 0 .. NSurfaces : Unfold(P, n) = <<head>>
    BY <1>2, <2>1
  <2>3. P = [n \in 0 .. NSurfaces |-> Unfold(P, n)]
    BY <2>1, <2>2
  <2> QED BY <2>1, <2>3
<1>4. Walk = W[NSurfaces]
  <2> HIDE DEF W
  <2> QED BY <1>3, WalkIs
<1>5. NSurfaces \in 0 .. NSurfaces
  BY DEF VtAssumption
<1> QED BY <1>4, <1>5

(* And otherwise follows the path to its end.                              *)
Walked(n, f, k) == [i \in 1 .. k + 1 |-> IF i <= n THEN f[i] ELSE NULL]

Ahead(n, k) == IF k <= n THEN k ELSE n

LEMMA WalkFollows ==
  ASSUME VtAssumption, Types, NEW n \in 0 .. NSurfaces, NEW f \in [1 .. n -> Surfaces],
         Path(n, f), head \in records
  PROVE  Walk = Walked(n, f, n)
<1> DEFINE W == [k \in 0 .. NSurfaces |-> Walked(n, f, Ahead(n, k))]
<1>1. /\ NSurfaces \in Nat /\ n \in Nat /\ NULL \notin Surfaces /\ records \subseteq Surfaces
      /\ records = {f[i] : i \in 1 .. n} /\ head = f[1]
      /\ \A i \in 1 .. n : ev[f[i]].next = IF i = n THEN NULL ELSE f[i + 1]
  BY DEF VtAssumption, Surfaces, Types, Path
<1>2. 1 \in 1 .. n
  BY <1>1
<1>3. Walked(n, f, 0) = <<head>>
  <2>1. Walked(n, f, 0) = [i \in 1 .. 1 |-> f[1]]
    BY <1>2 DEF Walked
  <2>2. [i \in 1 .. 1 |-> f[1]] = <<f[1]>>
    OBVIOUS
  <2> QED BY <1>1, <2>1, <2>2
<1>4. ASSUME NEW k \in 0 .. n - 1 PROVE Further(Walked(n, f, k)) = Walked(n, f, k + 1)
  <2> DEFINE w == Walked(n, f, k)
             v == Walked(n, f, k + 1)
             x == ev[f[k + 1]].next
  <2>1. /\ k + 1 \in 1 .. n /\ \A i \in 1 .. k + 1 : i \in 1 .. n /\ i <= n
        /\ k + 1 \in Nat
    BY <1>1
  <2>2. /\ w \in Seq(Id) /\ Len(w) = k + 1
        /\ \A i \in 1 .. k + 1 : w[i] = f[i]
    <3>1. w = [i \in 1 .. k + 1 |-> f[i]]
      BY <2>1 DEF Walked
    <3>2. \A i \in 1 .. k + 1 : f[i] \in Id
      BY <2>1 DEF Id
    <3> QED BY <2>1, <3>1, <3>2
  <2>3. x = IF k + 1 = n THEN NULL ELSE f[k + 2]
    <3>1. (k + 1) + 1 = k + 2
      OBVIOUS
    <3> QED BY <1>1, <2>1, <3>1
  <2>4. x \in Id
    <3>1. k + 1 # n => k + 2 \in 1 .. n
      BY <1>1
    <3> QED BY <2>3, <3>1 DEF Id
  <2>5. /\ v \in Seq(Id) /\ Len(v) = k + 2
        /\ \A i \in 1 .. k + 1 : v[i] = f[i]
        /\ v[k + 2] = x
    <3>1. v = [i \in 1 .. k + 2 |-> IF i <= n THEN f[i] ELSE NULL]
      <4>1. (k + 1) + 1 = k + 2
        OBVIOUS
      <4> QED BY <4>1 DEF Walked
    <3>2. \A i \in 1 .. k + 2 : (IF i <= n THEN f[i] ELSE NULL) \in Id
      BY <1>1 DEF Id
    <3>3. v \in Seq(Id) /\ Len(v) = k + 2
      BY <1>1, <3>1, <3>2
    <3>4. k + 2 <= n <=> k + 1 # n
      BY <1>1
    <3> QED BY <2>1, <2>3, <3>1, <3>3, <3>4
  <2> HIDE DEF w, v, x
  <2>6. Last(w) = f[k + 1] /\ f[k + 1] \in records
    BY <1>1, <2>1, <2>2 DEF Last
  <2>7. Further(w) = Append(w, x)
    BY <2>6 DEF Further, x
  <2>8. /\ Append(w, x) \in Seq(Id) /\ Len(Append(w, x)) = k + 2
        /\ Append(w, x)[k + 2] = x
        /\ \A i \in 1 .. k + 1 : Append(w, x)[i] = w[i]
    <3>1. Len(w) + 1 = k + 2
      BY <2>2
    <3>2. /\ Append(w, x) \in Seq(Id) /\ Len(Append(w, x)) = Len(w) + 1
          /\ \A i \in 1 .. Len(w) : Append(w, x)[i] = w[i]
          /\ Append(w, x)[Len(w) + 1] = x
      BY <2>2, <2>4, AppendProperties
    <3> QED BY <2>2, <3>1, <3>2
  <2>9. \A i \in 1 .. k + 2 : Append(w, x)[i] = v[i]
    <3>1. \A i \in 1 .. k + 2 : i \in 1 .. k + 1 \/ i = k + 2
      OBVIOUS
    <3> QED BY <2>2, <2>5, <2>8, <3>1
  <2>10. Append(w, x) = v
    BY <2>5, <2>8, <2>9, SeqEqual
  <2> QED BY <2>7, <2>10 DEF w, v
<1>5. Further(Walked(n, f, n)) = Walked(n, f, n)
  <2> DEFINE w == Walked(n, f, n)
  <2>1. n + 1 \in 1 .. n + 1 /\ ~(n + 1 <= n)
    BY <1>1
  <2>2. w = [i \in 1 .. n + 1 |-> IF i <= n THEN f[i] ELSE NULL]
    BY DEF Walked
  <2>3. Len(w) = n + 1 /\ w[n + 1] = NULL
    BY <1>1, <2>1, <2>2
  <2> HIDE DEF w
  <2>4. Last(w) = NULL
    BY <2>3 DEF Last
  <2>5. NULL \notin records
    BY <1>1
  <2>6. Further(w) = w
    BY <2>4, <2>5 DEF Further
  <2> QED BY <2>6 DEF w
<1>6. ASSUME NEW k \in 0 .. NSurfaces PROVE Walked(n, f, Ahead(n, k)) = Unfold(W, k)
  <2>1. CASE k = 0
    BY <1>1, <1>3, <2>1 DEF Unfold, Ahead
  <2>2. CASE k # 0
    <3>1. W[k - 1] = Walked(n, f, Ahead(n, k - 1))
      BY <1>1, <2>2
    <3> HIDE DEF W
    <3>2. CASE k <= n
      <4>1. Ahead(n, k) = (k - 1) + 1 /\ Ahead(n, k - 1) = k - 1 /\ k - 1 \in 0 .. n - 1
        BY <1>1, <2>2, <3>2 DEF Ahead
      <4>2. Further(Walked(n, f, k - 1)) = Walked(n, f, (k - 1) + 1)
        BY <1>4, <4>1
      <4> QED BY <2>2, <3>1, <4>1, <4>2 DEF Unfold
    <3>3. CASE ~(k <= n)
      <4>1. Ahead(n, k) = n /\ Ahead(n, k - 1) = n
        BY <1>1, <2>2, <3>3 DEF Ahead
      <4> QED BY <1>5, <2>2, <3>1, <4>1 DEF Unfold
    <3> QED BY <3>2, <3>3
  <2> QED BY <2>1, <2>2
<1>7. W = [k \in 0 .. NSurfaces |-> Unfold(W, k)]
  <2>1. PICK P : P = W
    OBVIOUS
  <2>2. \A k \in 0 .. NSurfaces : Walked(n, f, Ahead(n, k)) = Unfold(P, k)
    BY <1>6, <2>1
  <2>3. P = [k \in 0 .. NSurfaces |-> Walked(n, f, Ahead(n, k))]
    BY <2>1
  <2>4. P = [k \in 0 .. NSurfaces |-> Unfold(P, k)]
    BY <2>2, <2>3
  <2> QED BY <2>1, <2>4
<1>8. Walk = W[NSurfaces]
  <2> HIDE DEF W
  <2> QED BY <1>7, WalkIs
<1>9. NSurfaces \in 0 .. NSurfaces /\ Ahead(n, NSurfaces) = n
  BY <1>1 DEF Ahead
<1> QED BY <1>8, <1>9

-----------------------------------------------------------------------------
(* Every step keeps the invariant.                                         *)

LEMMA VtInitInvariant == ASSUME VtAssumption, VtInit PROVE VtIInv
<1>1. NSurfaces \in Nat /\ NSurfaces >= 1 /\ NULL \notin Surfaces
  BY DEF VtAssumption, Surfaces
<1>2. /\ Descending \in Seq(Surfaces) /\ Len(Descending) = NSurfaces
      /\ \A i \in 1 .. NSurfaces : Descending[i] = NSurfaces + 1 - i
  <2>1. Descending = [i \in 1 .. NSurfaces |-> NSurfaces + 1 - i]
    BY DEF Descending
  <2>2. \A i \in 1 .. NSurfaces : NSurfaces + 1 - i \in Surfaces
    BY <1>1 DEF Surfaces
  <2> QED BY <1>1, <2>1, <2>2
<1>3. IsInjective(Descending)
  BY <1>1, <1>2 DEF IsInjective
<1>4. Types
  <2>1. Blank \in [image : Pixels \union {NULL}, pixmap : Pixmaps \union {NULL},
                   prev : Id, next : Id]
    BY DEF Blank, Id
  <2>2. ev \in [Surfaces -> [image : Pixels \union {NULL}, pixmap : Pixmaps \union {NULL},
                             prev : Id, next : Id]]
    BY <2>1 DEF VtInit
  <2>3. /\ surface \in [Pixmaps -> Id] /\ want \in [Pixmaps -> Pixels \union {NULL}]
        /\ pixmap \in [Surfaces -> Pixmaps \union {NULL}]
        /\ image \in [Surfaces -> Pixels \union {NULL}] /\ head \in Id
    BY DEF VtInit, Id
  <2>4. free \in Seq(Surfaces) /\ live \in Seq(Surfaces)
    BY <1>2 DEF VtInit
  <2> QED BY <2>2, <2>3, <2>4 DEF Types, VtInit
<1>5. Range(live) = {} /\ IsInjective(live)
  BY DEF VtInit, Range, IsInjective
<1>6. Pools
  BY <1>3, <1>5 DEF Pools, VtInit
<1>7. Bound
  BY <1>5 DEF Bound, Pairs, VtInit
<1>8. PixelsKept
  BY DEF PixelsKept, VtInit
<1>9. Linked
  <2>1. PICK f : f = [i \in 1 .. 0 |-> NULL]
    OBVIOUS
  <2>2. f \in [1 .. 0 -> Surfaces] /\ {f[i] : i \in 1 .. 0} = {} /\ IsInjective(f)
    BY <2>1 DEF IsInjective
  <2>3. Path(0, f)
    BY <2>2 DEF Path, VtInit
  <2>4. 0 \in 0 .. NSurfaces
    BY <1>1
  <2> QED BY <2>2, <2>3, <2>4 DEF Linked
<1> QED BY <1>4, <1>6, <1>7, <1>8, <1>9 DEF VtIInv

(* A path is kept with the records, their links and the head.              *)
LEMMA LinkedKept ==
  ASSUME Linked, UNCHANGED <<records, ev, head>>
  PROVE  Linked'
<1>1. PICK n \in 0 .. NSurfaces : \E f \in [1 .. n -> Surfaces] : Path(n, f)
  BY DEF Linked
<1>2. PICK f \in [1 .. n -> Surfaces] : Path(n, f)
  BY <1>1
<1>3. Path(n, f)'
  BY <1>2 DEF Path
<1> QED BY <1>3 DEF Linked

LEMMA CreateInvariant ==
  ASSUME VtAssumption, VtIInv, NEW p \in Pixmaps, NEW c \in Pixels, CreatePixmap(p, c)
  PROVE  VtIInv'
<1>1. /\ terminal \in {"here", "away"} /\ p \notin pixmaps
      /\ pixmaps' = pixmaps \union {p} /\ want' = [want EXCEPT ![p] = c]
      /\ UNCHANGED <<terminal, dead, evacuated, records, ev, head>>
  BY DEF CreatePixmap, evacvars
<1>2. Types /\ Pools /\ Bound /\ PixelsKept /\ Linked /\ NULL \notin Surfaces
  BY DEF VtIInv, VtAssumption, Surfaces
<1>3. surface[p] = NULL
  BY <1>1, <1>2 DEF Bound
<1>4. Linked'
  BY <1>1, <1>2, LinkedKept
<1>5. CASE terminal = "here" /\ free # <<>>
  <2> DEFINE s == Head(free)
  <2>1. /\ surface' = [surface EXCEPT ![p] = s]
        /\ pixmap' = [pixmap EXCEPT ![s] = p]
        /\ image' = [image EXCEPT ![s] = c]
        /\ free' = Tail(free) /\ live' = <<s>> \o live
    BY <1>5 DEF CreatePixmap
  <2>2. /\ s \in Surfaces /\ free' \in Seq(Surfaces) /\ IsInjective(free')
        /\ s \notin Range(free') /\ Range(free) = {s} \union Range(free')
    BY <1>2, <1>5, <2>1, FromFront DEF Types, Pools
  <2> HIDE DEF s
  <2>3. s \notin Range(live)
    BY <1>2, <2>2 DEF Pools
  <2>4. /\ live' \in Seq(Surfaces) /\ IsInjective(live')
        /\ Range(live') = {s} \union Range(live)
    BY <1>2, <2>1, <2>2, <2>3, InFront DEF Types, Pools
  <2>5. Types'
    <3>1. /\ surface' \in [Pixmaps -> Id] /\ want' \in [Pixmaps -> Pixels \union {NULL}]
          /\ pixmap' \in [Surfaces -> Pixmaps \union {NULL}]
          /\ image' \in [Surfaces -> Pixels \union {NULL}] /\ pixmaps' \subseteq Pixmaps
      BY <1>1, <1>2, <2>1, <2>2 DEF Types, Id
    <3> QED BY <1>1, <1>2, <2>2, <2>4, <3>1 DEF Types
  <2>6. Pools'
    BY <1>1, <1>2, <1>5, <2>2, <2>3, <2>4 DEF Pools
  <2>7. Bound'
    <3>1. Pairs(Range(live), pixmap)
      BY <1>2, <1>5 DEF Bound
    <3>2. /\ surface'[p] = s /\ pixmap'[s] = p
          /\ \A q \in Pixmaps \ {p} : surface'[q] = surface[q]
          /\ \A t \in Surfaces \ {s} : pixmap'[t] = pixmap[t]
      BY <1>2, <2>1, <2>2 DEF Types
    <3>3. Range(live) \subseteq Surfaces /\ pixmaps \subseteq Pixmaps
      BY <1>2 DEF Types, Range
    <3>4. Pairs(Range(live), pixmap)'
      <4>1. ASSUME NEW q \in pixmaps', surface'[q] # NULL
            PROVE  surface'[q] \in Range(live') /\ pixmap'[surface'[q]] = q
        <5>1. CASE q = p
          BY <2>4, <3>2, <5>1
        <5>2. CASE q # p
          <6>1. q \in pixmaps /\ surface'[q] = surface[q]
            BY <1>1, <3>2, <3>3, <5>2
          <6>2. surface[q] \in Range(live) /\ pixmap[surface[q]] = q
            BY <3>1, <4>1, <6>1 DEF Pairs
          <6>3. surface[q] # s /\ surface[q] \in Surfaces
            BY <2>3, <3>3, <6>2
          <6> QED BY <2>4, <3>2, <6>1, <6>2, <6>3
        <5> QED BY <5>1, <5>2
      <4>2. ASSUME NEW t \in Range(live')
            PROVE  pixmap'[t] \in pixmaps' /\ surface'[pixmap'[t]] = t
        <5>1. CASE t = s
          BY <1>1, <3>2, <5>1
        <5>2. CASE t # s
          <6>1. t \in Range(live) /\ pixmap'[t] = pixmap[t]
            BY <2>4, <3>2, <3>3, <5>2
          <6>2. pixmap[t] \in pixmaps /\ surface[pixmap[t]] = t
            BY <3>1, <6>1 DEF Pairs
          <6>3. pixmap[t] # p
            BY <1>1, <6>2
          <6> QED BY <1>1, <3>2, <3>3, <6>1, <6>2, <6>3
        <5> QED BY <5>1, <5>2
      <4> QED BY <4>1, <4>2 DEF Pairs
    <3>5. \A q \in Pixmaps \ pixmaps' : surface'[q] = NULL
      BY <1>1, <1>2, <3>2 DEF Bound
    <3> QED BY <1>1, <1>5, <3>4, <3>5 DEF Bound
  <2>8. PixelsKept'
    <3>1. /\ surface'[p] = s /\ want'[p] = c /\ image'[s] = c
          /\ \A q \in Pixmaps \ {p} : surface'[q] = surface[q] /\ want'[q] = want[q]
          /\ \A t \in Surfaces \ {s} : image'[t] = image[t]
      BY <1>1, <1>2, <2>1, <2>2 DEF Types
    <3>2. ASSUME NEW q \in pixmaps', surface'[q] # NULL PROVE image'[surface'[q]] = want'[q]
      <4>1. CASE q = p
        BY <3>1, <4>1
      <4>2. CASE q # p
        <5>1. q \in pixmaps /\ q \in Pixmaps \ {p}
          BY <1>1, <1>2, <4>2 DEF Types
        <5>2. surface[q] \in Range(live) /\ surface[q] \in Surfaces
          BY <1>2, <1>5, <3>1, <3>2, <5>1 DEF Bound, Pairs, Types, Id
        <5>3. surface[q] # s
          BY <2>3, <5>2
        <5> QED BY <1>2, <1>5, <3>1, <3>2, <5>1, <5>2, <5>3 DEF PixelsKept
      <4> QED BY <4>1, <4>2
    <3> QED BY <1>1, <1>5, <3>2 DEF PixelsKept
  <2> QED BY <1>4, <2>5, <2>6, <2>7, <2>8 DEF VtIInv
<1>6. CASE ~(terminal = "here" /\ free # <<>>)
  <2>1. UNCHANGED <<surface, pixmap, image, free, live>>
    BY <1>6 DEF CreatePixmap, boundvars
  <2>2. Types'
    <3>1. want' \in [Pixmaps -> Pixels \union {NULL}] /\ pixmaps' \subseteq Pixmaps
      BY <1>1, <1>2 DEF Types
    <3> QED BY <1>1, <1>2, <2>1, <3>1 DEF Types
  <2>3. Pools'
    BY <1>1, <1>2, <2>1 DEF Pools
  <2>4. Bound'
    BY <1>1, <1>2, <1>3, <2>1 DEF Bound, Pairs
  <2>5. PixelsKept'
    <3>1. \A q \in pixmaps : want'[q] = want[q]
      BY <1>1, <1>2 DEF Types
    <3> QED BY <1>1, <1>2, <1>3, <2>1, <3>1 DEF PixelsKept
  <2> QED BY <1>4, <2>2, <2>3, <2>4, <2>5 DEF VtIInv
<1> QED BY <1>5, <1>6

LEMMA DrawInvariant ==
  ASSUME VtAssumption, VtIInv, NEW p \in Pixmaps, NEW c \in Pixels, Draw(p, c)
  PROVE  VtIInv'
<1>1. /\ terminal = "here" /\ p \in pixmaps /\ surface[p] # NULL
      /\ want' = [want EXCEPT ![p] = c] /\ image' = [image EXCEPT ![surface[p]] = c]
      /\ UNCHANGED <<terminal, pixmaps, surface, pixmap, free, live, dead,
                     evacuated, records, ev, head>>
  BY DEF Draw, listvars, evacvars
<1>2. Types /\ Pools /\ Bound /\ PixelsKept /\ Linked
  BY DEF VtIInv
<1>3. surface[p] \in Surfaces
  BY <1>1, <1>2 DEF Types, Id
<1>4. Types'
  <2>1. want' \in [Pixmaps -> Pixels \union {NULL}] /\ image' \in [Surfaces -> Pixels \union {NULL}]
    BY <1>1, <1>2, <1>3 DEF Types
  <2> QED BY <1>1, <1>2, <2>1 DEF Types
<1>5. Pools' /\ Bound'
  BY <1>1, <1>2 DEF Pools, Bound, Pairs
<1>6. PixelsKept'
  <2>1. ASSUME NEW q \in pixmaps, surface[q] # NULL PROVE image'[surface[q]] = want'[q]
    <3>1. q \in Pixmaps /\ surface[q] \in Surfaces /\ image[surface[q]] = want[q]
      BY <1>1, <1>2, <2>1 DEF Types, Id, PixelsKept
    <3>2. CASE q = p
      BY <1>1, <1>2, <1>3, <3>2 DEF Types
    <3>3. CASE q # p
      <4>1. surface[q] # surface[p]
        BY <1>1, <1>2, <2>1, <3>3 DEF Bound, Pairs
      <4> QED BY <1>1, <1>2, <3>1, <3>3, <4>1 DEF Types
    <3> QED BY <3>2, <3>3
  <2> QED BY <1>1, <2>1 DEF PixelsKept
<1> QED BY <1>1, <1>2, <1>4, <1>5, <1>6, LinkedKept DEF VtIInv

LEMMA DestroyPlainInvariant ==
  ASSUME VtAssumption, VtIInv, NEW p \in Pixmaps, DestroyPlain(p)
  PROVE  VtIInv'
<1>1. /\ terminal \in {"here", "away"} /\ surface[p] = NULL /\ p \in pixmaps
      /\ pixmaps' = pixmaps \ {p} /\ surface' = [surface EXCEPT ![p] = NULL]
      /\ want' = [want EXCEPT ![p] = NULL]
      /\ UNCHANGED <<terminal, pixmap, image, free, live, dead, evacuated, records, ev, head>>
  BY DEF DestroyPlain, Forget, listvars, evacvars
<1>2. Types /\ Pools /\ Bound /\ PixelsKept /\ Linked /\ NULL \notin Surfaces
  BY DEF VtIInv, VtAssumption, Surfaces
<1>3. /\ surface' = surface /\ \A q \in pixmaps' : want'[q] = want[q]
      /\ want' \in [Pixmaps -> Pixels \union {NULL}]
  BY <1>1, <1>2 DEF Types
<1>4. Types' /\ Pools'
  BY <1>1, <1>2, <1>3 DEF Types, Pools
<1>5. Bound'
  <2>1. \A S, of : Pairs(S, of) /\ S \subseteq Surfaces => Pairs(S, of)'
    BY <1>1, <1>2, <1>3 DEF Pairs
  <2>2. Range(live) \subseteq Surfaces /\ records \subseteq Surfaces
    BY <1>2 DEF Types, Range
  <2> QED BY <1>1, <1>2, <1>3, <2>1, <2>2 DEF Bound
<1>6. PixelsKept'
  BY <1>1, <1>2, <1>3 DEF PixelsKept
<1> QED BY <1>1, <1>2, <1>4, <1>5, <1>6, LinkedKept DEF VtIInv

(* A pixmap that has a surface goes, and the surface or record with it.    *)
LEMMA PairsWithout ==
  ASSUME VtAssumption, Types, NEW S \in SUBSET Surfaces, NEW of, Pairs(S, of),
         NEW p \in pixmaps, surface[p] # NULL, Forget(p)
  PROVE  /\ \A q \in pixmaps' :
              surface'[q] # NULL => surface'[q] \in S \ {surface[p]} /\ of[surface'[q]] = q
         /\ \A s \in S \ {surface[p]} : of[s] \in pixmaps' /\ surface'[of[s]] = s
<1>1. /\ pixmaps' = pixmaps \ {p} /\ surface' = [surface EXCEPT ![p] = NULL]
      /\ surface \in [Pixmaps -> Id] /\ pixmaps \subseteq Pixmaps
  BY DEF Forget, Types
<1>2. /\ surface[p] \in S /\ of[surface[p]] = p
      /\ \A q \in pixmaps : surface[q] # NULL => surface[q] \in S /\ of[surface[q]] = q
      /\ \A s \in S : of[s] \in pixmaps /\ surface[of[s]] = s
  BY DEF Pairs
<1>3. \A q \in Pixmaps \ {p} : surface'[q] = surface[q]
  BY <1>1
<1>4. ASSUME NEW q \in pixmaps', surface'[q] # NULL
      PROVE  surface'[q] \in S \ {surface[p]} /\ of[surface'[q]] = q
  BY <1>1, <1>2, <1>3, <1>4
<1>5. ASSUME NEW s \in S \ {surface[p]} PROVE of[s] \in pixmaps' /\ surface'[of[s]] = s
  <2>1. of[s] \in pixmaps /\ surface[of[s]] = s
    BY <1>2
  <2>2. of[s] # p
    BY <2>1
  <2> QED BY <1>1, <1>3, <2>1, <2>2
<1> QED BY <1>4, <1>5

LEMMA DestroyLiveInvariant ==
  ASSUME VtAssumption, VtIInv, NEW p \in Pixmaps, DestroyLive(p)
  PROVE  VtIInv'
<1> DEFINE s == surface[p]
<1>1. /\ terminal = "here" /\ s # NULL /\ Forget(p)
      /\ \E i \in DOMAIN live : live[i] = s /\ live' = RemoveAt(live, i)
      /\ dead' = dead \union {s} /\ pixmap' = [pixmap EXCEPT ![s] = NULL]
      /\ UNCHANGED <<terminal, image, free, evacuated, records, ev, head>>
  BY DEF DestroyLive, evacvars
<1>2. /\ p \in pixmaps /\ pixmaps' = pixmaps \ {p} /\ surface' = [surface EXCEPT ![p] = NULL]
      /\ want' = [want EXCEPT ![p] = NULL]
  BY <1>1 DEF Forget
<1>3. Types /\ Pools /\ Bound /\ PixelsKept /\ Linked /\ NULL \notin Surfaces
  BY DEF VtIInv, VtAssumption, Surfaces
<1>4. s \in Surfaces
  BY <1>1, <1>3 DEF Types, Id
<1> HIDE DEF s
<1>5. PICK i \in DOMAIN live : live[i] = s /\ live' = RemoveAt(live, i)
  BY <1>1
<1>6. /\ live' \in Seq(Surfaces) /\ IsInjective(live') /\ Range(live') = Range(live) \ {s}
      /\ s \in Range(live)
  <2>1. live \in Seq(Surfaces) /\ IsInjective(live)
    BY <1>3 DEF Types, Pools
  <2>2. /\ RemoveAt(live, i) \in Seq(Surfaces) /\ IsInjective(RemoveAt(live, i))
        /\ Range(RemoveAt(live, i)) = Range(live) \ {live[i]}
    BY <2>1, TakenOut
  <2>3. live[i] \in Range(live)
    BY DEF Range
  <2> QED BY <1>5, <2>2, <2>3
<1>7. Types'
  <2>1. /\ surface' \in [Pixmaps -> Id] /\ want' \in [Pixmaps -> Pixels \union {NULL}]
        /\ pixmap' \in [Surfaces -> Pixmaps \union {NULL}] /\ pixmaps' \subseteq Pixmaps
        /\ dead' \subseteq Surfaces
    BY <1>1, <1>2, <1>3, <1>4 DEF Types, Id
  <2> QED BY <1>1, <1>3, <1>6, <2>1 DEF Types
<1>8. Pools'
  BY <1>1, <1>3, <1>6 DEF Pools
<1>9. Range(live) \in SUBSET Surfaces /\ Pairs(Range(live), pixmap)
  BY <1>1, <1>3 DEF Types, Range, Bound
<1>10. /\ \A q \in pixmaps' :
            surface'[q] # NULL => surface'[q] \in Range(live') /\ pixmap[surface'[q]] = q
       /\ \A t \in Range(live') : pixmap[t] \in pixmaps' /\ surface'[pixmap[t]] = t
  <2>1. surface[p] # NULL /\ Forget(p) /\ p \in pixmaps /\ Types
    BY <1>1, <1>2, <1>3 DEF s
  <2>2. /\ \A q \in pixmaps' :
             surface'[q] # NULL =>
               surface'[q] \in Range(live) \ {surface[p]} /\ pixmap[surface'[q]] = q
        /\ \A t \in Range(live) \ {surface[p]} :
             pixmap[t] \in pixmaps' /\ surface'[pixmap[t]] = t
    BY <1>9, <2>1, PairsWithout
  <2>3. Range(live') = Range(live) \ {surface[p]}
    BY <1>6 DEF s
  <2> QED BY <2>2, <2>3
<1>11. \A t \in Range(live') : pixmap'[t] = pixmap[t]
  BY <1>1, <1>3, <1>6, <1>9 DEF Types
<1>12. Bound'
  <2>1. Pairs(Range(live), pixmap)'
    BY <1>10, <1>11 DEF Pairs
  <2>2. \A q \in Pixmaps \ pixmaps' : surface'[q] = NULL
    BY <1>2, <1>3 DEF Bound, Types
  <2> QED BY <1>1, <2>1, <2>2 DEF Bound
<1>13. PixelsKept'
  <2>1. \A q \in pixmaps' : q \in pixmaps /\ surface'[q] = surface[q] /\ want'[q] = want[q]
    BY <1>2, <1>3 DEF Types
  <2> QED BY <1>1, <1>3, <2>1 DEF PixelsKept
<1> QED BY <1>1, <1>3, <1>7, <1>8, <1>12, <1>13, LinkedKept DEF VtIInv

LEMMA RecycleInvariant ==
  ASSUME VtAssumption, VtIInv, NEW s \in Surfaces, Recycle(s)
  PROVE  VtIInv'
<1>1. /\ terminal = "here" /\ s \in dead /\ dead' = dead \ {s} /\ free' = <<s>> \o free
      /\ UNCHANGED <<terminal, pixmaps, want, surface, pixmap, image, live,
                     evacuated, records, ev, head>>
  BY DEF Recycle, clientvars, boundvars, evacvars
<1>2. Types /\ Pools /\ Bound /\ PixelsKept /\ Linked
  BY DEF VtIInv
<1>3. /\ free' \in Seq(Surfaces) /\ IsInjective(free') /\ Range(free') = {s} \union Range(free)
  <2>1. s \notin Range(free) /\ free \in Seq(Surfaces) /\ IsInjective(free)
    BY <1>1, <1>2 DEF Pools, Types
  <2> QED BY <1>1, <2>1, InFront
<1>4. Types' /\ Pools'
  BY <1>1, <1>2, <1>3 DEF Types, Pools
<1>5. Bound' /\ PixelsKept'
  BY <1>1, <1>2 DEF Bound, Pairs, PixelsKept
<1> QED BY <1>1, <1>2, <1>4, <1>5, LinkedKept DEF VtIInv

(* A record is taken out of the path.                                      *)
LEMMA PathWithout ==
  ASSUME VtAssumption, Types, NEW n \in 0 .. NSurfaces, NEW f \in [1 .. n -> Surfaces],
         Path(n, f), NEW s \in records, records' = records \ {s}, head' = head,
         \A r \in Surfaces :
           /\ ev'[r].prev = IF r = ev[s].next THEN ev[s].prev ELSE ev[r].prev
           /\ ev'[r].next = IF r = ev[s].prev THEN ev[s].next ELSE ev[r].next
  PROVE  Linked'
<1>1. /\ NSurfaces \in Nat /\ n \in Nat /\ n <= NSurfaces /\ NULL \notin Surfaces
      /\ records = {f[i] : i \in 1 .. n}
      /\ \A i, j \in 1 .. n : f[i] = f[j] => i = j
      /\ \A i \in 1 .. n : /\ ev[f[i]].next = IF i = n THEN NULL ELSE f[i + 1]
                           /\ ev[f[i]].prev = IF i = 1 THEN NULL ELSE f[i - 1]
      /\ head \in records => head = f[1]
      /\ head = NULL => n = 0
  <2>1. NSurfaces \in Nat /\ n \in Nat /\ n <= NSurfaces /\ NULL \notin Surfaces
    BY DEF VtAssumption, Surfaces
  <2>2. IsInjective(f) /\ DOMAIN f = 1 .. n
    BY DEF Path
  <2>3. \A i, j \in 1 .. n : f[i] = f[j] => i = j
    BY <2>2 DEF IsInjective
  <2>4. \A i \in 1 .. n : /\ ev[f[i]].next = IF i = n THEN NULL ELSE f[i + 1]
                         /\ ev[f[i]].prev = IF i = 1 THEN NULL ELSE f[i - 1]
    BY DEF Path
  <2>5. /\ records = {f[i] : i \in 1 .. n}
        /\ head \in records => head = f[1]
        /\ head = NULL => n = 0
    BY DEF Path
  <2> QED BY <2>1, <2>3, <2>4, <2>5
<1>2. PICK k \in 1 .. n : s = f[k]
  BY <1>1
<1>3. n - 1 \in 0 .. NSurfaces /\ n - 1 \in Nat
  BY <1>1, <1>2
<1>4. PICK g : g = [i \in 1 .. n - 1 |-> IF i < k THEN f[i] ELSE f[i + 1]]
  OBVIOUS
<1> DEFINE From(i) == IF i < k THEN i ELSE i + 1
<1>5. \A i \in 1 .. n - 1 : From(i) \in 1 .. n /\ From(i) # k /\ g[i] = f[From(i)]
  BY <1>1, <1>2, <1>4
<1>6. g \in [1 .. n - 1 -> Surfaces]
  BY <1>4, <1>5
<1>7. IsInjective(g)
  <2>1. ASSUME NEW i \in 1 .. n - 1, NEW j \in 1 .. n - 1, g[i] = g[j] PROVE i = j
    <3>1. From(i) = From(j)
      <4>1. \A a, b \in 1 .. n : f[a] = f[b] => a = b
        BY <1>1
      <4>2. /\ From(i) \in 1 .. n /\ g[i] = f[From(i)]
            /\ From(j) \in 1 .. n /\ g[j] = f[From(j)]
        BY <1>5
      <4>3. f[From(i)] = f[From(j)]
        BY <2>1, <4>2
      <4> HIDE DEF From
      <4> QED BY <4>1, <4>2, <4>3
    <3> QED BY <1>2, <3>1
  <2> QED BY <1>6, <2>1 DEF IsInjective
<1>8. records' = {g[i] : i \in 1 .. n - 1}
  <2>1. ASSUME NEW i \in 1 .. n - 1 PROVE g[i] \in records \ {s}
    <3>1. From(i) \in 1 .. n /\ From(i) # k /\ g[i] = f[From(i)]
      BY <1>5
    <3>2. /\ \A a, b \in 1 .. n : f[a] = f[b] => a = b
          /\ records = {f[a] : a \in 1 .. n}
      BY <1>1
    <3> HIDE DEF From
    <3> QED BY <1>2, <3>1, <3>2
  <2>2. ASSUME NEW r \in records \ {s} PROVE \E i \in 1 .. n - 1 : r = g[i]
    <3>1. PICK m \in 1 .. n : r = f[m]
      BY <1>1
    <3>2. m # k
      BY <1>2, <2>2, <3>1
    <3>3. CASE m < k
      <4>1. m \in 1 .. n - 1 /\ g[m] = f[m]
        BY <1>2, <1>4, <3>3
      <4> QED BY <3>1, <4>1
    <3>4. CASE m > k
      <4>1. m - 1 \in 1 .. n - 1 /\ ~(m - 1 < k) /\ (m - 1) + 1 = m
        BY <1>2, <3>4
      <4>2. g[m - 1] = f[m]
        BY <1>4, <4>1
      <4> QED BY <3>1, <4>1, <4>2
    <3> QED BY <1>2, <3>2, <3>3, <3>4
  <2> QED BY <2>1, <2>2
<1>9. ev[s].prev = (IF k = 1 THEN NULL ELSE f[k - 1])
      /\ ev[s].next = (IF k = n THEN NULL ELSE f[k + 1])
  BY <1>1, <1>2
<1>10. ASSUME NEW i \in 1 .. n - 1
       PROVE  ev'[g[i]].next = IF i = n - 1 THEN NULL ELSE g[i + 1]
  <2>1. PICK m : m = From(i)
    OBVIOUS
  <2>2. m \in 1 .. n /\ m # k /\ g[i] = f[m] /\ f[m] \in Surfaces
    BY <1>5, <2>1
  <2>3. f[m] = ev[s].prev <=> m = k - 1
    <3>1. k # 1 => k - 1 \in 1 .. n
      BY <1>2
    <3> QED BY <1>1, <1>2, <1>9, <2>2, <3>1
  <2>4. CASE m = k - 1
    <3>1. i = k - 1
      BY <1>2, <2>1, <2>4
    <3>2. ev'[g[i]].next = IF k = n THEN NULL ELSE f[k + 1]
      BY <1>9, <2>2, <2>3, <2>4
    <3>3. CASE k = n
      BY <3>1, <3>2, <3>3
    <3>4. CASE k # n
      <4>1. k \in 1 .. n - 1 /\ i + 1 = k /\ i # n - 1
        BY <1>2, <3>1, <3>4
      <4>2. g[k] = f[k + 1]
        BY <1>4, <4>1
      <4> QED BY <3>2, <3>4, <4>1, <4>2
    <3> QED BY <3>3, <3>4
  <2>5. CASE m # k - 1
    <3>1. ev'[g[i]].next = ev[f[m]].next
      BY <2>2, <2>3, <2>5
    <3>2. ev'[g[i]].next = IF m = n THEN NULL ELSE f[m + 1]
      BY <1>1, <2>2, <3>1
    <3>3. CASE i < k
      <4>1. m = i /\ i + 1 \in 1 .. n - 1 /\ i + 1 < k /\ m # n /\ i # n - 1
        BY <1>2, <2>1, <2>5, <3>3
      <4>2. g[i + 1] = f[i + 1]
        BY <1>4, <4>1
      <4> QED BY <3>2, <4>1, <4>2
    <3>4. CASE ~(i < k)
      <4>1. m = i + 1 /\ (m = n <=> i = n - 1)
        BY <1>2, <2>1, <3>4
      <4>2. i # n - 1 => g[i + 1] = f[(i + 1) + 1]
        <5>1. SUFFICES ASSUME i # n - 1 PROVE g[i + 1] = f[(i + 1) + 1]
          OBVIOUS
        <5>2. i + 1 \in 1 .. n - 1 /\ ~(i + 1 < k)
          BY <1>2, <3>4, <5>1
        <5> QED BY <1>4, <5>2
      <4> QED BY <3>2, <4>1, <4>2
    <3> QED BY <3>3, <3>4
  <2> QED BY <2>4, <2>5
<1>11. ASSUME NEW i \in 1 .. n - 1
       PROVE  ev'[g[i]].prev = IF i = 1 THEN NULL ELSE g[i - 1]
  <2>1. PICK m : m = From(i)
    OBVIOUS
  <2>2. m \in 1 .. n /\ m # k /\ g[i] = f[m] /\ f[m] \in Surfaces
    BY <1>5, <2>1
  <2>3. f[m] = ev[s].next <=> m = k + 1
    <3>1. k # n => k + 1 \in 1 .. n
      BY <1>2
    <3>2. m = k + 1 => k # n
      BY <2>2
    <3> QED BY <1>1, <1>2, <1>9, <2>2, <3>1, <3>2
  <2>4. CASE m = k + 1
    <3>1. i = k
      BY <1>2, <2>1, <2>4
    <3>2. ev'[g[i]].prev = IF k = 1 THEN NULL ELSE f[k - 1]
      BY <1>9, <2>2, <2>3, <2>4
    <3>3. k # 1 => g[k - 1] = f[k - 1]
      <4>1. SUFFICES ASSUME k # 1 PROVE g[k - 1] = f[k - 1]
        OBVIOUS
      <4>2. k - 1 \in 1 .. n - 1 /\ k - 1 < k
        BY <1>2, <4>1
      <4> QED BY <1>4, <4>2
    <3> QED BY <3>1, <3>2, <3>3
  <2>5. CASE m # k + 1
    <3>1. ev'[g[i]].prev = ev[f[m]].prev
      BY <2>2, <2>3, <2>5
    <3>2. ev'[g[i]].prev = IF m = 1 THEN NULL ELSE f[m - 1]
      BY <1>1, <2>2, <3>1
    <3>3. CASE i < k
      <4>1. m = i
        BY <2>1, <3>3
      <4>2. i # 1 => g[i - 1] = f[i - 1]
        <5>1. SUFFICES ASSUME i # 1 PROVE g[i - 1] = f[i - 1]
          OBVIOUS
        <5>2. i - 1 \in 1 .. n - 1 /\ i - 1 < k
          BY <1>2, <3>3, <5>1
        <5> QED BY <1>4, <5>2
      <4> QED BY <3>2, <4>1, <4>2
    <3>4. CASE ~(i < k)
      <4>1. m = i + 1 /\ i > k /\ i # 1 /\ m # 1 /\ m - 1 = i
        BY <1>2, <2>1, <2>5, <3>4
      <4>2. i - 1 \in 1 .. n - 1 /\ ~(i - 1 < k) /\ (i - 1) + 1 = i
        BY <1>2, <4>1
      <4>3. g[i - 1] = f[i]
        BY <1>4, <4>2
      <4> QED BY <3>2, <4>1, <4>3
    <3> QED BY <3>3, <3>4
  <2> QED BY <2>4, <2>5
<1>12. head' \in records' => head' = g[1]
  <2>1. SUFFICES ASSUME head \in records, head # s PROVE head = g[1]
    OBVIOUS
  <2>2. head = f[1] /\ k # 1
    BY <1>1, <1>2, <2>1
  <2>3. 1 \in 1 .. n - 1 /\ 1 < k
    BY <1>2, <2>2
  <2> QED BY <1>4, <2>2, <2>3
<1>13. head' # NULL
  <2>1. n # 0
    BY <1>2
  <2> QED BY <1>1, <2>1
<1>14. Path(n - 1, g)'
  BY <1>6, <1>7, <1>8, <1>10, <1>11, <1>12, <1>13 DEF Path
<1> QED BY <1>3, <1>6, <1>14 DEF Linked

LEMMA DestroyEvacuatedInvariant ==
  ASSUME VtAssumption, VtIInv, NEW p \in Pixmaps, DestroyEvacuated(p)
  PROVE  VtIInv'
<1> DEFINE s == surface[p]
<1>1. /\ terminal = "away" /\ s \in evacuated /\ Forget(p)
      /\ records' = records \ {s} /\ evacuated' = evacuated \ {s}
      /\ ev' = [r \in Surfaces |->
                  [ev[r] EXCEPT !.prev = IF r = ev[s].next THEN ev[s].prev ELSE @,
                                !.next = IF r = ev[s].prev THEN ev[s].next ELSE @]]
      /\ UNCHANGED <<terminal, pixmap, image, free, live, dead, head>>
  BY DEF DestroyEvacuated, listvars
<1>2. /\ p \in pixmaps /\ pixmaps' = pixmaps \ {p} /\ surface' = [surface EXCEPT ![p] = NULL]
      /\ want' = [want EXCEPT ![p] = NULL]
  BY <1>1 DEF Forget
<1>3. Types /\ Pools /\ Bound /\ PixelsKept /\ Linked /\ NULL \notin Surfaces
  BY DEF VtIInv, VtAssumption, Surfaces
<1>4. s \in Surfaces /\ s \in records
  BY <1>1, <1>3 DEF Types
<1> HIDE DEF s
<1>5. /\ \A r \in Surfaces :
           /\ ev'[r].image = ev[r].image /\ ev'[r].pixmap = ev[r].pixmap
           /\ ev'[r].prev = IF r = ev[s].next THEN ev[s].prev ELSE ev[r].prev
           /\ ev'[r].next = IF r = ev[s].prev THEN ev[s].next ELSE ev[r].next
      /\ ev' \in [Surfaces -> [image : Pixels \union {NULL}, pixmap : Pixmaps \union {NULL},
                               prev : Id, next : Id]]
  <2> DEFINE Row == [image : Pixels \union {NULL}, pixmap : Pixmaps \union {NULL},
                     prev : Id, next : Id]
             New(r) == [ev[r] EXCEPT !.prev = IF r = ev[s].next THEN ev[s].prev ELSE @,
                                     !.next = IF r = ev[s].prev THEN ev[s].next ELSE @]
  <2>1. \A r \in Surfaces : ev[r] \in Row
    BY <1>3 DEF Types
  <2>2. ASSUME NEW r \in Surfaces
        PROVE  /\ New(r) \in Row
               /\ New(r).image = ev[r].image /\ New(r).pixmap = ev[r].pixmap
               /\ New(r).prev = IF r = ev[s].next THEN ev[s].prev ELSE ev[r].prev
               /\ New(r).next = IF r = ev[s].prev THEN ev[s].next ELSE ev[r].next
    <3>1. ev[r] \in Row /\ ev[s] \in Row
      BY <1>4, <2>1
    <3> QED BY <3>1
  <2>3. ev' = [r \in Surfaces |-> New(r)]
    BY <1>1
  <2> HIDE DEF New
  <2> QED BY <2>2, <2>3
<1>6. Types'
  <2>1. /\ surface' \in [Pixmaps -> Id] /\ want' \in [Pixmaps -> Pixels \union {NULL}]
        /\ pixmaps' \subseteq Pixmaps /\ records' \subseteq Surfaces /\ evacuated' = records'
    BY <1>1, <1>2, <1>3 DEF Types, Id
  <2> QED BY <1>1, <1>3, <1>5, <2>1 DEF Types
<1>7. Pools'
  BY <1>1, <1>3 DEF Pools
<1>8. PICK of : of = [r \in Surfaces |-> ev[r].pixmap]
  OBVIOUS
<1>9. records \in SUBSET Surfaces /\ Pairs(records, of)
  BY <1>1, <1>3, <1>8 DEF Types, Bound
<1>10. /\ \A q \in pixmaps' :
            surface'[q] # NULL => surface'[q] \in records' /\ of[surface'[q]] = q
       /\ \A t \in records' : of[t] \in pixmaps' /\ surface'[of[t]] = t
  <2>1. surface[p] # NULL /\ Forget(p) /\ p \in pixmaps /\ Types
    BY <1>1, <1>2, <1>3, <1>4 DEF s
  <2>2. /\ \A q \in pixmaps' :
             surface'[q] # NULL =>
               surface'[q] \in records \ {surface[p]} /\ of[surface'[q]] = q
        /\ \A t \in records \ {surface[p]} : of[t] \in pixmaps' /\ surface'[of[t]] = t
    BY <1>9, <2>1, PairsWithout
  <2> QED BY <1>1, <2>2 DEF s
<1>11. Bound'
  <2>1. of = [r \in Surfaces |-> ev'[r].pixmap]
    BY <1>5, <1>8
  <2>2. Pairs(records, [r \in Surfaces |-> ev[r].pixmap])'
    BY <1>10, <2>1 DEF Pairs
  <2>3. \A q \in Pixmaps \ pixmaps' : surface'[q] = NULL
    BY <1>2, <1>3 DEF Bound, Types
  <2> QED BY <1>1, <2>2, <2>3 DEF Bound
<1>12. PixelsKept'
  <2>1. \A q \in pixmaps' : q \in pixmaps /\ surface'[q] = surface[q] /\ want'[q] = want[q]
    BY <1>2, <1>3 DEF Types
  <2>2. ASSUME NEW q \in pixmaps', surface'[q] # NULL
        PROVE  ev'[surface'[q]].image = want'[q]
    <3>1. surface[q] \in Surfaces /\ ev[surface[q]].image = want[q]
      BY <1>1, <1>3, <2>1, <2>2 DEF Types, Id, PixelsKept
    <3> QED BY <1>5, <2>1, <3>1
  <2> QED BY <1>1, <2>2 DEF PixelsKept
<1>13. Linked'
  <2>1. PICK n \in 0 .. NSurfaces : \E f \in [1 .. n -> Surfaces] : Path(n, f)
    BY <1>3 DEF Linked
  <2>2. PICK f \in [1 .. n -> Surfaces] : Path(n, f)
    BY <2>1
  <2>3. \A r \in Surfaces :
          /\ ev'[r].prev = IF r = ev[s].next THEN ev[s].prev ELSE ev[r].prev
          /\ ev'[r].next = IF r = ev[s].prev THEN ev[s].next ELSE ev[r].next
    BY <1>5
  <2>4. records' = records \ {s} /\ head' = head /\ Types /\ s \in records
    BY <1>1, <1>3, <1>4
  <2> QED BY <2>2, <2>3, <2>4, PathWithout
<1> QED BY <1>6, <1>7, <1>11, <1>12, <1>13 DEF VtIInv

LEMMA EvacuateAllInvariant ==
  ASSUME VtAssumption, VtIInv, EvacuateAll
  PROVE  VtIInv'
<1>0. PICK n : n = Len(live)
  OBVIOUS
<1> DEFINE At(j) == [image |-> image[live[j]], pixmap |-> pixmap[live[j]],
                  prev |-> Neighbour(j + 1), next |-> Neighbour(j - 1)]
<1>1. /\ terminal = "here" /\ terminal' = "away"
      /\ records' = Range(live) /\ evacuated' = Range(live)
      /\ ev' = [s \in Surfaces |-> IF s \in Range(live) THEN RecordOf(s) ELSE Blank]
      /\ head' = (IF live = <<>> THEN NULL ELSE Last(live))
      /\ pixmap' = [s \in Surfaces |-> IF s \in Range(live) THEN NULL ELSE pixmap[s]]
      /\ image' = [s \in Surfaces |-> NULL]
      /\ free' = <<>> /\ live' = <<>> /\ dead' = {}
      /\ UNCHANGED <<pixmaps, want, surface>>
  BY DEF EvacuateAll, clientvars
<1>2. Types /\ Pools /\ Bound /\ PixelsKept /\ NULL \notin Surfaces
  BY DEF VtIInv, VtAssumption, Surfaces
<1>3. live \in Seq(Surfaces) /\ IsInjective(live)
  BY <1>2 DEF Types, Pools
<1>4. /\ n \in 0 .. NSurfaces /\ DOMAIN live = 1 .. n
      /\ \A j \in 1 .. n : live[j] \in Surfaces /\ live[j] \in Range(live)
      /\ Range(live) \subseteq Surfaces
  <2>1. n \in 0 .. NSurfaces
    BY <1>0, <1>3, Short
  <2>2. DOMAIN live = 1 .. n /\ \A j \in 1 .. n : live[j] \in Surfaces
    BY <1>0, <1>3
  <2> QED BY <2>1, <2>2 DEF Range
<1>5. \A i, j \in 1 .. n : live[i] = live[j] => i = j
  BY <1>3, <1>4 DEF IsInjective
<1>6. n \in Nat
  BY <1>4
<1>7. \A j \in 1 .. n : ev'[live[j]] = At(j)
  <2>1. ASSUME NEW j \in 1 .. n PROVE ev'[live[j]] = At(j)
    <3>1. PICK i : i = CHOOSE k \in DOMAIN live : live[k] = live[j]
      OBVIOUS
    <3>2. \E k \in DOMAIN live : live[k] = live[j]
      BY <1>4
    <3>3. i \in DOMAIN live /\ live[i] = live[j]
      BY <3>1, <3>2, Zenon
    <3>4. i = j
      BY <1>4, <1>5, <3>3
    <3>5. RecordOf(live[j]) = [image |-> image[live[j]], pixmap |-> pixmap[live[j]],
                               prev |-> Neighbour(i + 1), next |-> Neighbour(i - 1)]
      BY <3>1, Zenon DEF RecordOf
    <3>6. ev'[live[j]] = RecordOf(live[j])
      BY <1>1, <1>4
    <3> QED BY <3>4, <3>5, <3>6
  <2> QED BY <2>1
<1>8. \A s \in Range(live) : \E j \in 1 .. n : s = live[j]
  BY <1>4 DEF Range
<1>9. \A s \in Range(live) : ev'[s].image = image[s] /\ ev'[s].pixmap = pixmap[s]
  <2>1. \A j \in 1 .. n : At(j).image = image[live[j]] /\ At(j).pixmap = pixmap[live[j]]
    OBVIOUS
  <2> HIDE DEF At
  <2> QED BY <1>7, <1>8, <2>1
<1>10. \A j \in 1 .. n : /\ ev'[live[j]].prev = IF j = n THEN NULL ELSE live[j + 1]
                         /\ ev'[live[j]].next = IF j = 1 THEN NULL ELSE live[j - 1]
  <2>1. ASSUME NEW j \in 1 .. n
        PROVE  /\ Neighbour(j + 1) = IF j = n THEN NULL ELSE live[j + 1]
               /\ Neighbour(j - 1) = IF j = 1 THEN NULL ELSE live[j - 1]
    <3>1. (j + 1 \in DOMAIN live <=> j # n) /\ (j - 1 \in DOMAIN live <=> j # 1)
      BY <1>4, <1>6
    <3> QED BY <3>1 DEF Neighbour
  <2>2. \A j \in 1 .. n : At(j).prev = Neighbour(j + 1) /\ At(j).next = Neighbour(j - 1)
    OBVIOUS
  <2> HIDE DEF At
  <2> QED BY <1>7, <2>1, <2>2
<1>11. Types'
  <2> DEFINE Row == [image : Pixels \union {NULL}, pixmap : Pixmaps \union {NULL},
                     prev : Id, next : Id]
  <2>1. \A j \in 1 .. n : At(j) \in Row
    <3>1. ASSUME NEW j \in 1 .. n PROVE At(j) \in Row
      <4>1. Neighbour(j + 1) \in Id /\ Neighbour(j - 1) \in Id
        BY <1>4 DEF Neighbour, Id
      <4>2. image[live[j]] \in Pixels \union {NULL} /\ pixmap[live[j]] \in Pixmaps \union {NULL}
        BY <1>2, <1>4 DEF Types
      <4> QED BY <4>1, <4>2
    <3> QED BY <3>1
  <2>2. Blank \in Row
    BY DEF Blank, Id
  <2>3. ev' \in [Surfaces -> Row]
    <3> HIDE DEF At, Row
    <3>1. \A s \in Range(live) : ev'[s] \in Row
      BY <1>7, <1>8, <2>1
    <3>2. \A s \in Surfaces \ Range(live) : ev'[s] = Blank
      BY <1>1
    <3>3. \A s \in Surfaces : ev'[s] \in Row
      BY <2>2, <3>1, <3>2
    <3>4. ev' = [s \in Surfaces |-> ev'[s]]
      BY <1>1
    <3> QED BY <3>3, <3>4
  <2>4. pixmap' \in [Surfaces -> Pixmaps \union {NULL}]
    BY <1>1, <1>2 DEF Types
  <2>5. image' \in [Surfaces -> Pixels \union {NULL}]
    BY <1>1
  <2>6. head' \in Id
    <3>1. live # <<>> => n \in 1 .. n
      BY <1>0, <1>3, <1>6
    <3>2. Last(live) = live[n]
      BY <1>0 DEF Last
    <3> QED BY <1>1, <1>4, <3>1, <3>2 DEF Id
  <2>7. /\ <<>> \in Seq(Surfaces) /\ {} \subseteq Surfaces
        /\ terminal' \in {"here", "away", "undefined"}
    BY <1>1
  <2> QED BY <1>1, <1>2, <1>4, <2>3, <2>4, <2>5, <2>6, <2>7 DEF Types
<1>12. Pools'
  <2>1. IsInjective(<<>>) /\ Range(<<>>) = {}
    BY DEF IsInjective, Range
  <2> QED BY <1>1, <2>1 DEF Pools
<1>13. Bound'
  <2>1. Pairs(Range(live), pixmap)
    BY <1>1, <1>2 DEF Bound
  <2>2. \A s \in Range(live) : [t \in Surfaces |-> ev'[t].pixmap][s] = pixmap[s]
    BY <1>4, <1>9
  <2>3. PICK of : of = [t \in Surfaces |-> ev'[t].pixmap]
    OBVIOUS
  <2>4. \A s \in Range(live) : of[s] = pixmap[s]
    BY <2>2, <2>3
  <2>5. /\ \A p \in pixmaps : surface[p] # NULL =>
             surface[p] \in Range(live) /\ of[surface[p]] = p
        /\ \A s \in Range(live) : of[s] \in pixmaps /\ surface[of[s]] = s
    BY <2>1, <2>4 DEF Pairs
  <2>6. Pairs(records, [s \in Surfaces |-> ev[s].pixmap])'
    <3>1. /\ \A p \in pixmaps' : surface'[p] # NULL =>
               surface'[p] \in records' /\ of[surface'[p]] = p
          /\ \A s \in records' : of[s] \in pixmaps' /\ surface'[of[s]] = s
      BY <1>1, <2>5
    <3> QED BY <2>3, <3>1 DEF Pairs
  <2> QED BY <1>1, <1>2, <2>6 DEF Bound
<1>14. PixelsKept'
  <2>1. ASSUME NEW p \in pixmaps, surface[p] # NULL PROVE ev'[surface[p]].image = want[p]
    <3>1. surface[p] \in Range(live)
      BY <1>1, <1>2, <2>1 DEF Bound, Pairs
    <3> QED BY <1>1, <1>2, <1>9, <2>1, <3>1 DEF PixelsKept
  <2> QED BY <1>1, <2>1 DEF PixelsKept
<1>15. Linked'
  <2>1. PICK f : f = [i \in 1 .. n |-> live[n + 1 - i]]
    OBVIOUS
  <2>2. \A i \in 1 .. n : n + 1 - i \in 1 .. n /\ n + 1 - (n + 1 - i) = i
    BY <1>6
  <2>3. f \in [1 .. n -> Surfaces]
    BY <1>4, <2>1, <2>2
  <2>4. IsInjective(f)
    <3>1. ASSUME NEW i \in 1 .. n, NEW j \in 1 .. n, f[i] = f[j] PROVE i = j
      <4>1. n + 1 - i = n + 1 - j
        BY <1>5, <2>1, <2>2, <3>1
      <4> QED BY <1>6, <4>1
    <3> QED BY <2>3, <3>1 DEF IsInjective
  <2>5. records' = {f[i] : i \in 1 .. n}
    <3>1. \A s \in Range(live) : \E i \in 1 .. n : s = f[i]
      <4>1. ASSUME NEW j \in 1 .. n PROVE \E i \in 1 .. n : live[j] = f[i]
        <5>1. n + 1 - j \in 1 .. n /\ f[n + 1 - j] = live[n + 1 - (n + 1 - j)]
          BY <2>1, <2>2
        <5> QED BY <2>2, <5>1
      <4> QED BY <1>8, <4>1
    <3>2. \A i \in 1 .. n : f[i] \in Range(live)
      BY <1>4, <2>1, <2>2
    <3> QED BY <1>1, <3>1, <3>2
  <2>6. ASSUME NEW i \in 1 .. n
        PROVE  /\ ev'[f[i]].next = IF i = n THEN NULL ELSE f[i + 1]
               /\ ev'[f[i]].prev = IF i = 1 THEN NULL ELSE f[i - 1]
    <3>1. PICK j : j = n + 1 - i
      OBVIOUS
    <3>2. j \in 1 .. n /\ f[i] = live[j] /\ (j = 1 <=> i = n) /\ (j = n <=> i = 1)
      BY <1>6, <2>1, <3>1
    <3>3. i # n => f[i + 1] = live[j - 1]
      <4>1. i # n => i + 1 \in 1 .. n /\ n + 1 - (i + 1) = j - 1
        BY <1>6, <3>1
      <4> QED BY <2>1, <4>1
    <3>4. i # 1 => f[i - 1] = live[j + 1]
      <4>1. i # 1 => i - 1 \in 1 .. n /\ n + 1 - (i - 1) = j + 1
        BY <1>6, <3>1
      <4> QED BY <2>1, <4>1
    <3> QED BY <1>10, <3>2, <3>3, <3>4
  <2>7. (head' \in records' => head' = f[1]) /\ (head' = NULL => n = 0)
    <3>1. CASE live = <<>>
      <4>1. n = 0 /\ Range(live) = {}
        BY <1>0, <3>1 DEF Range
      <4> QED BY <1>1, <3>1, <4>1
    <3>2. CASE live # <<>>
      <4>1. n \in 1 .. n /\ 1 \in 1 .. n /\ n + 1 - 1 = n
        BY <1>0, <1>3, <1>6, <3>2
      <4>2. Last(live) = live[n] /\ f[1] = live[n] /\ live[n] \in Surfaces
        BY <1>0, <1>4, <2>1, <4>1 DEF Last
      <4> QED BY <1>1, <1>2, <3>2, <4>2
    <3> QED BY <3>1, <3>2
  <2>8. Path(n, f)'
    BY <2>3, <2>4, <2>5, <2>6, <2>7 DEF Path
  <2> QED BY <1>4, <2>3, <2>8 DEF Linked
<1> QED BY <1>11, <1>12, <1>13, <1>14, <1>15 DEF VtIInv

(* The surfaces made of the first m that are free, and the rest.           *)
MadeAnew(m, new, rest) ==
  /\ \A i \in 1 .. m : new[i] \in Surfaces
  /\ \A i, j \in 1 .. m : new[i] = new[j] => i = j
  /\ Range(new) = {new[i] : i \in 1 .. m}
  /\ Reverse(new) \in Seq(Surfaces) /\ IsInjective(Reverse(new))
  /\ Range(Reverse(new)) = Range(new)
  /\ rest \in Seq(Surfaces) /\ IsInjective(rest)
  /\ Range(rest) \intersect Range(new) = {}

LEMMA NewSurfaces ==
  ASSUME VtAssumption, NEW m \in 0 .. NSurfaces
  PROVE  MadeAnew(m, SubSeq(Descending, 1, m), SubSeq(Descending, m + 1, NSurfaces))
<1>0. PICK new, rest : /\ new = SubSeq(Descending, 1, m)
                       /\ rest = SubSeq(Descending, m + 1, NSurfaces)
  OBVIOUS
<1>1. NSurfaces \in Nat /\ NSurfaces >= 1 /\ m \in Nat /\ m <= NSurfaces
  BY DEF VtAssumption
<1>2. /\ Descending \in Seq(Surfaces) /\ Len(Descending) = NSurfaces
      /\ \A i \in 1 .. NSurfaces : Descending[i] = NSurfaces + 1 - i
  <2>1. Descending = [i \in 1 .. NSurfaces |-> NSurfaces + 1 - i]
    BY DEF Descending
  <2>2. \A i \in 1 .. NSurfaces : NSurfaces + 1 - i \in Surfaces
    BY <1>1 DEF Surfaces
  <2> QED BY <1>1, <2>1, <2>2
<1>3. /\ new \in Seq(Surfaces) /\ Len(new) = m
      /\ \A i \in 1 .. m : new[i] = NSurfaces + 1 - i
  <2>1. /\ SubSeq(Descending, 1, m) \in Seq(Surfaces) /\ Len(SubSeq(Descending, 1, m)) = m
        /\ \A i \in 1 .. m : SubSeq(Descending, 1, m)[i] = Descending[i]
    BY <1>1, <1>2
  <2>2. \A i \in 1 .. m : i \in 1 .. NSurfaces
    BY <1>1
  <2> QED BY <1>0, <1>2, <2>1, <2>2
<1>4. /\ rest \in Seq(Surfaces) /\ Len(rest) = NSurfaces - m
      /\ \A i \in 1 .. NSurfaces - m : rest[i] = NSurfaces + 1 - (i + m)
  <2>1. /\ SubSeq(Descending, m + 1, NSurfaces) \in Seq(Surfaces)
        /\ Len(SubSeq(Descending, m + 1, NSurfaces)) = NSurfaces - m
        /\ \A i \in 1 .. NSurfaces - m :
             SubSeq(Descending, m + 1, NSurfaces)[i] = Descending[i + m]
    BY <1>1, <1>2
  <2>2. \A i \in 1 .. NSurfaces - m : i + m \in 1 .. NSurfaces
    BY <1>1
  <2> QED BY <1>0, <1>2, <2>1, <2>2
<1>5. DOMAIN new = 1 .. m /\ DOMAIN rest = 1 .. NSurfaces - m
  BY <1>3, <1>4, LenProperties
<1>6. \A i, j \in 1 .. m : new[i] = new[j] => i = j
  BY <1>1, <1>3
<1>7. \A i \in 1 .. m : new[i] \in Surfaces
  BY <1>3
<1>8. Range(new) = {new[i] : i \in 1 .. m}
  BY <1>5 DEF Range
<1>9. PICK back : back = Reverse(new)
  OBVIOUS
<1>10. /\ back \in Seq(Surfaces) /\ DOMAIN back = 1 .. m
       /\ \A i \in 1 .. m : back[i] = new[m + 1 - i]
  <2>1. back = [i \in 1 .. m |-> new[(m - i) + 1]]
    BY <1>3, <1>9 DEF Reverse
  <2>2. \A i \in 1 .. m : m + 1 - i \in 1 .. m /\ (m - i) + 1 = m + 1 - i
    BY <1>1
  <2>3. \A i \in 1 .. m : back[i] = new[m + 1 - i] /\ back[i] \in Surfaces
    BY <1>7, <2>1, <2>2
  <2> QED BY <1>1, <2>1, <2>3
<1>11. \A i \in 1 .. m : m + 1 - i \in 1 .. m /\ m + 1 - (m + 1 - i) = i
  BY <1>1
<1>12. IsInjective(back)
  <2>1. ASSUME NEW i \in 1 .. m, NEW j \in 1 .. m, back[i] = back[j] PROVE i = j
    <3>1. PICK k, l \in 1 .. m : k = m + 1 - i /\ l = m + 1 - j
      BY <1>11
    <3>2. k = l
      BY <1>6, <1>10, <2>1, <3>1
    <3> QED BY <1>1, <3>1, <3>2
  <2> QED BY <1>10, <2>1 DEF IsInjective
<1>13. Range(back) = Range(new)
  <2>1. ASSUME NEW i \in 1 .. m PROVE back[i] \in Range(new)
    BY <1>8, <1>10, <1>11
  <2>2. ASSUME NEW i \in 1 .. m PROVE new[i] \in Range(back)
    <3>1. back[m + 1 - i] = new[i]
      BY <1>10, <1>11
    <3> QED BY <1>10, <1>11, <3>1 DEF Range
  <2>3. Range(back) = {back[i] : i \in 1 .. m}
    BY <1>10 DEF Range
  <2> QED BY <1>8, <2>1, <2>2, <2>3
<1>14. IsInjective(rest)
  <2>1. ASSUME NEW i \in 1 .. NSurfaces - m, NEW j \in 1 .. NSurfaces - m, rest[i] = rest[j]
        PROVE  i = j
    BY <1>1, <1>4, <2>1
  <2> QED BY <1>5, <2>1 DEF IsInjective
<1>15. Range(rest) \intersect Range(new) = {}
  <2>1. ASSUME NEW i \in 1 .. m, NEW j \in 1 .. NSurfaces - m PROVE new[i] # rest[j]
    BY <1>1, <1>3, <1>4
  <2> QED BY <1>5, <2>1 DEF Range
<1>16. MadeAnew(m, new, rest)
  BY <1>4, <1>6, <1>7, <1>8, <1>9, <1>10, <1>12, <1>13, <1>14, <1>15 DEF MadeAnew
<1> QED BY <1>0, <1>16

LEMMA NoneLinked ==
  ASSUME VtAssumption, records' = {}, head' = NULL
  PROVE  Linked'
<1>1. PICK f : f = [i \in 1 .. 0 |-> NULL]
  OBVIOUS
<1>2. f \in [1 .. 0 -> Surfaces] /\ {f[i] : i \in 1 .. 0} = {} /\ IsInjective(f)
  BY <1>1 DEF IsInjective
<1>3. Path(0, f)'
  BY <1>2 DEF Path
<1>4. 0 \in 0 .. NSurfaces
  BY DEF VtAssumption
<1> QED BY <1>2, <1>3, <1>4 DEF Linked

(* The walk ends at null only if it begins at a record, and then it comes  *)
(* upon all of them.                                                       *)
LEMMA AllRestored ==
  ASSUME VtAssumption, Types, Linked, head # NULL, Last(Walk) = NULL
  PROVE  /\ Len(Walk) - 1 \in 0 .. NSurfaces
         /\ records = {Restored(Len(Walk) - 1)[i] : i \in 1 .. Len(Walk) - 1}
         /\ \A i, j \in 1 .. Len(Walk) - 1 :
              Restored(Len(Walk) - 1)[i] = Restored(Len(Walk) - 1)[j] => i = j
<1>1. head \in records
  <2>1. SUFFICES ASSUME head \notin records PROVE FALSE
    OBVIOUS
  <2>2. Walk = <<head>>
    BY <2>1, WalkFromNowhere
  <2> QED BY <2>2 DEF Last
<1>2. PICK n \in 0 .. NSurfaces : \E f \in [1 .. n -> Surfaces] : Path(n, f)
  BY DEF Linked
<1>3. PICK f \in [1 .. n -> Surfaces] : Path(n, f)
  BY <1>2
<1>4. Walk = Walked(n, f, n)
  BY <1>1, <1>3, WalkFollows
<1>5. n \in Nat
  BY DEF VtAssumption
<1>6. Len(Walk) = n + 1 /\ Walk \in Seq(Id) /\ \A i \in 1 .. n : Walk[i] = f[i]
  <2>1. Walk = [i \in 1 .. n + 1 |-> IF i <= n THEN f[i] ELSE NULL]
    BY <1>4 DEF Walked
  <2>2. \A i \in 1 .. n + 1 : (IF i <= n THEN f[i] ELSE NULL) \in Id
    BY <1>5 DEF Id
  <2>3. \A i \in 1 .. n : i \in 1 .. n + 1 /\ i <= n
    BY <1>5
  <2>4. n + 1 \in Nat
    BY <1>5
  <2>5. Len(Walk) = n + 1 /\ Walk \in Seq(Id)
    BY <2>1, <2>2, <2>4
  <2> QED BY <2>1, <2>3, <2>5
<1>7. Len(Walk) - 1 = n
  BY <1>5, <1>6
<1>8. PICK old : old = Restored(n)
  OBVIOUS
<1>9. \A i \in 1 .. n : old[i] = f[i]
  <2>1. \A i \in 1 .. n : SubSeq(Walk, 1, n)[i] = Walk[i]
    BY <1>5, <1>6
  <2> QED BY <1>6, <1>8, <2>1 DEF Restored
<1>10. DOMAIN f = 1 .. n /\ records = {f[i] : i \in 1 .. n}
  BY <1>3 DEF Path
<1>11. \A i, j \in 1 .. n : f[i] = f[j] => i = j
  BY <1>3, <1>10 DEF Path, IsInjective
<1>12. records = {old[i] : i \in 1 .. n}
  BY <1>9, <1>10
<1>13. \A i, j \in 1 .. n : old[i] = old[j] => i = j
  BY <1>9, <1>11
<1> QED BY <1>7, <1>8, <1>12, <1>13

LEMMA ReplaceEvacuatedInvariant ==
  ASSUME VtAssumption, VtIInv, ReplaceEvacuated
  PROVE  VtIInv'
<1> DEFINE Count == Len(Walk) - 1
           Old == Restored(Count)
           Made == SubSeq(Descending, 1, Count)
<1>1. Types /\ Pools /\ Bound /\ PixelsKept /\ Linked /\ NULL \notin Surfaces
  BY DEF VtIInv, VtAssumption, Surfaces
<1>2. PICK n, old, new, rest : /\ n = Count /\ old = Old /\ new = Made
                               /\ rest = SubSeq(Descending, n + 1, NSurfaces)
  OBVIOUS
<1>3. /\ terminal = "away" /\ head # NULL /\ Last(Walk) = NULL
      /\ terminal' = "here" /\ live' = Reverse(new) /\ free' = rest
      /\ image' = [s \in Surfaces |->
                     IF s \in Range(new)
                       THEN ev[old[CHOOSE i \in 1 .. n : new[i] = s]].image ELSE NULL]
      /\ pixmap' = [s \in Surfaces |->
                      IF s \in Range(new)
                        THEN ev[old[CHOOSE i \in 1 .. n : new[i] = s]].pixmap ELSE NULL]
      /\ surface' = [p \in Pixmaps |->
                       IF \E i \in 1 .. n : ev[old[i]].pixmap = p
                         THEN new[CHOOSE i \in 1 .. n : ev[old[i]].pixmap = p]
                         ELSE surface[p]]
      /\ evacuated' = {} /\ records' = {} /\ head' = NULL
      /\ ev' = [s \in Surfaces |-> Blank]
      /\ UNCHANGED <<pixmaps, want, dead>>
  BY <1>2 DEF ReplaceEvacuated, clientvars
<1>4. /\ n \in 0 .. NSurfaces /\ records = {old[i] : i \in 1 .. n}
      /\ \A i, j \in 1 .. n : old[i] = old[j] => i = j
  <2>1. /\ Count \in 0 .. NSurfaces /\ records = {Old[i] : i \in 1 .. Count}
        /\ \A i, j \in 1 .. Count : Old[i] = Old[j] => i = j
    BY <1>1, <1>3, AllRestored
  <2> HIDE DEF Old, Count
  <2> QED BY <1>2, <2>1
<1>5. new = SubSeq(Descending, 1, n) /\ rest = SubSeq(Descending, n + 1, NSurfaces)
  BY <1>2
<1> HIDE DEF Count, Old, Made
<1>6. /\ \A i \in 1 .. n : new[i] \in Surfaces
      /\ \A i, j \in 1 .. n : new[i] = new[j] => i = j
      /\ Range(new) = {new[i] : i \in 1 .. n}
      /\ Reverse(new) \in Seq(Surfaces) /\ IsInjective(Reverse(new))
      /\ Range(Reverse(new)) = Range(new)
      /\ rest \in Seq(Surfaces) /\ IsInjective(rest)
      /\ Range(rest) \intersect Range(new) = {}
  <2>1. MadeAnew(n, new, rest)
    BY <1>4, <1>5, NewSurfaces
  <2> QED BY <2>1 DEF MadeAnew
<1>7. \A i \in 1 .. n : old[i] \in records /\ old[i] \in Surfaces
  BY <1>1, <1>4 DEF Types
<1>8. /\ \A p \in pixmaps : surface[p] # NULL =>
            surface[p] \in records /\ ev[surface[p]].pixmap = p
      /\ \A s \in records : ev[s].pixmap \in pixmaps /\ surface[ev[s].pixmap] = s
  <2>1. PICK of : of = [s \in Surfaces |-> ev[s].pixmap]
    OBVIOUS
  <2>2. Pairs(records, of)
    BY <1>1, <1>3, <2>1 DEF Bound
  <2>3. \A s \in records : of[s] = ev[s].pixmap
    BY <1>1, <2>1 DEF Types
  <2> QED BY <2>2, <2>3 DEF Pairs
<1>9. \A i, j \in 1 .. n : ev[old[i]].pixmap = ev[old[j]].pixmap => i = j
  <2>1. ASSUME NEW i \in 1 .. n, NEW j \in 1 .. n, ev[old[i]].pixmap = ev[old[j]].pixmap
        PROVE  i = j
    <3>1. old[i] = old[j]
      BY <1>7, <1>8, <2>1
    <3> QED BY <1>4, <3>1
  <2> QED BY <2>1
<1>10. ASSUME NEW i \in 1 .. n
       PROVE  /\ image'[new[i]] = ev[old[i]].image /\ pixmap'[new[i]] = ev[old[i]].pixmap
              /\ surface'[ev[old[i]].pixmap] = new[i]
  <2>1. PICK j : j = CHOOSE k \in 1 .. n : new[k] = new[i]
    OBVIOUS
  <2>2. j \in 1 .. n /\ new[j] = new[i]
    <3>1. \E k \in 1 .. n : new[k] = new[i]
      OBVIOUS
    <3> QED BY <2>1, <3>1, Zenon
  <2>3. j = i
    BY <1>6, <2>2
  <2>4. new[i] \in Surfaces /\ new[i] \in Range(new)
    BY <1>6
  <2>5. image'[new[i]] = ev[old[i]].image /\ pixmap'[new[i]] = ev[old[i]].pixmap
    BY <1>3, <2>1, <2>3, <2>4
  <2>6. PICK k : k = CHOOSE l \in 1 .. n : ev[old[l]].pixmap = ev[old[i]].pixmap
    OBVIOUS
  <2>7. \E l \in 1 .. n : ev[old[l]].pixmap = ev[old[i]].pixmap
    OBVIOUS
  <2>8. k \in 1 .. n /\ ev[old[k]].pixmap = ev[old[i]].pixmap
    BY <2>6, <2>7, Zenon
  <2>9. k = i
    BY <1>9, <2>8
  <2>10. ev[old[i]].pixmap \in Pixmaps
    BY <1>1, <1>7, <1>8 DEF Types
  <2>11. surface'[ev[old[i]].pixmap] = new[i]
    BY <1>3, <2>6, <2>7, <2>9, <2>10
  <2> QED BY <2>5, <2>11
<1>11. ASSUME NEW p \in Pixmaps, surface'[p] # NULL
       PROVE  \E i \in 1 .. n : p = ev[old[i]].pixmap
  <2>1. SUFFICES ASSUME ~ \E i \in 1 .. n : ev[old[i]].pixmap = p PROVE FALSE
    OBVIOUS
  <2>2. surface'[p] = surface[p]
    BY <1>3, <2>1
  <2>3. p \in pixmaps
    BY <1>1, <1>11, <2>2 DEF Bound
  <2>4. surface[p] \in records /\ ev[surface[p]].pixmap = p
    BY <1>8, <1>11, <2>2, <2>3
  <2> QED BY <1>4, <2>1, <2>4
<1>12. ASSUME NEW s \in Range(new) PROVE \E i \in 1 .. n : s = new[i]
  BY <1>6
<1>13. Types'
  <2> DEFINE Row == [image : Pixels \union {NULL}, pixmap : Pixmaps \union {NULL},
                     prev : Id, next : Id]
  <2>1. \A i \in 1 .. n : /\ ev[old[i]].image \in Pixels \union {NULL}
                          /\ ev[old[i]].pixmap \in Pixmaps \union {NULL}
    BY <1>1, <1>7 DEF Types
  <2>2. \A s \in Surfaces : /\ image'[s] \in Pixels \union {NULL}
                            /\ pixmap'[s] \in Pixmaps \union {NULL}
    <3>1. ASSUME NEW s \in Surfaces, s \in Range(new)
          PROVE  /\ image'[s] \in Pixels \union {NULL}
                 /\ pixmap'[s] \in Pixmaps \union {NULL}
      BY <1>10, <1>12, <2>1, <3>1
    <3>2. ASSUME NEW s \in Surfaces, s \notin Range(new)
          PROVE  image'[s] = NULL /\ pixmap'[s] = NULL
      BY <1>3, <3>2
    <3> QED BY <3>1, <3>2
  <2>3. \A p \in Pixmaps : surface'[p] \in Id
    <3>1. ASSUME NEW p \in Pixmaps, surface'[p] # NULL PROVE surface'[p] \in Surfaces
      BY <1>6, <1>10, <1>11, <3>1
    <3> QED BY <3>1 DEF Id
  <2>4. /\ image' = [s \in Surfaces |-> image'[s]]
        /\ pixmap' = [s \in Surfaces |-> pixmap'[s]]
        /\ surface' = [p \in Pixmaps |-> surface'[p]]
    BY <1>3
  <2>5. /\ image' \in [Surfaces -> Pixels \union {NULL}]
        /\ pixmap' \in [Surfaces -> Pixmaps \union {NULL}]
        /\ surface' \in [Pixmaps -> Id]
    BY <2>2, <2>3, <2>4
  <2>6. Blank \in Row
    BY DEF Blank, Id
  <2>7. ev' \in [Surfaces -> Row]
    <3> HIDE DEF Row
    <3> QED BY <1>3, <2>6
  <2> QED BY <1>1, <1>3, <1>6, <2>5, <2>7 DEF Types, Id
<1>14. Pools'
  <2>1. dead = {}
    BY <1>1, <1>3 DEF Pools
  <2> QED BY <1>3, <1>6, <2>1 DEF Pools
<1>15. Bound'
  <2>1. ASSUME NEW p \in pixmaps, surface'[p] # NULL
        PROVE  surface'[p] \in Range(new) /\ pixmap'[surface'[p]] = p
    <3>1. p \in Pixmaps
      BY <1>1 DEF Types
    <3>2. PICK i \in 1 .. n : p = ev[old[i]].pixmap
      BY <1>11, <2>1, <3>1
    <3> QED BY <1>6, <1>10, <3>2
  <2>2. ASSUME NEW s \in Range(new) PROVE pixmap'[s] \in pixmaps /\ surface'[pixmap'[s]] = s
    <3>1. PICK i \in 1 .. n : s = new[i]
      BY <1>12
    <3> QED BY <1>7, <1>8, <1>10, <3>1
  <2>3. Pairs(Range(live), pixmap)'
    <3>1. Range(live') = Range(new) /\ pixmaps' = pixmaps
      BY <1>3, <1>6
    <3> QED BY <2>1, <2>2, <3>1 DEF Pairs
  <2>4. ASSUME NEW p \in Pixmaps, p \notin pixmaps PROVE surface'[p] = NULL
    BY <1>7, <1>8, <1>11, <2>4
  <2> QED BY <1>3, <2>3, <2>4 DEF Bound
<1>16. PixelsKept'
  <2>1. ASSUME NEW p \in pixmaps, surface'[p] # NULL PROVE image'[surface'[p]] = want[p]
    <3>1. p \in Pixmaps
      BY <1>1 DEF Types
    <3>2. PICK i \in 1 .. n : p = ev[old[i]].pixmap
      BY <1>11, <2>1, <3>1
    <3>3. surface[p] = old[i] /\ surface[p] # NULL
      BY <1>1, <1>7, <1>8, <3>2
    <3>4. ev[surface[p]].image = want[p]
      BY <1>1, <1>3, <3>3 DEF PixelsKept
    <3> QED BY <1>10, <3>2, <3>3, <3>4
  <2> QED BY <1>3, <2>1 DEF PixelsKept
<1>17. Linked'
  BY <1>3, NoneLinked
<1> QED BY <1>13, <1>14, <1>15, <1>16, <1>17 DEF VtIInv

LEMMA ReplaceFreedInvariant == ASSUME VtAssumption, VtIInv, ReplaceFreed PROVE VtIInv'
<1>1. /\ terminal = "away" /\ terminal' = "undefined"
      /\ UNCHANGED <<pixmaps, want, surface, pixmap, image, free, live, dead,
                     evacuated, records, ev, head>>
  BY DEF ReplaceFreed, clientvars, boundvars, listvars, evacvars
<1>2. Types /\ Pools /\ Bound /\ PixelsKept /\ Linked
  BY DEF VtIInv
<1>3. Types' /\ Pools'
  BY <1>1, <1>2 DEF Types, Pools
<1>4. Bound' /\ PixelsKept'
  BY <1>1, <1>2 DEF Bound, PixelsKept
<1> QED BY <1>1, <1>2, <1>3, <1>4, LinkedKept DEF VtIInv

(* Without a record no pixmap had a surface.                               *)
LEMMA ReplaceNoneInvariant == ASSUME VtAssumption, VtIInv, ReplaceNone PROVE VtIInv'
<1>1. /\ terminal = "away" /\ head = NULL /\ terminal' = "here"
      /\ UNCHANGED <<pixmaps, want, surface, pixmap, image, free, live, dead,
                     evacuated, records, ev, head>>
  BY DEF ReplaceNone, clientvars, boundvars, listvars, evacvars
<1>2. Types /\ Pools /\ Bound /\ PixelsKept /\ Linked
  BY DEF VtIInv
<1>3. records = {}
  <2>1. PICK n \in 0 .. NSurfaces : \E f \in [1 .. n -> Surfaces] : Path(n, f)
    BY <1>2 DEF Linked
  <2>2. PICK f \in [1 .. n -> Surfaces] : Path(n, f)
    BY <2>1
  <2>3. n = 0 /\ records = {f[i] : i \in 1 .. n}
    BY <1>1, <2>2 DEF Path
  <2> QED BY <2>3
<1>4. \A p \in pixmaps : surface[p] = NULL
  <2>1. Pairs(records, [s \in Surfaces |-> ev[s].pixmap])
    BY <1>1, <1>2 DEF Bound
  <2> QED BY <1>3, <2>1 DEF Pairs
<1>5. live = <<>> /\ Range(live) = {}
  BY <1>1, <1>2 DEF Pools, Range
<1>6. Types' /\ Pools'
  BY <1>1, <1>2, <1>3 DEF Types, Pools
<1>7. Bound' /\ PixelsKept'
  <2>1. Range(live') = {}
    BY <1>1, <1>5
  <2> QED BY <1>1, <1>2, <1>4, <2>1 DEF Bound, Pairs, PixelsKept
<1> QED BY <1>1, <1>2, <1>6, <1>7, LinkedKept DEF VtIInv

LEMMA StutterInvariant == ASSUME VtAssumption, VtIInv, UNCHANGED vtvars PROVE VtIInv'
<1>1. UNCHANGED <<terminal, pixmaps, want, surface, pixmap, image, free, live, dead,
                  evacuated, records, ev, head>>
  BY DEF vtvars, clientvars, boundvars, listvars, evacvars
<1>2. Types /\ Pools /\ Bound /\ PixelsKept /\ Linked
  BY DEF VtIInv
<1>3. Types' /\ Pools' /\ Bound' /\ PixelsKept'
  BY <1>1, <1>2 DEF Types, Pools, Bound, Pairs, PixelsKept
<1> QED BY <1>1, <1>2, <1>3, LinkedKept DEF VtIInv

LEMMA VtNextInvariant == ASSUME VtAssumption, VtIInv, [VtNext]_vtvars PROVE VtIInv'
<1>1. ASSUME NEW p \in Pixmaps, NEW c \in Pixels, CreatePixmap(p, c) PROVE VtIInv'
  BY <1>1, CreateInvariant
<1>2. ASSUME NEW p \in Pixmaps, NEW c \in Pixels, Draw(p, c) PROVE VtIInv'
  BY <1>2, DrawInvariant
<1>3. ASSUME NEW p \in Pixmaps, DestroyPlain(p) PROVE VtIInv'
  BY <1>3, DestroyPlainInvariant
<1>4. ASSUME NEW p \in Pixmaps, DestroyLive(p) PROVE VtIInv'
  BY <1>4, DestroyLiveInvariant
<1>5. ASSUME NEW p \in Pixmaps, DestroyEvacuated(p) PROVE VtIInv'
  BY <1>5, DestroyEvacuatedInvariant
<1>6. ASSUME NEW s \in Surfaces, Recycle(s) PROVE VtIInv'
  BY <1>6, RecycleInvariant
<1>7. ASSUME EvacuateAll \/ ReplaceEvacuated \/ ReplaceFreed \/ ReplaceNone PROVE VtIInv'
  BY <1>7, EvacuateAllInvariant, ReplaceEvacuatedInvariant, ReplaceFreedInvariant,
     ReplaceNoneInvariant
<1>8. ASSUME UNCHANGED vtvars PROVE VtIInv'
  BY <1>8, StutterInvariant
<1> QED BY <1>1, <1>2, <1>3, <1>4, <1>5, <1>6, <1>7, <1>8 DEF VtNext

LEMMA VtAlwaysIInv == ASSUME VtAssumption PROVE VtSpec => []VtIInv
<1>1. VtInit => VtIInv
  BY VtInitInvariant
<1>2. VtIInv /\ [VtNext]_vtvars => VtIInv'
  BY VtNextInvariant
<1> QED BY <1>1, <1>2, PTL DEF VtSpec

-----------------------------------------------------------------------------
(* A pixmap and its surface, or the record of the surface while X is away, *)
(* always name each other, whatever is created and destroyed before,       *)
(* during and after a switch of the terminal; and the records stay one     *)
(* doubly linked list (qxl_surface_cache_evacuate_all, qxl_surface_kill,   *)
(* qxl_surface_cache_replace_all).                                         *)
THEOREM BindingExactTheorem == ASSUME VtAssumption PROVE VtSpec => []BindingExact
<1>1. VtIInv => BindingExact
  BY VtInvariantImplies
<1> QED BY <1>1, VtAlwaysIInv, PTL

(* What clients drew in a pixmap is in its surface, and while X is away in *)
(* its record, after any number of switches (evacuate_surface and          *)
(* qxl_surface_create of the pixels put back).                             *)
THEOREM PixelsKeptTheorem == ASSUME VtAssumption PROVE VtSpec => []PixelsKept
<1>1. VtIInv => PixelsKept
  BY DEF VtIInv
<1> QED BY <1>1, VtAlwaysIInv, PTL

(***************************************************************************)
(*                                 Screen                                  *)
(***************************************************************************)
-----------------------------------------------------------------------------
(* The updated region: simplifying it never leaves a column out.           *)

LEMMA LeastColumn ==
  ASSUME NEW T \in SUBSET Nat, T # {}
  PROVE  \E x \in T : \A y \in T : x <= y
<1>1. PICK x \in T : \A y \in T : <<y, x>> \notin OpToRel(<, Nat)
  BY NatLessThanWellFounded, WFMin
<1>2. ASSUME NEW y \in T PROVE x <= y
  <2>1. <<y, x>> \notin {ss \in Nat \X Nat : ss[1] < ss[2]}
    BY <1>1, Zenon DEF OpToRel
  <2> QED BY <2>1
<1> QED BY <1>2

LEMMA ColumnsBetween ==
  ASSUME ScreenAssumption, NEW r \in SUBSET Widths, r # {}
  PROVE  /\ Min(r) \in r /\ Max(r) \in r
         /\ \A c \in r : Min(r) <= c /\ c <= Max(r)
<1>1. MaxWidth \in Nat \ {0} /\ r \subseteq 1..MaxWidth
  BY DEF ScreenAssumption, Widths
<1>2. \E x \in r : \A y \in r : x <= y
  BY <1>1, LeastColumn
<1>3. \E x \in r : \A y \in r : x >= y
  <2> DEFINE T == {MaxWidth - c : c \in r}
  <2>1. T \in SUBSET Nat /\ T # {}
    <3>1. ASSUME NEW c \in r PROVE MaxWidth - c \in Nat
      BY <1>1
    <3> QED BY <3>1
  <2>2. PICK t \in T : \A y \in T : t <= y
    BY <2>1, LeastColumn
  <2>3. PICK x \in r : t = MaxWidth - x
    BY <2>2
  <2>4. ASSUME NEW y \in r PROVE x >= y
    <3>1. MaxWidth - y \in T
      OBVIOUS
    <3>2. MaxWidth - x <= MaxWidth - y
      BY <2>2, <2>3, <3>1
    <3> QED BY <1>1, <3>2
  <2> QED BY <2>4
<1>4. Min(r) \in r /\ \A y \in r : Min(r) <= y
  BY <1>2, Zenon DEF Min
<1>5. Max(r) \in r /\ \A y \in r : Max(r) >= y
  BY <1>3, Zenon DEF Max
<1> QED BY <1>1, <1>4, <1>5

LEMMA RegionCovers ==
  ASSUME ScreenAssumption, NEW dest \in SUBSET Widths, NEW src \in SUBSET Widths
  PROVE  /\ dest \union src \subseteq UpdateRegion(dest, src)
         /\ UpdateRegion(dest, src) \subseteq Widths
<1> DEFINE r == dest \union src
<1>1. r \subseteq Widths /\ MaxWidth \in Nat /\ MaxUpdates \in Nat
  BY DEF ScreenAssumption
<1>2. CASE Pieces(r) > MaxUpdates
  <2>1. r # {}
    <3>1. ASSUME r = {} PROVE FALSE
      <4>1. {c \in r : c - 1 \notin r} = {}
        BY <3>1
      <4>2. Pieces(r) = 0
        BY <4>1, FS_EmptySet DEF Pieces
      <4> QED BY <1>1, <1>2, <4>2
    <3> QED BY <3>1
  <2>2. /\ Min(r) \in r /\ Max(r) \in r
        /\ \A c \in r : Min(r) <= c /\ c <= Max(r)
    BY <1>1, <2>1, ColumnsBetween
  <2>3. UpdateRegion(dest, src) = Min(r)..Max(r)
    BY <1>2 DEF UpdateRegion
  <2> DEFINE lo == Min(r)  hi == Max(r)
  <2> HIDE DEF lo, hi, r
  <2>4. lo \in 1..MaxWidth /\ hi \in 1..MaxWidth
    BY <1>1, <2>2 DEF lo, hi, Widths
  <2>5. r \subseteq lo..hi
    BY <1>1, <2>2, <2>4 DEF lo, hi, Widths
  <2>6. lo..hi \subseteq Widths
    BY <1>1, <2>4 DEF Widths
  <2> QED BY <2>3, <2>5, <2>6 DEF lo, hi, r
<1>3. CASE ~(Pieces(r) > MaxUpdates)
  BY <1>1, <1>3 DEF UpdateRegion
<1> QED BY <1>2, <1>3

-----------------------------------------------------------------------------
(* The heads the device is told: a crtc goes to the place after those that *)
(* are on before it.                                                       *)

LEMMA OnIsFinite ==
  ASSUME ScreenAssumption, NEW cs
  PROVE  On(cs) \in SUBSET Nat /\ IsFiniteSet(On(cs)) /\ Cardinality(On(cs)) \in Nat
<1>1. NumHeads \in Nat /\ IsFiniteSet(0..NumHeads - 1)
  <2>1. NumHeads \in Nat /\ 0 \in Int /\ NumHeads - 1 \in Int
    BY DEF ScreenAssumption
  <2>2. IsFiniteSet(0..NumHeads - 1)
    BY <2>1, FS_Interval
  <2> QED BY <2>1, <2>2
<1>2. IsFiniteSet(Heads) /\ Heads \in SUBSET Nat
  BY <1>1, FS_EmptySet DEF Heads
<1>3. On(cs) \in SUBSET Heads
  BY DEF On
<1> QED BY <1>2, <1>3, FS_Subset, FS_CardinalityType

LEMMA BeforeCounts ==
  ASSUME ScreenAssumption, NEW cs, NEW i \in On(cs)
  PROVE  /\ Cardinality(Before(cs, i)) \in 0..Cardinality(On(cs)) - 1
         /\ \A k \in On(cs) : i < k => Cardinality(Before(cs, i)) < Cardinality(Before(cs, k))
<1>1. On(cs) \in SUBSET Nat /\ IsFiniteSet(On(cs)) /\ Cardinality(On(cs)) \in Nat
  BY OnIsFinite
<1>2. ASSUME NEW k \in On(cs)
      PROVE  IsFiniteSet(Before(cs, k)) /\ Cardinality(Before(cs, k)) \in Nat
  <2>1. Before(cs, k) \in SUBSET On(cs)
    BY DEF Before
  <2> QED BY <1>1, <2>1, FS_Subset, FS_CardinalityType
(* A finite set that holds all that is before i, and i too, has more.       *)
<1>3. ASSUME NEW T, IsFiniteSet(T), Before(cs, i) \subseteq T, i \in T
      PROVE  Cardinality(Before(cs, i)) < Cardinality(T)
  <2>1. i \notin Before(cs, i)
    BY <1>1 DEF Before
  <2>2. Cardinality(Before(cs, i) \cup {i}) = Cardinality(Before(cs, i)) + 1
    BY <1>2, <2>1, FS_AddElement
  <2>3. Before(cs, i) \cup {i} \in SUBSET T
    BY <1>3
  <2>4. /\ Cardinality(Before(cs, i) \cup {i}) <= Cardinality(T)
        /\ Cardinality(T) \in Nat
    BY <1>3, <2>3, FS_Subset, FS_CardinalityType
  <2> QED BY <1>2, <2>2, <2>4
<1>4. Cardinality(Before(cs, i)) \in 0..Cardinality(On(cs)) - 1
  <2>1. Before(cs, i) \subseteq On(cs)
    BY DEF Before
  <2>2. Cardinality(Before(cs, i)) < Cardinality(On(cs))
    BY <1>1, <1>3, <2>1
  <2> QED BY <1>1, <1>2, <2>2
<1>5. ASSUME NEW k \in On(cs), i < k
      PROVE  Cardinality(Before(cs, i)) < Cardinality(Before(cs, k))
  <2>1. Before(cs, i) \subseteq Before(cs, k) /\ i \in Before(cs, k)
    BY <1>1, <1>5 DEF Before
  <2> QED BY <1>2, <1>3, <2>1
<1> QED BY <1>4, <1>5

(* So every place gets a crtc: the places are as many as the crtcs.         *)
LEMMA EveryPlaceIsTaken ==
  ASSUME ScreenAssumption, NEW cs, NEW n \in 1..Cardinality(On(cs))
  PROVE  \E i \in On(cs) : Cardinality(Before(cs, i)) = n - 1
<1> DEFINE S == On(cs)
           T == 0..Cardinality(S) - 1
           place == [i \in S |-> Cardinality(Before(cs, i))]
<1>1. S \in SUBSET Nat /\ IsFiniteSet(S) /\ Cardinality(S) \in Nat
  BY OnIsFinite
<1>2. place \in Injection(S, T)
  <2>1. place \in [S -> T]
    BY BeforeCounts
  <2>2. ASSUME NEW i \in S, NEW k \in S, place[i] = place[k] PROVE i = k
    <3>1. /\ Cardinality(Before(cs, i)) = Cardinality(Before(cs, k))
          /\ Cardinality(Before(cs, i)) \in Nat
      BY <2>2, <1>1, BeforeCounts
    <3>2. ~(i < k) /\ ~(k < i)
      BY <3>1, BeforeCounts
    <3> QED BY <1>1, <3>2
  <2> QED BY <2>1, <2>2 DEF Injection, IsInjective
<1>3. IsFiniteSet(T) /\ Cardinality(T) = Cardinality(S)
  <2> DEFINE c == Cardinality(S)
  <2> HIDE DEF c
  <2>1. c \in Nat /\ 0 \in Int /\ c - 1 \in Int
    BY <1>1 DEF c
  <2>2. /\ IsFiniteSet(0..c - 1)
        /\ Cardinality(0..c - 1) = IF 0 > c - 1 THEN 0 ELSE (c - 1) - 0 + 1
    BY <2>1, FS_Interval
  <2>3. Cardinality(0..c - 1) = c
    BY <2>1, <2>2
  <2> QED BY <2>2, <2>3 DEF c
<1> HIDE DEF place, T
<1>4. place \in Surjection(S, T)
  BY <1>2, <1>3, FS_Injection
<1>5. n - 1 \in T
  BY <1>1 DEF T
<1>6. PICK i \in S : place[i] = n - 1
  BY <1>4, <1>5 DEF Surjection
<1> QED BY <1>6 DEF place

LEMMA ToldIs ==
  ASSUME ScreenAssumption, NEW cs
  PROVE  /\ \A i \in On(cs) : [id |-> i, mode |-> cs[i]] \in Range(Told(cs))
         /\ \A m, n \in DOMAIN Told(cs) : m < n => Told(cs)[m].id < Told(cs)[n].id
<1> DEFINE Count(i) == Cardinality(Before(cs, i))
           At(n) == CHOOSE i \in On(cs) : Count(i) = n - 1
<1>1. On(cs) \in SUBSET Nat /\ Cardinality(On(cs)) \in Nat
  BY OnIsFinite
<1>2. \A i \in On(cs) : Count(i) \in 0..Cardinality(On(cs)) - 1
  BY BeforeCounts
<1>3. \A i, k \in On(cs) : i < k => Count(i) < Count(k)
  BY BeforeCounts
<1>4. \A n \in 1..Cardinality(On(cs)) : \E i \in On(cs) : Count(i) = n - 1
  BY EveryPlaceIsTaken
<1>5. /\ DOMAIN Told(cs) = 1..Cardinality(On(cs))
      /\ \A n \in 1..Cardinality(On(cs)) :
           Told(cs)[n] = [id |-> At(n), mode |-> cs[At(n)]]
  BY DEF Told
<1> HIDE DEF Count
<1>6. \A n \in 1..Cardinality(On(cs)) : At(n) \in On(cs) /\ Count(At(n)) = n - 1
  BY <1>4, Zenon
<1> HIDE DEF At
<1>7. ASSUME NEW i \in On(cs) PROVE [id |-> i, mode |-> cs[i]] \in Range(Told(cs))
  <2> DEFINE n == Count(i) + 1
  <2>1. n \in 1..Cardinality(On(cs)) /\ n - 1 = Count(i)
    BY <1>1, <1>2
  <2>2. At(n) \in On(cs) /\ Count(At(n)) = Count(i)
    BY <1>6, <2>1
  <2>3. Count(i) \in Nat /\ ~(Count(i) < Count(i))
    BY <1>1, <1>2
  <2>4. At(n) = i
    BY <1>1, <1>3, <2>2, <2>3
  <2>5. Told(cs)[n] = [id |-> i, mode |-> cs[i]] /\ n \in DOMAIN Told(cs)
    BY <1>5, <2>1, <2>4
  <2> QED BY <2>5, Zenon DEF Range
<1>8. ASSUME NEW m \in DOMAIN Told(cs), NEW n \in DOMAIN Told(cs), m < n
      PROVE  Told(cs)[m].id < Told(cs)[n].id
  <2>1. /\ At(m) \in On(cs) /\ At(n) \in On(cs) /\ m \in Nat /\ n \in Nat
        /\ Count(At(m)) = m - 1 /\ Count(At(n)) = n - 1
    BY <1>1, <1>5, <1>6, <1>8
  <2>2. At(m) < At(n)
    <3>1. ~(At(n) < At(m)) /\ At(m) # At(n)
      BY <1>3, <1>8, <2>1
    <3> QED BY <1>1, <2>1, <3>1
  <2> QED BY <1>5, <2>2
<1> QED BY <1>7, <1>8

-----------------------------------------------------------------------------
(* The inductive invariant.                                                *)

(* What each variable can hold; of the heads the proofs need nothing here. *)
Shapes ==
  /\ deferred \in BOOLEAN /\ vt \in BOOLEAN /\ vt_surfaces \in BOOLEAN
  /\ stage \in {"down", "initialised", "up"}
  /\ virtual \in Widths /\ scrn \in Widths
  /\ primary \in [width : 0..MaxWidth, id : {0, 1}]
  /\ root \in [width : 0..MaxWidth, bits : {0, 1}, surface : {0, 1}]
  /\ device = [primary |-> device.primary, heads |-> device.heads]
  /\ updated \in SUBSET Widths

(* Surfaces wait to be put back only while the VT is away, and meanwhile   *)
(* the device has nothing.                                                 *)
Away ==
  /\ stage # "up" => vt
  /\ vt_surfaces => ~vt /\ ~deferred /\ device = [primary |-> 0, heads |-> <<>>]

(* X's size is the driver's but for a resize that was refused.             *)
Asked == deferred => scrn = virtual \/ virtual > Surface0

(* The primary of a new generation has the size that was asked for, even   *)
(* one that was refused.                                                   *)
Fresh ==
  stage = "initialised" =>
    device_primary = "created" /\ primary.width = virtual /\ device.primary = virtual

(* With deferred frames the root pixmap may be as X's size is and not as   *)
(* the primary, but only under a primary that should not have been made.   *)
Matched ==
  stage = "up" /\ vt =>
    /\ device_primary = "created" /\ device.primary = primary.width
    /\ root.bits = primary.id
    /\ deferred \/ root.surface = primary.id
    /\ root.width = primary.width \/ (deferred /\ primary.width > Surface0)
    /\ virtual <= Surface0 => primary.width = virtual

(* The ticker, which cuts the region off at the driver's size, does not    *)
(* lose a column of a root pixmap that fits.                               *)
Tracked ==
  Drawable /\ root.width <= Surface0 =>
    /\ root.width <= virtual
    /\ \A c \in 1..root.width : shown[c] # host[c] => c \in updated

IInv == Shapes /\ Away /\ Asked /\ Fresh /\ Matched /\ Tracked

LEMMA InvariantImplies == ASSUME ScreenAssumption, IInv PROVE ScreenAgrees /\ FramesTracked
<1>1. Surface0 \in Nat /\ virtual \in Nat /\ MaxWidth \in Nat
  BY DEF ScreenAssumption, IInv, Shapes, Widths
<1>2. ScreenAgrees
  BY <1>1 DEF IInv, Away, Matched, ScreenAgrees, Current
<1>3. FramesTracked
  BY DEF IInv, Tracked, FramesTracked
<1> QED BY <1>2, <1>3

LEMMA InitInvariant == ASSUME ScreenAssumption, Init PROVE IInv
<1>1. MaxWidth \in Nat /\ Surface0 \in Nat /\ Surface0 <= MaxWidth
  BY DEF ScreenAssumption
<1>2. virtual \in Widths /\ scrn = virtual
  BY <1>1 DEF Init, Widths
<1>3. Shapes
  <2>1. primary \in [width : 0..MaxWidth, id : {0, 1}]
    BY <1>1 DEF Init
  <2>2. root \in [width : 0..MaxWidth, bits : {0, 1}, surface : {0, 1}]
    BY <1>1 DEF Init, NoRoot
  <2>3. device = [primary |-> device.primary, heads |-> device.heads]
    BY DEF Init
  <2>4. /\ deferred \in BOOLEAN /\ vt \in BOOLEAN /\ vt_surfaces \in BOOLEAN
        /\ stage \in {"down", "initialised", "up"} /\ updated \in SUBSET Widths
    BY DEF Init
  <2> QED BY <1>2, <2>1, <2>2, <2>3, <2>4 DEF Shapes
<1>4. Away /\ Asked /\ Fresh /\ Matched /\ Tracked
  BY <1>2 DEF Init, Away, Asked, Fresh, Matched, Tracked, Drawable
<1> QED BY <1>3, <1>4 DEF IInv

-----------------------------------------------------------------------------
(* What X and the ticker do about frames.                                  *)

(* Drawing leaves the screen's make-up alone, so only Tracked is at stake. *)
LEMMA SameScreen ==
  ASSUME IInv, UNCHANGED <<deferred, stage, modes, device>>, updated' \in SUBSET Widths
  PROVE  Shapes' /\ Away' /\ Asked' /\ Fresh' /\ Matched'
BY DEF IInv, Shapes, Away, Asked, Fresh, Matched, modes

LEMMA DrawsTracked ==
  ASSUME ScreenAssumption, IInv, Drawable,
         NEW r \in SUBSET Widths, NEW img, Draws(r, img),
         UNCHANGED <<deferred, stage, modes, device, shown>>
  PROVE  IInv'
<1>1. r \subseteq updated' /\ updated \subseteq updated' /\ updated' \in SUBSET Widths
  BY RegionCovers DEF Draws, IInv, Shapes
<1>2. \A c \in Widths : c \notin r => host'[c] = host[c]
  BY DEF Draws
<1>3. root.width \in 0..MaxWidth /\ MaxWidth \in Nat
  BY DEF IInv, Shapes, ScreenAssumption
<1>4. Tracked'
  <2>1. SUFFICES ASSUME root.width <= Surface0, NEW c \in 1..root.width, shown[c] # host'[c]
                 PROVE  c \in updated'
    BY DEF Tracked, Drawable, IInv, modes
  <2>2. c \in Widths
    BY <1>3 DEF Widths
  <2> QED BY <1>1, <1>2, <2>1, <2>2 DEF IInv, Tracked
<1> QED BY <1>1, <1>4, SameScreen DEF IInv

LEMMA TickerInvariant == ASSUME ScreenAssumption, IInv, DfpsTicker PROVE IInv'
<1>1. root.width \in 0..MaxWidth /\ MaxWidth \in Nat /\ virtual \in Nat
  BY DEF IInv, Shapes, ScreenAssumption, Widths
<1>2. Tracked'
  <2>1. SUFFICES ASSUME root.width <= Surface0, NEW c \in 1..root.width
                 PROVE  shown'[c] = host[c]
    BY DEF DfpsTicker, Tracked, Drawable, IInv, modes
  <2>2. c \in Widths /\ root.width <= virtual /\ c <= virtual
    BY <1>1, <2>1 DEF Widths, IInv, Tracked, DfpsTicker
  <2> QED BY <2>1, <2>2 DEF DfpsTicker, IInv, Tracked
<1> QED BY <1>2, SameScreen DEF IInv, DfpsTicker

LEMMA FramesInvariant == ASSUME ScreenAssumption, IInv, Frames PROVE IInv'
<1>1. root.width \in 0..MaxWidth /\ MaxWidth \in Nat
  BY DEF IInv, Shapes, ScreenAssumption
<1>2. Box \subseteq SUBSET Widths
  BY <1>1 DEF Box, Widths
<1>3. CASE DfpsSolid
  BY <1>2, <1>3, DrawsTracked DEF DfpsSolid
<1>4. CASE DfpsCopy
  BY <1>2, <1>4, DrawsTracked DEF DfpsCopy
<1>5. CASE DfpsAccess
  <2>1. \A l, r \in 1..root.width : {l, r} \in SUBSET Widths
    BY <1>1 DEF Widths
  <2> QED BY <1>5, <2>1, DrawsTracked DEF DfpsAccess
<1>6. CASE DfpsTicker
  BY <1>6, TickerInvariant
<1> QED BY <1>3, <1>4, <1>5, <1>6 DEF Frames

-----------------------------------------------------------------------------
(* What X asks of the screen.                                              *)

LEMMA NewPrimaryIs ==
  ASSUME ScreenAssumption, IInv, NEW width \in Widths
  PROVE  /\ NewPrimary(width) \in [width : 0..MaxWidth, id : {0, 1}]
         /\ NewPrimary(width).width = width
<1>1. width \in 0..MaxWidth /\ primary.id \in {0, 1}
  BY DEF IInv, Shapes, Widths, ScreenAssumption
<1> QED BY <1>1 DEF NewPrimary

(* The root pixmap of a primary is as wide as the primary and has its bits. *)
LEMMA ScreenPixmapIs ==
  ASSUME IInv, NEW p \in [width : 0..MaxWidth, id : {0, 1}]
  PROVE  /\ ScreenPixmap(p) \in [width : 0..MaxWidth, bits : {0, 1}, surface : {0, 1}]
         /\ ScreenPixmap(p).width = p.width /\ ScreenPixmap(p).bits = p.id
         /\ deferred \/ ScreenPixmap(p).surface = p.id
<1>1. root.surface \in {0, 1} /\ p.width \in 0..MaxWidth /\ p.id \in {0, 1}
  BY DEF IInv, Shapes
<1> QED BY <1>1 DEF ScreenPixmap

LEMMA MonitorsKeepPrimary ==
  ASSUME NEW dev, NEW cs, dev = [primary |-> dev.primary, heads |-> dev.heads]
  PROVE  /\ UpdateMonitors(dev, cs).primary = dev.primary
         /\ UpdateMonitors(dev, cs)
              = [primary |-> UpdateMonitors(dev, cs).primary,
                 heads |-> UpdateMonitors(dev, cs).heads]
<1>1. CASE On(cs) = {}
  BY <1>1 DEF UpdateMonitors
<1>2. CASE On(cs) # {}
  <2>1. UpdateMonitors(dev, cs) = [dev EXCEPT !.heads = Told(cs)]
    BY <1>2 DEF UpdateMonitors
  <2>2. [dev EXCEPT !.heads = Told(cs)] = [primary |-> dev.primary, heads |-> Told(cs)]
    OBVIOUS
  <2> QED BY <2>1, <2>2
<1> QED BY <1>1, <1>2

(* Every column that X paints anew will be sent.                           *)
LEMMA PaintedIsSent ==
  ASSUME ScreenAssumption, IInv, NEW width \in Widths, Painted(width)
  PROVE  /\ updated' \in SUBSET Widths
         /\ deferred => 1..width \subseteq updated'
<1>1. 1..width \in SUBSET Widths
  BY DEF Widths, ScreenAssumption
<1>2. CASE deferred
  <2>1. updated' = UpdateRegion(updated, 1..width) /\ updated \in SUBSET Widths
    BY <1>2 DEF Painted, IInv, Shapes
  <2>2. /\ 1..width \subseteq UpdateRegion(updated, 1..width)
        /\ UpdateRegion(updated, 1..width) \subseteq Widths
    BY <1>1, <2>1, RegionCovers
  <2> QED BY <2>1, <2>2
<1>3. CASE ~deferred
  BY <1>3 DEF Painted, IInv, Shapes
<1> QED BY <1>2, <1>3

LEMMA ScreenInitInvariant == ASSUME ScreenAssumption, IInv, ScreenInit PROVE IInv'
<1>1. virtual \in Widths /\ virtual \in 0..MaxWidth
  BY DEF IInv, Shapes, Widths, ScreenAssumption
<1>2. primary' \in [width : 0..MaxWidth, id : {0, 1}] /\ primary'.width = virtual
  BY <1>1, NewPrimaryIs DEF ScreenInit
<1>3. root' \in [width : 0..MaxWidth, bits : {0, 1}, surface : {0, 1}]
  <2>1. 0 \in 0..MaxWidth
    BY DEF ScreenAssumption
  <2> QED BY <2>1 DEF ScreenInit, NoRoot
<1>4. /\ device'.primary = virtual
      /\ device' = [primary |-> device'.primary, heads |-> device'.heads]
  BY DEF ScreenInit
<1>5. Shapes'
  BY <1>2, <1>3, <1>4 DEF ScreenInit, IInv, Shapes
<1>6. Away' /\ Asked' /\ Fresh' /\ Matched' /\ Tracked'
  BY <1>2, <1>4 DEF ScreenInit, IInv, Away, Asked, Fresh, Matched, Tracked, Drawable
<1> QED BY <1>5, <1>6 DEF IInv

LEMMA CreateScreenResourcesInvariant ==
  ASSUME ScreenAssumption, IInv, CreateScreenResources PROVE IInv'
<1>1. /\ virtual \in Widths /\ scrn \in Widths /\ scrn \in 0..MaxWidth
      /\ Surface0 \in Nat /\ virtual \in Nat
      /\ primary \in [width : 0..MaxWidth, id : {0, 1}]
  BY DEF IInv, Shapes, Widths, ScreenAssumption
<1>2. updated' \in SUBSET Widths /\ (deferred => 1..virtual \subseteq updated')
  BY <1>1, PaintedIsSent DEF CreateScreenResources
<1>3. /\ root' \in [width : 0..MaxWidth, bits : {0, 1}, surface : {0, 1}]
      /\ root'.bits = primary.id
      /\ IF deferred THEN root'.width = scrn
         ELSE root'.width = primary.width /\ root'.surface = primary.id
  <2>1. CASE deferred
    BY <1>1, <2>1 DEF CreateScreenResources
  <2>2. CASE ~deferred
    BY <1>1, <2>2, ScreenPixmapIs DEF CreateScreenResources
  <2> QED BY <2>1, <2>2
<1>4. /\ device' = [primary |-> device'.primary, heads |-> device'.heads]
      /\ device'.primary = device.primary
  BY MonitorsKeepPrimary DEF CreateScreenResources, IInv, Shapes
<1>5. vt /\ ~vt_surfaces /\ primary.width = virtual /\ device.primary = virtual
      /\ device_primary = "created" /\ (deferred => scrn = virtual \/ virtual > Surface0)
  BY DEF IInv, Away, Fresh, Asked, CreateScreenResources
<1>6. Shapes'
  BY <1>2, <1>3, <1>4 DEF CreateScreenResources, IInv, Shapes
<1>7. Away' /\ Asked' /\ Fresh' /\ Matched'
  BY <1>1, <1>3, <1>4, <1>5 DEF CreateScreenResources, Away, Asked, Fresh, Matched
<1>8. Tracked'
  BY <1>1, <1>2, <1>3, <1>5 DEF CreateScreenResources, Tracked, Drawable, Widths
<1> QED BY <1>6, <1>7, <1>8 DEF IInv

LEMMA CloseScreenInvariant == ASSUME ScreenAssumption, IInv, CloseScreen PROVE IInv'
<1>1. 0 \in 0..MaxWidth
  BY DEF ScreenAssumption
<1>2. root' \in [width : 0..MaxWidth, bits : {0, 1}, surface : {0, 1}]
  BY <1>1 DEF CloseScreen, NoRoot
<1>3. device' = [primary |-> device'.primary, heads |-> device'.heads]
  BY DEF CloseScreen
<1>4. Shapes'
  BY <1>2, <1>3 DEF CloseScreen, IInv, Shapes
<1>5. Away' /\ Asked' /\ Fresh' /\ Matched' /\ Tracked'
  BY DEF CloseScreen, IInv, Away, Asked, Fresh, Matched, Tracked, Drawable
<1> QED BY <1>4, <1>5 DEF IInv

LEMMA ResizeInvariant == ASSUME ScreenAssumption, IInv, Resize PROVE IInv'
<1>1. PICK width \in Widths :
        /\ virtual' = width
        /\ IF Accepted(width)
           THEN /\ ResizePrimaryToVirtual(width)
                /\ scrn' = width
                /\ device' = UpdateMonitors([device EXCEPT !.primary = width], crtcs)
                /\ IF vt THEN Painted(width)
                   ELSE host' = Black /\ UNCHANGED updated
           ELSE UNCHANGED <<scrn, primary, device_primary, root, device, host, updated>>
  BY DEF Resize
<1>2. stage = "up" /\ UNCHANGED <<deferred, stage, vt, vt_surfaces, crtcs, shown>>
  BY DEF Resize
<1>3. /\ width \in Nat /\ width \in 0..MaxWidth /\ Surface0 \in Nat
      /\ primary.width \in Nat /\ root.width \in Nat
  BY DEF Widths, ScreenAssumption, IInv, Shapes
<1>4. vt => ~vt_surfaces
  BY DEF IInv, Away
<1>5. CASE ~Accepted(width)
  <2>1. UNCHANGED <<scrn, primary, device_primary, root, device, host, updated>>
    BY <1>1, <1>5
  <2>2. vt \/ deferred => width > Surface0
    BY <1>3, <1>4, <1>5 DEF Accepted, IInv, Away
  <2>3. Shapes'
    BY <1>1, <1>2, <2>1 DEF IInv, Shapes
  <2>4. Away' /\ Asked' /\ Fresh' /\ Matched'
    BY <1>1, <1>2, <1>3, <2>1, <2>2 DEF IInv, Away, Asked, Fresh, Matched
  <2>5. Tracked'
    BY <1>1, <1>2, <1>3, <2>1, <2>2 DEF IInv, Tracked, Drawable
  <2> QED BY <2>3, <2>4, <2>5 DEF IInv
<1>6. CASE Accepted(width)
  <2>1. /\ device'.primary = width
        /\ device' = [primary |-> device'.primary, heads |-> device'.heads]
    <3> DEFINE dev == [device EXCEPT !.primary = width]
    <3>1. dev.primary = width /\ dev = [primary |-> dev.primary, heads |-> dev.heads]
      BY DEF IInv, Shapes
    <3>2. device' = UpdateMonitors(dev, crtcs)
      BY <1>1, <1>6
    <3> HIDE DEF dev
    <3> QED BY <3>1, <3>2, MonitorsKeepPrimary
  <2>2. /\ updated' \in SUBSET Widths
        /\ vt /\ deferred => 1..width \subseteq updated'
    BY <1>1, <1>6, PaintedIsSent DEF IInv, Shapes
  <2>3. scrn' = width /\ ResizePrimaryToVirtual(width) /\ ~vt_surfaces
    BY <1>1, <1>6 DEF Accepted
  <2>4. /\ primary' \in [width : 0..MaxWidth, id : {0, 1}] /\ primary'.width = width
        /\ root' \in [width : 0..MaxWidth, bits : {0, 1}, surface : {0, 1}]
        /\ device_primary' = "created"
        /\ vt => /\ root'.bits = primary'.id
                 /\ deferred \/ root'.surface = primary'.id
                 /\ root'.width = width \/ (deferred /\ width > Surface0)
    <3>1. CASE Current(width)
      BY <1>2, <2>3, <3>1
         DEF ResizePrimaryToVirtual, Current, IInv, Shapes, Matched
    <3>2. CASE ~Current(width)
      <4>1. /\ primary' = NewPrimary(width) /\ device_primary' = "created"
            /\ root' = ScreenPixmap(primary')
        BY <2>3, <3>2 DEF ResizePrimaryToVirtual
      <4>2. primary' \in [width : 0..MaxWidth, id : {0, 1}] /\ primary'.width = width
        BY <4>1, NewPrimaryIs
      <4> QED BY <4>1, <4>2, ScreenPixmapIs
    <3> QED BY <3>1, <3>2
  <2>5. Shapes'
    BY <1>1, <1>2, <2>1, <2>2, <2>3, <2>4 DEF IInv, Shapes
  <2>6. Away' /\ Asked' /\ Fresh'
    BY <1>1, <1>2, <2>3 DEF IInv, Away, Asked, Fresh
  <2>7. Matched'
    BY <1>1, <1>2, <1>3, <2>1, <2>4 DEF Matched
  <2>8. Tracked'
    <3>1. SUFFICES ASSUME Drawable', root'.width <= Surface0
                   PROVE  /\ root'.width <= width
                          /\ 1..root'.width \subseteq updated'
      BY <1>1 DEF Tracked
    <3>2. root'.width \in Nat /\ root'.width <= width /\ vt /\ deferred
      BY <1>2, <1>3, <2>4, <3>1 DEF Drawable
    <3> QED BY <1>3, <2>2, <3>2
  <2> QED BY <2>5, <2>6, <2>7, <2>8 DEF IInv
<1> QED BY <1>5, <1>6

(* Setting and turning off crtcs tells the device of heads and leaves its  *)
(* primary.                                                                *)
LEMMA CrtcInvariant == ASSUME ScreenAssumption, IInv, SetModeMajor \/ TurnOff PROVE IInv'
<1>1. /\ device'.primary = device.primary
      /\ device' = [primary |-> device'.primary, heads |-> device'.heads]
  <2>1. CASE SetModeMajor
    <3>1. device' = UpdateMonitors(device, crtcs')
      BY <2>1, Zenon DEF SetModeMajor
    <3>2. device = [primary |-> device.primary, heads |-> device.heads]
      BY DEF IInv, Shapes
    <3> QED BY <3>1, <3>2, MonitorsKeepPrimary
  <2>2. CASE TurnOff
    BY <2>2 DEF TurnOff, IInv, Shapes
  <2> QED BY <2>1, <2>2
<1>2. /\ UNCHANGED <<deferred, stage, vt, vt_surfaces, virtual, scrn, primary,
                     device_primary, root, host, shown, updated>>
      /\ stage = "up" /\ vt
  BY DEF SetModeMajor, TurnOff
<1>3. Shapes' /\ Away' /\ Asked' /\ Fresh' /\ Matched' /\ Tracked'
  BY <1>1, <1>2 DEF IInv, Shapes, Away, Asked, Fresh, Matched, Tracked, Drawable
<1> QED BY <1>3 DEF IInv

LEMMA LeaveVtInvariant == ASSUME ScreenAssumption, IInv, LeaveVt PROVE IInv'
<1>1. device' = [primary |-> device'.primary, heads |-> device'.heads]
  BY DEF LeaveVt
<1>2. Shapes'
  BY <1>1 DEF LeaveVt, IInv, Shapes
<1>3. Away' /\ Asked' /\ Fresh' /\ Matched' /\ Tracked'
  BY DEF LeaveVt, IInv, Shapes, Away, Asked, Fresh, Matched, Tracked, Drawable
<1> QED BY <1>2, <1>3 DEF IInv

LEMMA EnterVtInvariant == ASSUME ScreenAssumption, IInv, EnterVt PROVE IInv'
<1>1. virtual \in Widths /\ virtual \in Nat
  BY DEF IInv, Shapes, Widths, ScreenAssumption
<1>2. /\ primary' \in [width : 0..MaxWidth, id : {0, 1}] /\ primary'.width = virtual
      /\ root' = ScreenPixmap(primary')
  BY <1>1, NewPrimaryIs DEF EnterVt
<1>3. /\ root' \in [width : 0..MaxWidth, bits : {0, 1}, surface : {0, 1}]
      /\ root'.width = virtual /\ root'.bits = primary'.id
      /\ deferred \/ root'.surface = primary'.id
  BY <1>2, ScreenPixmapIs
<1>4. /\ device'.primary = virtual
      /\ device' = [primary |-> device'.primary, heads |-> device'.heads]
  <2> DEFINE dev == [primary |-> virtual, heads |-> <<>>]
  <2>1. dev.primary = virtual /\ dev = [primary |-> dev.primary, heads |-> dev.heads]
    OBVIOUS
  <2>2. device' = UpdateMonitors(dev, crtcs)
    BY DEF EnterVt
  <2> HIDE DEF dev
  <2> QED BY <2>1, <2>2, MonitorsKeepPrimary
<1>5. updated' \in SUBSET Widths /\ (deferred => 1..virtual \subseteq updated')
  BY <1>1, PaintedIsSent DEF EnterVt
<1>6. Shapes'
  BY <1>2, <1>3, <1>4, <1>5 DEF EnterVt, IInv, Shapes
<1>7. Away' /\ Asked' /\ Fresh' /\ Matched'
  BY <1>2, <1>3, <1>4 DEF EnterVt, IInv, Away, Asked, Fresh, Matched
<1>8. Tracked'
  BY <1>1, <1>3, <1>5 DEF EnterVt, Tracked, Drawable
<1> QED BY <1>6, <1>7, <1>8 DEF IInv

-----------------------------------------------------------------------------
LEMMA NextInvariant == ASSUME ScreenAssumption, IInv, [Next]_vars PROVE IInv'
<1>1. CASE ScreenInit
  BY <1>1, ScreenInitInvariant
<1>2. CASE CreateScreenResources
  BY <1>2, CreateScreenResourcesInvariant
<1>3. CASE CloseScreen
  BY <1>3, CloseScreenInvariant
<1>4. CASE Resize
  BY <1>4, ResizeInvariant
<1>5. CASE SetModeMajor \/ TurnOff
  BY <1>5, CrtcInvariant
<1>6. CASE LeaveVt
  BY <1>6, LeaveVtInvariant
<1>7. CASE EnterVt
  BY <1>7, EnterVtInvariant
<1>8. CASE Frames
  BY <1>8, FramesInvariant
<1>9. CASE UNCHANGED vars
  BY <1>9 DEF vars, modes, IInv, Shapes, Away, Asked, Fresh, Matched, Tracked, Drawable
<1> QED BY <1>1, <1>2, <1>3, <1>4, <1>5, <1>6, <1>7, <1>8, <1>9 DEF Next

LEMMA AlwaysIInv == ASSUME ScreenAssumption PROVE Spec => []IInv
<1>1. Init => IInv
  BY InitInvariant
<1>2. IInv /\ [Next]_vars => IInv'
  BY NextInvariant
<1> QED BY <1>1, <1>2, PTL DEF Spec

(* Whenever X draws, the driver's size of the screen, its record of the    *)
(* primary, the device's primary and the root pixmap are the same, whatever *)
(* resizes were refused, through any number of generations and of switches *)
(* of the VT.                                                              *)
THEOREM ScreenAgreesTheorem == ASSUME ScreenAssumption PROVE Spec => []ScreenAgrees
<1>1. IInv => ScreenAgrees
  BY InvariantImplies
<1> QED BY <1>1, AlwaysIInv, PTL

(* With deferred frames no drawing into a root pixmap that fits is         *)
(* forgotten by the ticker, whatever dfps_update_region made of the region. *)
THEOREM FramesTrackedTheorem == ASSUME ScreenAssumption PROVE Spec => []FramesTracked
<1>1. IInv => FramesTracked
  BY InvariantImplies
<1> QED BY <1>1, AlwaysIInv, PTL

-----------------------------------------------------------------------------
(* The heads of the device.                                                *)

Tells(heads, cs) ==
  /\ \A i \in On(cs) : [id |-> i, mode |-> cs[i]] \in Range(heads)
  /\ \A m, n \in DOMAIN heads : m < n => heads[m].id < heads[n].id

(* A new generation begins with no heads, so that CreateScreenResources     *)
(* finds none of before when all crtcs are off.                            *)
Known ==
  /\ crtcs \in [Heads -> [width : Nat, x : Nat]]
  /\ stage = "initialised" => device.heads = <<>>
  /\ stage = "up" /\ vt => Tells(device.heads, crtcs)

LEMMA ToldTells == ASSUME ScreenAssumption, NEW cs PROVE Tells(Told(cs), cs)
BY ToldIs DEF Tells

LEMMA UpdateMonitorsTells ==
  ASSUME ScreenAssumption, NEW cs, NEW dev,
         dev = [primary |-> dev.primary, heads |-> dev.heads],
         dev.heads = <<>> \/ Tells(dev.heads, cs)
  PROVE  Tells(UpdateMonitors(dev, cs).heads, cs)
<1>1. CASE On(cs) = {}
  <2>1. UpdateMonitors(dev, cs) = dev
    BY <1>1 DEF UpdateMonitors
  <2>2. CASE dev.heads = <<>>
    <3>1. DOMAIN dev.heads = {}
      BY <2>2
    <3> QED BY <1>1, <2>1, <3>1 DEF Tells
  <2> QED BY <2>1, <2>2
<1>2. CASE On(cs) # {}
  <2>1. UpdateMonitors(dev, cs) = [dev EXCEPT !.heads = Told(cs)]
    BY <1>2 DEF UpdateMonitors
  <2>2. UpdateMonitors(dev, cs).heads = Told(cs)
    BY <2>1
  <2> QED BY <2>2, ToldTells
<1> QED BY <1>1, <1>2

LEMMA KnownImplies == ASSUME Known PROVE MonitorsKnown
BY DEF Known, Tells, MonitorsKnown

LEMMA InitKnown == ASSUME ScreenAssumption, Init PROVE Known
<1>1. virtual \in Nat
  BY DEF Init, ScreenAssumption
<1>2. \A i \in Heads : (IF i = 0 THEN [width |-> virtual, x |-> 0] ELSE Off)
                         \in [width : Nat, x : Nat]
  BY <1>1 DEF Off
<1>3. crtcs \in [Heads -> [width : Nat, x : Nat]]
  BY <1>2 DEF Init
<1> QED BY <1>3 DEF Init, Known

LEMMA SetModeMajorKnown == ASSUME ScreenAssumption, IInv, Known, SetModeMajor PROVE Known'
<1>1. PICK i \in Heads, width \in Modes, x \in 0..scrn - 1 :
        /\ crtcs' = [crtcs EXCEPT ![i] = [width |-> width, x |-> x]]
        /\ device' = UpdateMonitors(device, crtcs')
  BY Zenon DEF SetModeMajor
<1>2. width \in Nat /\ width # 0 /\ x \in Nat
  BY DEF ScreenAssumption, IInv, Shapes, Widths
<1>3. deferred' = deferred /\ Heads' = Heads /\ stage' = "up" /\ stage = "up" /\ vt
  BY DEF SetModeMajor, Heads
<1>4. crtcs' \in [Heads -> [width : Nat, x : Nat]]
  BY <1>1, <1>2 DEF Known
<1>5. i \in On(crtcs')
  BY <1>1, <1>2 DEF On, Known
<1>6. device' = [device EXCEPT !.heads = Told(crtcs')]
  BY <1>1, <1>5 DEF UpdateMonitors
<1>7. device'.heads = Told(crtcs')
  BY <1>6 DEF IInv, Shapes
<1>8. Tells(device'.heads, crtcs')
  BY <1>7, ToldTells
<1> QED BY <1>3, <1>4, <1>8 DEF Known, Tells, On, Heads

(* Turning a crtc off tells the device nothing: its head stays.             *)
LEMMA TurnOffKnown == ASSUME ScreenAssumption, IInv, Known, TurnOff PROVE Known'
<1>1. PICK i \in Heads : crtcs' = [crtcs EXCEPT ![i] = Off]
  BY DEF TurnOff
<1>2. Heads' = Heads /\ stage' = stage /\ stage = "up" /\ vt /\ device' = device
  BY DEF TurnOff, Heads
<1>3. crtcs' \in [Heads -> [width : Nat, x : Nat]]
  BY <1>1 DEF Known, Off
<1>4. \A k \in On(crtcs') : k \in On(crtcs) /\ crtcs'[k] = crtcs[k]
  BY <1>1 DEF On, Known, Off
<1>5. Tells(device'.heads, crtcs')
  BY <1>2, <1>4 DEF Known, Tells
<1> QED BY <1>2, <1>3, <1>5 DEF Known, Tells, On, Heads

LEMMA ResizeKnown == ASSUME ScreenAssumption, IInv, Known, Resize PROVE Known'
<1>1. UNCHANGED <<deferred, stage, vt, crtcs>> /\ stage = "up"
  BY DEF Resize
<1>2. vt => Tells(device'.heads, crtcs)
  <2>1. PICK width \in Widths :
          IF Accepted(width)
          THEN device' = UpdateMonitors([device EXCEPT !.primary = width], crtcs)
          ELSE device' = device
    BY DEF Resize
  <2>2. CASE Accepted(width)
    <3> DEFINE dev == [device EXCEPT !.primary = width]
    <3>1. dev = [primary |-> dev.primary, heads |-> dev.heads] /\ dev.heads = device.heads
      BY DEF IInv, Shapes
    <3>2. device' = UpdateMonitors(dev, crtcs)
      BY <2>1, <2>2
    <3> HIDE DEF dev
    <3> QED BY <1>1, <3>1, <3>2, UpdateMonitorsTells DEF Known
  <2>3. CASE ~Accepted(width)
    BY <1>1, <2>1, <2>3 DEF Known
  <2> QED BY <2>2, <2>3
<1> QED BY <1>1, <1>2 DEF Known, Tells, On, Heads

LEMMA NextKnown == ASSUME ScreenAssumption, IInv, Known, [Next]_vars PROVE Known'
<1>1. CASE ScreenInit
  BY <1>1 DEF ScreenInit, Known, Heads
<1>2. CASE CreateScreenResources
  <2>1. device' = UpdateMonitors(device, crtcs) /\ device.heads = <<>>
    BY <1>2 DEF CreateScreenResources, Known
  <2>2. Tells(device'.heads, crtcs)
    BY <2>1, UpdateMonitorsTells DEF IInv, Shapes
  <2> QED BY <1>2, <2>2 DEF CreateScreenResources, Known, Tells, On, Heads
<1>3. CASE CloseScreen
  BY <1>3 DEF CloseScreen, Known, Heads
<1>4. CASE Resize
  BY <1>4, ResizeKnown
<1>5. CASE SetModeMajor
  BY <1>5, SetModeMajorKnown
<1>6. CASE TurnOff
  BY <1>6, TurnOffKnown
<1>7. CASE LeaveVt
  BY <1>7 DEF LeaveVt, Known, Heads
<1>8. CASE EnterVt
  <2> DEFINE dev == [primary |-> virtual, heads |-> <<>>]
  <2>1. dev = [primary |-> dev.primary, heads |-> dev.heads] /\ dev.heads = <<>>
    OBVIOUS
  <2>2. device' = UpdateMonitors(dev, crtcs)
    BY <1>8 DEF EnterVt
  <2> HIDE DEF dev
  <2>3. Tells(device'.heads, crtcs)
    BY <2>1, <2>2, UpdateMonitorsTells
  <2> QED BY <1>8, <2>3 DEF EnterVt, Known, Tells, On, Heads
<1>9. CASE Frames
  <2>1. UNCHANGED <<deferred, stage, vt, crtcs, device>>
    BY <1>9 DEF Frames, DfpsSolid, DfpsCopy, DfpsAccess, DfpsTicker, modes
  <2> QED BY <2>1 DEF Known, Tells, On, Heads
<1>10. CASE UNCHANGED vars
  <2>1. UNCHANGED <<deferred, stage, vt, crtcs, device>>
    BY <1>10 DEF vars, modes
  <2> QED BY <2>1 DEF Known, Tells, On, Heads
<1> QED BY <1>1, <1>2, <1>3, <1>4, <1>5, <1>6, <1>7, <1>8, <1>9, <1>10 DEF Next

(* While X has the VT, each crtc that is on is a head of the device with   *)
(* its mode and place, and no crtc is two heads, however many crtcs there  *)
(* are and whichever before it went off.                                   *)
THEOREM MonitorsKnownTheorem == ASSUME ScreenAssumption PROVE Spec => []MonitorsKnown
<1>1. Init => Known
  BY InitKnown
<1>2. IInv /\ Known /\ [Next]_vars => Known'
  BY NextKnown
<1>3. Known => MonitorsKnown
  BY KnownImplies
<1> QED BY <1>1, <1>2, <1>3, AlwaysIInv, PTL DEF Spec
=============================================================================
