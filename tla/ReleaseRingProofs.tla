------------------------- MODULE ReleaseRingProofs --------------------------
(***************************************************************************)
(* Proofs about ReleaseRing, for any set of commands, any capacity of the  *)
(* ring, any counter width the capacity divides, any bunch and any memory. *)
(***************************************************************************)
EXTENDS ReleaseRing, FiniteSetTheorems, WellFoundedInduction, TLAPS

-----------------------------------------------------------------------------
(* Chains.  What Chain computes from a head is a set; the proofs need that *)
(* it comes to an end, so they speak of the path through next.             *)

(* Chain, for any function in the place of next.                           *)
Reached(nx, head) ==
  LET Reach[n \in 0 .. Cardinality(Commands)] ==
        IF n = 0 THEN {head}
        ELSE Reach[n - 1] \union {nx[c] : c \in Reach[n - 1] \ {Nil}}
  IN Reach[Cardinality(Commands)] \ {Nil}

(* A path of n commands from head through nx, each met once.               *)
IsPath(nx, head, n, f) ==
  /\ f \in [1 .. n -> Commands]
  /\ \A i, j \in 1 .. n : f[i] = f[j] => i = j
  /\ head = IF n = 0 THEN Nil ELSE f[1]
  /\ \A i \in 1 .. n : nx[f[i]] = IF i = n THEN Nil ELSE f[i + 1]

(* The commands of S, and no others, are on the path from head.            *)
Links(nx, head, S) ==
  \E n \in Nat : \E f \in [1 .. n -> Commands] :
    IsPath(nx, head, n, f) /\ S = {f[i] : i \in 1 .. n}

LEMMA Bounds ==
  ASSUME ReleaseAssumption
  PROVE  /\ IsFiniteSet(Commands) /\ Cardinality(Commands) \in Nat /\ Nil \notin Commands
         /\ NumItems \in Nat /\ NumItems >= 2
         /\ Modulus \in Nat /\ NumItems < Modulus /\ Modulus % NumItems = 0
         /\ Bunch \in Nat \ {0} /\ Memory \in Nat /\ Sizes \subseteq 1 .. Memory
         /\ MaxAttempts \in Nat \ {0} /\ Prompt \in BOOLEAN
BY FS_CardinalityType DEF ReleaseAssumption

LEMMA LeastNumber ==
  ASSUME NEW T \in SUBSET Nat, T # {}
  PROVE  \E n \in T : \A m \in T : n <= m
<1>1. PICK n \in T : \A m \in T : <<m, n>> \notin OpToRel(<, Nat)
  BY NatLessThanWellFounded, WFMin
<1>2. ASSUME NEW m \in T PROVE n <= m
  <2>1. <<m, n>> \notin {ss \in Nat \X Nat : ss[1] < ss[2]}
    BY <1>1, Zenon DEF OpToRel
  <2> QED BY <2>1
<1> QED BY <1>2

(* A path meets no more commands than there are.                           *)
LEMMA PathIsShort ==
  ASSUME ReleaseAssumption, NEW nx, NEW head, NEW n \in Nat,
         NEW f \in [1 .. n -> Commands], IsPath(nx, head, n, f)
  PROVE  n <= Cardinality(Commands)
<1>1. f \in Injection(1 .. n, Commands)
  BY DEF IsPath, Injection, IsInjective
<1>2. IsFiniteSet(1 .. n) /\ Cardinality(1 .. n) = n
  BY FS_Interval
<1>3. Cardinality(1 .. n) <= Cardinality(Commands)
  BY <1>1, Bounds, FS_Injection
<1> QED BY <1>2, <1>3

(* One step of Reach, from what was reached before.                        *)
Step(nx, head, R, n) ==
  IF n = 0 THEN {head} ELSE R[n - 1] \union {nx[c] : c \in R[n - 1] \ {Nil}}

(* What is reached in n steps along a path of len commands.                *)
Along(f, len, n) ==
  {f[i] : i \in {i \in 1 .. len : i <= n + 1}} \union (IF n >= len THEN {Nil} ELSE {})

LEMMA AlongSteps ==
  ASSUME ReleaseAssumption, NEW nx, NEW head, NEW len \in Nat,
         NEW f \in [1 .. len -> Commands], IsPath(nx, head, len, f), NEW n \in Nat, n # 0
  PROVE  Along(f, len, n)
           = Along(f, len, n - 1) \union {nx[c] : c \in Along(f, len, n - 1) \ {Nil}}
<1> DEFINE A == Along(f, len, n)
           B == Along(f, len, n - 1)
<1>1. Nil \notin Commands /\ \A i \in 1 .. len : f[i] \in Commands
  BY Bounds
<1>2. \A i \in 1 .. len : nx[f[i]] = IF i = len THEN Nil ELSE f[i + 1]
  BY DEF IsPath
<1>3. /\ \A x : x \in A <=> (\E i \in 1 .. len : i <= n + 1 /\ x = f[i]) \/ (n >= len /\ x = Nil)
      /\ \A x : x \in B <=> (\E i \in 1 .. len : i <= n /\ x = f[i]) \/ (n - 1 >= len /\ x = Nil)
  BY DEF Along
<1> HIDE DEF A, B
<1>4. ASSUME NEW x \in A PROVE x \in B \/ \E c \in B \ {Nil} : x = nx[c]
  <2>1. CASE \E i \in 1 .. len : i <= n + 1 /\ x = f[i]
    <3>1. PICK i \in 1 .. len : i <= n + 1 /\ x = f[i]
      BY <2>1
    <3>2. CASE i <= n
      BY <1>3, <3>1, <3>2
    <3>3. CASE ~(i <= n)
      <4>1. i = n + 1 /\ n \in 1 .. len /\ n # len
        BY <3>1, <3>3
      <4>2. f[n] \in B /\ f[n] # Nil /\ nx[f[n]] = x
        BY <1>1, <1>2, <1>3, <3>1, <4>1
      <4> QED BY <4>2
    <3> QED BY <3>2, <3>3
  <2>2. CASE n >= len /\ x = Nil
    <3>1. CASE n - 1 >= len
      BY <1>3, <2>2, <3>1
    <3>2. CASE ~(n - 1 >= len)
      <4>1. n = len /\ len \in 1 .. len
        BY <2>2, <3>2
      <4>2. f[len] \in B /\ f[len] # Nil /\ nx[f[len]] = x
        BY <1>1, <1>2, <1>3, <2>2, <4>1
      <4> QED BY <4>2
    <3> QED BY <3>1, <3>2
  <2> QED BY <1>3, <2>1, <2>2
<1>5. ASSUME NEW x \in B PROVE x \in A
  BY <1>3, <1>5
<1>6. ASSUME NEW c \in B \ {Nil} PROVE nx[c] \in A
  <2>1. PICK i \in 1 .. len : i <= n /\ c = f[i]
    BY <1>3
  <2>2. CASE i = len
    BY <1>2, <1>3, <2>1, <2>2
  <2>3. CASE i # len
    <3>1. i + 1 \in 1 .. len /\ i + 1 <= n + 1
      BY <2>1, <2>3
    <3> QED BY <1>2, <1>3, <2>1, <2>3, <3>1
  <2> QED BY <2>2, <2>3
<1>7. A = B \union {nx[c] : c \in B \ {Nil}}
  BY <1>4, <1>5, <1>6
<1> QED BY <1>7 DEF A, B

LEMMA LinksReach ==
  ASSUME ReleaseAssumption, NEW nx, NEW head, NEW S, Links(nx, head, S)
  PROVE  Reached(nx, head) = S
<1>1. PICK len \in Nat : \E f \in [1 .. len -> Commands] :
             IsPath(nx, head, len, f) /\ S = {f[i] : i \in 1 .. len}
  BY DEF Links
<1>2. PICK f \in [1 .. len -> Commands] :
             IsPath(nx, head, len, f) /\ S = {f[i] : i \in 1 .. len}
  BY <1>1
<1> DEFINE K == Cardinality(Commands)
           W == [n \in 0 .. K |-> Along(f, len, n)]
           R == CHOOSE P : P = [n \in 0 .. K |-> Step(nx, head, P, n)]
<1>3. K \in Nat /\ len <= K /\ Nil \notin Commands
  BY <1>2, Bounds, PathIsShort
<1> HIDE DEF K, R
<1>4. Along(f, len, 0) = {head}
  <2>1. head = IF len = 0 THEN Nil ELSE f[1]
    BY <1>2 DEF IsPath
  <2>2. CASE len = 0
    BY <2>1, <2>2 DEF Along
  <2>3. CASE len # 0
    <3>1. {i \in 1 .. len : i <= 0 + 1} = {1} /\ ~(0 >= len)
      BY <2>3
    <3> QED BY <2>1, <2>3, <3>1 DEF Along
  <2> QED BY <2>2, <2>3
<1>5. ASSUME NEW n \in 0 .. K PROVE Along(f, len, n) = Step(nx, head, W, n)
  <2>1. CASE n = 0
    BY <1>4, <2>1 DEF Step
  <2>2. CASE n # 0
    <3>1. n - 1 \in 0 .. K /\ n \in Nat
      BY <1>3, <2>2
    <3>2. W[n - 1] = Along(f, len, n - 1)
      BY <3>1
    <3> HIDE DEF W
    <3>3. Along(f, len, n)
            = Along(f, len, n - 1) \union {nx[c] : c \in Along(f, len, n - 1) \ {Nil}}
      <4>1. n \in Nat
        BY <3>1
      <4> QED BY <1>2, <2>2, <4>1, AlongSteps
    <3> QED BY <2>2, <3>2, <3>3 DEF Step
  <2> QED BY <2>1, <2>2
<1>6. W = [n \in 0 .. K |-> Step(nx, head, W, n)]
  <2> DEFINE V == [n \in 0 .. K |-> Step(nx, head, W, n)]
  <2>1. \A n \in 0 .. K : W[n] = V[n]
    <3>1. \A n \in 0 .. K : V[n] = Step(nx, head, W, n)
      OBVIOUS
    <3>2. \A n \in 0 .. K : W[n] = Along(f, len, n)
      OBVIOUS
    <3> HIDE DEF W, V
    <3> QED BY <1>5, <3>1, <3>2
  <2>2. W = [n \in 0 .. K |-> W[n]] /\ V = [n \in 0 .. K |-> V[n]]
    OBVIOUS
  <2> SUFFICES W = V
    OBVIOUS
  <2> HIDE DEF W, V
  <2> QED BY <2>1, <2>2
<1> HIDE DEF W
<1>7. R = [n \in 0 .. K |-> Step(nx, head, R, n)]
  BY <1>6, Zenon DEF R
<1>8. Reached(nx, head) = R[K] \ {Nil}
  BY DEF Reached, Step, K, R
<1>9. ASSUME NEW n \in 0 .. K PROVE R[n] = Step(nx, head, R, n)
  BY <1>7
<1>10. \A n \in 0 .. K : R[n] = Along(f, len, n)
  <2> DEFINE T == {n \in 0 .. K : R[n] # Along(f, len, n)}
  <2>1. ASSUME T # {} PROVE FALSE
    <3>1. PICK n \in T : \A m \in T : n <= m
      <4>1. T \in SUBSET Nat
        BY <1>3
      <4> HIDE DEF T
      <4> QED BY <2>1, <4>1, LeastNumber
    <3>2. n \in 0 .. K /\ R[n] # Along(f, len, n)
      BY <3>1
    <3>3. n # 0
      <4>1. R[0] = {head}
        <5>1. 0 \in 0 .. K
          BY <1>3
        <5>2. R[0] = Step(nx, head, R, 0)
          BY <1>9, <5>1
        <5> QED BY <5>2 DEF Step
      <4> QED BY <1>4, <3>2, <4>1
    <3>4. n - 1 \in 0 .. K /\ n - 1 \notin T
      BY <1>3, <3>1, <3>2, <3>3
    <3>5. R[n - 1] = Along(f, len, n - 1)
      BY <3>4
    <3>6. R[n] = R[n - 1] \union {nx[c] : c \in R[n - 1] \ {Nil}}
      BY <1>9, <3>2, <3>3 DEF Step
    <3>7. Along(f, len, n)
            = Along(f, len, n - 1) \union {nx[c] : c \in Along(f, len, n - 1) \ {Nil}}
      <4>1. n \in Nat
        BY <1>3, <3>2
      <4> QED BY <1>2, <3>3, <4>1, AlongSteps
    <3> QED BY <3>2, <3>5, <3>6, <3>7
  <2> QED BY <2>1
<1>11. Along(f, len, K) \ {Nil} = {f[i] : i \in 1 .. len}
  <2>1. {i \in 1 .. len : i <= K + 1} = 1 .. len
    BY <1>3
  <2>2. \A i \in 1 .. len : f[i] # Nil
    BY <1>3
  <2> QED BY <1>3, <2>1, <2>2 DEF Along
<1>12. R[K] = Along(f, len, K)
  BY <1>3, <1>10
<1> QED BY <1>2, <1>8, <1>11, <1>12

LEMMA ChainIs == \A head : Chain(head) = Reached(next, head)
BY DEF Chain, Reached

(* What the worker and X do to paths.                                      *)

LEMMA LinksNothing ==
  ASSUME NEW nx
  PROVE  Links(nx, Nil, {})
<1> DEFINE f == [i \in 1 .. 0 |-> Nil]
<1>1. f \in [1 .. 0 -> Commands] /\ {f[i] : i \in 1 .. 0} = {}
  OBVIOUS
<1>2. IsPath(nx, Nil, 0, f)
  BY DEF IsPath
<1> HIDE DEF f
<1> QED BY <1>1, <1>2 DEF Links

LEMMA LinksType ==
  ASSUME ReleaseAssumption, NEW nx, NEW head, NEW S, Links(nx, head, S)
  PROVE  /\ S \subseteq Commands
         /\ head = Nil => S = {}
         /\ head # Nil => head \in S
<1>1. PICK n \in Nat : \E f \in [1 .. n -> Commands] :
             IsPath(nx, head, n, f) /\ S = {f[i] : i \in 1 .. n}
  BY DEF Links
<1>2. PICK f \in [1 .. n -> Commands] :
             IsPath(nx, head, n, f) /\ S = {f[i] : i \in 1 .. n}
  BY <1>1
<1>3. head = IF n = 0 THEN Nil ELSE f[1]
  BY <1>2 DEF IsPath
<1>4. Nil \notin Commands
  BY Bounds
<1>5. CASE n = 0
  BY <1>2, <1>3, <1>5
<1>6. CASE n # 0
  <2>1. 1 \in 1 .. n
    BY <1>6
  <2> QED BY <1>2, <1>3, <1>4, <1>6, <2>1
<1> QED BY <1>5, <1>6

(* A path is as it was when next changes elsewhere.                        *)
LEMMA LinksKept ==
  ASSUME NEW nx, NEW ny, NEW head, NEW S, Links(nx, head, S), \A c \in S : ny[c] = nx[c]
  PROVE  Links(ny, head, S)
<1>1. PICK n \in Nat : \E f \in [1 .. n -> Commands] :
             IsPath(nx, head, n, f) /\ S = {f[i] : i \in 1 .. n}
  BY DEF Links
<1>2. PICK f \in [1 .. n -> Commands] :
             IsPath(nx, head, n, f) /\ S = {f[i] : i \in 1 .. n}
  BY <1>1
<1>3. \A i \in 1 .. n : ny[f[i]] = nx[f[i]]
  BY <1>2
<1>4. IsPath(ny, head, n, f)
  BY <1>2, <1>3 DEF IsPath
<1> QED BY <1>2, <1>4 DEF Links

LEMMA LinksOne ==
  ASSUME NEW nx \in [Commands -> Id], NEW c \in Commands
  PROVE  Links([nx EXCEPT ![c] = Nil], c, {c})
<1> DEFINE f == [i \in 1 .. 1 |-> c]
           ny == [nx EXCEPT ![c] = Nil]
<1>1. f \in [1 .. 1 -> Commands] /\ {f[i] : i \in 1 .. 1} = {c}
  OBVIOUS
<1>2. f[1] = c /\ ny[c] = Nil
  OBVIOUS
<1> HIDE DEF f, ny
<1>3. IsPath(ny, c, 1, f)
  BY <1>1, <1>2 DEF IsPath
<1>4. Links(ny, c, {c})
  BY <1>1, <1>3 DEF Links
<1> QED BY <1>4 DEF ny

(* A command is appended behind the last one of a path.                    *)
LEMMA LinksAppend ==
  ASSUME ReleaseAssumption, NEW nx \in [Commands -> Id], NEW head, NEW S,
         Links(nx, head, S), NEW l \in S, nx[l] = Nil, NEW c \in Commands, c \notin S
  PROVE  Links([nx EXCEPT ![l] = c, ![c] = Nil], head, S \union {c})
<1> DEFINE ny == [nx EXCEPT ![l] = c, ![c] = Nil]
<1>1. PICK n \in Nat : \E f \in [1 .. n -> Commands] :
             IsPath(nx, head, n, f) /\ S = {f[i] : i \in 1 .. n}
  BY DEF Links
<1>2. PICK f \in [1 .. n -> Commands] :
             IsPath(nx, head, n, f) /\ S = {f[i] : i \in 1 .. n}
  BY <1>1
<1>3. /\ \A i, j \in 1 .. n : f[i] = f[j] => i = j
      /\ head = IF n = 0 THEN Nil ELSE f[1]
      /\ \A i \in 1 .. n : nx[f[i]] = IF i = n THEN Nil ELSE f[i + 1]
  BY <1>2 DEF IsPath
<1>4. Nil \notin Commands /\ S \subseteq Commands
  BY <1>2, Bounds
<1>5. n \in 1 .. n /\ f[n] = l
  <2>1. PICK i \in 1 .. n : f[i] = l
    BY <1>2
  <2>2. CASE i # n
    <3>1. i + 1 \in 1 .. n /\ nx[l] = f[i + 1]
      BY <1>3, <2>1, <2>2
    <3> QED BY <1>4, <3>1
  <2>3. CASE i = n
    BY <2>1, <2>3
  <2> QED BY <2>2, <2>3
<1>6. /\ \A i \in 1 .. n : f[i] # c
      /\ ny[c] = Nil /\ ny[l] = c
      /\ \A d \in Commands \ {l, c} : ny[d] = nx[d]
  BY <1>2, <1>4
<1> HIDE DEF ny
<1> DEFINE g == [i \in 1 .. n + 1 |-> IF i = n + 1 THEN c ELSE f[i]]
<1>7. g \in [1 .. n + 1 -> Commands] /\ g[n + 1] = c /\ \A i \in 1 .. n : g[i] = f[i]
  OBVIOUS
<1> HIDE DEF g
<1>8. {g[i] : i \in 1 .. n + 1} = S \union {c}
  <2>1. \A i \in 1 .. n + 1 : i = n + 1 \/ i \in 1 .. n
    OBVIOUS
  <2>2. \A i \in 1 .. n : i \in 1 .. n + 1
    OBVIOUS
  <2>3. n + 1 \in 1 .. n + 1
    OBVIOUS
  <2> QED BY <1>2, <1>7, <2>1, <2>2, <2>3
<1>9. IsPath(ny, head, n + 1, g)
  <2>1. \A i, j \in 1 .. n + 1 : g[i] = g[j] => i = j
    BY <1>3, <1>6, <1>7
  <2>2. head = g[1]
    BY <1>3, <1>5, <1>7
  <2>3. ASSUME NEW i \in 1 .. n + 1 PROVE ny[g[i]] = IF i = n + 1 THEN Nil ELSE g[i + 1]
    <3>1. CASE i = n + 1
      BY <1>6, <1>7, <3>1
    <3>2. CASE i = n
      BY <1>5, <1>6, <1>7, <3>2
    <3>3. CASE i \in 1 .. n - 1
      <4>1. i \in 1 .. n /\ i # n /\ i + 1 \in 1 .. n
        BY <3>3
      <4>2. f[i] \in Commands \ {l, c}
        BY <1>3, <1>5, <1>6, <4>1
      <4>3. nx[f[i]] = f[i + 1] /\ g[i] = f[i] /\ g[i + 1] = f[i + 1]
        BY <1>3, <1>7, <4>1
      <4> QED BY <1>6, <4>1, <4>2, <4>3
    <3> QED BY <3>1, <3>2, <3>3
  <2> QED BY <1>7, <2>1, <2>2, <2>3 DEF IsPath
<1>10. Links(ny, head, S \union {c})
  <2>1. n + 1 \in Nat
    OBVIOUS
  <2> QED BY <1>7, <1>8, <1>9, <2>1, Zenon DEF Links
<1> QED BY <1>10 DEF ny

(* Without its head a path begins at the next command.                     *)
LEMMA LinksTail ==
  ASSUME ReleaseAssumption, NEW nx, NEW head, NEW S, Links(nx, head, S), head # Nil
  PROVE  Links(nx, nx[head], S \ {head})
<1>1. PICK n \in Nat : \E f \in [1 .. n -> Commands] :
             IsPath(nx, head, n, f) /\ S = {f[i] : i \in 1 .. n}
  BY DEF Links
<1>2. PICK f \in [1 .. n -> Commands] :
             IsPath(nx, head, n, f) /\ S = {f[i] : i \in 1 .. n}
  BY <1>1
<1>3. /\ \A i, j \in 1 .. n : f[i] = f[j] => i = j
      /\ head = IF n = 0 THEN Nil ELSE f[1]
      /\ \A i \in 1 .. n : nx[f[i]] = IF i = n THEN Nil ELSE f[i + 1]
  BY <1>2 DEF IsPath
<1>4. n \in 1 .. n /\ head = f[1] /\ 1 \in 1 .. n /\ n - 1 \in Nat
  BY <1>3
<1> DEFINE g == [i \in 1 .. n - 1 |-> f[i + 1]]
<1>5. g \in [1 .. n - 1 -> Commands] /\ \A i \in 1 .. n - 1 : g[i] = f[i + 1]
  <2>1. \A i \in 1 .. n - 1 : f[i + 1] \in Commands
    BY <1>4
  <2> QED BY <2>1
<1> HIDE DEF g
<1>6. {g[i] : i \in 1 .. n - 1} = S \ {head}
  <2>1. ASSUME NEW i \in 1 .. n - 1 PROVE g[i] \in S \ {head}
    <3>1. i + 1 \in 1 .. n /\ i + 1 # 1
      BY <1>4
    <3> QED BY <1>2, <1>3, <1>4, <1>5, <3>1
  <2>2. ASSUME NEW c \in S \ {head} PROVE \E i \in 1 .. n - 1 : c = g[i]
    <3>1. PICK i \in 1 .. n : c = f[i]
      BY <1>2
    <3>2. i # 1
      BY <1>4, <3>1
    <3>3. i - 1 \in 1 .. n - 1 /\ (i - 1) + 1 = i
      BY <3>2
    <3> QED BY <1>5, <3>1, <3>3
  <2> QED BY <2>1, <2>2
<1>7. IsPath(nx, nx[head], n - 1, g)
  <2>1. ASSUME NEW i \in 1 .. n - 1, NEW j \in 1 .. n - 1, g[i] = g[j] PROVE i = j
    <3>1. i + 1 \in 1 .. n /\ j + 1 \in 1 .. n
      BY <1>4
    <3>2. i + 1 = j + 1
      BY <1>3, <1>5, <2>1, <3>1
    <3> QED BY <3>2
  <2>2. nx[head] = IF n - 1 = 0 THEN Nil ELSE g[1]
    <3>1. CASE n = 1
      BY <1>3, <1>4, <3>1
    <3>2. CASE n # 1
      <4>1. 1 \in 1 .. n - 1
        BY <1>4, <3>2
      <4> QED BY <1>3, <1>4, <1>5, <3>2, <4>1
    <3> QED BY <3>1, <3>2
  <2>3. ASSUME NEW i \in 1 .. n - 1
        PROVE  nx[g[i]] = IF i = n - 1 THEN Nil ELSE g[i + 1]
    <3>1. i + 1 \in 1 .. n /\ g[i] = f[i + 1]
      BY <1>4, <1>5
    <3>2. CASE i = n - 1
      <4>1. i + 1 = n
        BY <1>4, <3>2
      <4> QED BY <1>3, <3>1, <3>2, <4>1
    <3>3. CASE i # n - 1
      <4>1. i + 1 # n /\ i + 1 \in 1 .. n - 1
        BY <1>4, <3>3
      <4> QED BY <1>3, <1>5, <3>1, <3>3, <4>1
    <3> QED BY <3>2, <3>3
  <2> QED BY <1>5, <2>1, <2>2, <2>3 DEF IsPath
<1> QED BY <1>4, <1>5, <1>6, <1>7, Zenon DEF Links

-----------------------------------------------------------------------------
(* Counters that wrap at Modulus and slots taken modulo NumItems.          *)

Counter == 0 .. Modulus - 1

LEMMA Division ==
  ASSUME ReleaseAssumption, NEW a \in Int
  PROVE  /\ a \div NumItems \in Int
         /\ a % NumItems \in 0 .. NumItems - 1
         /\ a = NumItems * (a \div NumItems) + (a % NumItems)
<1>1. NumItems \in Nat \ {0}
  BY Bounds
<1> QED BY <1>1

LEMMA NextMultiple ==
  ASSUME ReleaseAssumption, NEW k \in Int, NEW m \in Int, k > m
  PROVE  NumItems * k >= NumItems * m + NumItems
<1>0. NumItems \in Nat
  BY Bounds
<1>1. NumItems * (k - m - 1) >= 0
  BY <1>0, SMT
<1>2. NumItems * (k - m - 1) = NumItems * k - NumItems * m - NumItems
  BY <1>0, SMT
<1> QED BY <1>0, <1>1, <1>2, SMT

(* Numbers less than NumItems apart have different remainders.             *)
LEMMA SlotsDiffer ==
  ASSUME ReleaseAssumption, NEW a \in Int, NEW d \in 1 .. NumItems - 1
  PROVE  Slot(a + d) # Slot(a)
<1> SUFFICES ASSUME (a + d) % NumItems = a % NumItems PROVE FALSE
  BY DEF Slot
<1> DEFINE q == a \div NumItems
           k == (a + d) \div NumItems
           r == a % NumItems
<1>0. NumItems \in Nat /\ a + d \in Int
  BY Bounds
<1>1. /\ q \in Int /\ r \in 0 .. NumItems - 1
      /\ a = NumItems * q + r
  BY Division
<1>2. k \in Int /\ a + d = NumItems * k + ((a + d) % NumItems)
  BY <1>0, Division
<1>3. a + d = NumItems * k + r
  BY <1>2
<1> HIDE DEF q, k, r
<1>4. CASE q = k BY <1>0, <1>1, <1>2, <1>3, <1>4
<1>5. CASE q > k BY <1>0, <1>1, <1>2, <1>3, <1>5, NextMultiple
<1>6. CASE q < k BY <1>0, <1>1, <1>2, <1>3, <1>6, NextMultiple
<1> QED BY <1>1, <1>2, <1>4, <1>5, <1>6

LEMMA SlotType ==
  ASSUME ReleaseAssumption, NEW a \in Int
  PROVE  Slot(a) \in 0 .. NumItems - 1
BY Division DEF Slot

(* The wrap of a counter does not move its slot.                           *)
LEMMA SlotWrap ==
  ASSUME ReleaseAssumption, NEW a \in Int
  PROVE  Slot(a + Modulus) = Slot(a)
<1> DEFINE q == a \div NumItems
           k == Modulus \div NumItems
           r == a % NumItems
           t == (a + Modulus) \div NumItems
           u == (a + Modulus) % NumItems
<1>0. NumItems \in Nat /\ Modulus \in Nat /\ Modulus % NumItems = 0 /\ a + Modulus \in Int
  BY Bounds
<1>1. q \in Int /\ a = NumItems * q + r /\ r \in 0 .. NumItems - 1
  BY Division
<1>2. k \in Int /\ Modulus = NumItems * k
  <2>1. Modulus = NumItems * k + (Modulus % NumItems) /\ k \in Int
    BY <1>0, Division
  <2> HIDE DEF k
  <2>2. NumItems * k \in Int
    BY <1>0, <2>1
  <2> QED BY <1>0, <2>1, <2>2
<1>3. t \in Int /\ a + Modulus = NumItems * t + u /\ u \in 0 .. NumItems - 1
  BY <1>0, Division
<1> HIDE DEF q, k, r, t, u
<1>4. NumItems * (q + k) = NumItems * q + NumItems * k /\ q + k \in Int
  BY <1>0, <1>1, <1>2, SMT
<1>5. a + Modulus = NumItems * (q + k) + r
  BY <1>0, <1>1, <1>2, <1>4
<1>6. u = r
  <2>1. CASE t = q + k
    BY <1>0, <1>1, <1>3, <1>5, <2>1
  <2>2. CASE t > q + k
    BY <1>0, <1>1, <1>3, <1>4, <1>5, <2>2, NextMultiple
  <2>3. CASE t < q + k
    BY <1>0, <1>1, <1>3, <1>4, <1>5, <2>3, NextMultiple
  <2> QED BY <1>3, <1>4, <2>1, <2>2, <2>3
<1> QED BY <1>6 DEF r, u, Slot

(* Modular successor and distance, without the modulus.                    *)
LEMMA IncIs ==
  ASSUME ReleaseAssumption, NEW c \in Counter
  PROVE  /\ Inc(c) \in Counter
         /\ Inc(c) = IF c = Modulus - 1 THEN 0 ELSE c + 1
<1>1. Modulus \in Nat /\ Modulus > 2
  BY Bounds
<1> QED BY <1>1 DEF Counter, Inc

LEMMA DistanceIs ==
  ASSUME ReleaseAssumption, NEW p \in Counter, NEW c \in Counter
  PROVE  /\ (p - c) % Modulus = IF p >= c THEN p - c ELSE p - c + Modulus
         /\ (p - c) % Modulus \in Counter
<1>1. Modulus \in Nat /\ Modulus > 2
  BY Bounds
<1> QED BY <1>1 DEF Counter

LEMMA DistanceAfter ==
  ASSUME ReleaseAssumption, NEW p \in Counter, NEW c \in Counter
  PROVE  /\ p = c <=> (p - c) % Modulus = 0
         /\ (p - c) % Modulus < Modulus - 1 =>
              (Inc(p) - c) % Modulus = ((p - c) % Modulus) + 1
         /\ p # c => (p - Inc(c)) % Modulus = ((p - c) % Modulus) - 1
<1> DEFINE n == Inc(p)
           m == Inc(c)
<1>1. /\ n \in Counter /\ n = IF p = Modulus - 1 THEN 0 ELSE p + 1
      /\ m \in Counter /\ m = IF c = Modulus - 1 THEN 0 ELSE c + 1
  BY IncIs
<1> HIDE DEF n, m
<1>2. /\ (p - c) % Modulus = IF p >= c THEN p - c ELSE p - c + Modulus
      /\ (n - c) % Modulus = IF n >= c THEN n - c ELSE n - c + Modulus
      /\ (p - m) % Modulus = IF p >= m THEN p - m ELSE p - m + Modulus
  BY <1>1, DistanceIs
<1>3. Modulus \in Nat /\ Modulus > 2
  BY Bounds
<1> DEFINE x == (p - c) % Modulus
           y == (n - c) % Modulus
           z == (p - m) % Modulus
<1>4. /\ x = IF p >= c THEN p - c ELSE p - c + Modulus
      /\ y = IF n >= c THEN n - c ELSE n - c + Modulus
      /\ z = IF p >= m THEN p - m ELSE p - m + Modulus
  BY <1>2
<1> HIDE DEF x, y, z
<1>5. /\ p = c <=> x = 0
      /\ x < Modulus - 1 => y = x + 1
      /\ p # c => z = x - 1
  BY <1>1, <1>3, <1>4 DEF Counter
<1> QED BY <1>5 DEF x, y, z, n, m

(* The slots of a ring of which n are unread, and the one after them.      *)
LEMMA SlotOfInc ==
  ASSUME ReleaseAssumption, NEW c \in Counter, NEW i \in Nat
  PROVE  Slot(Inc(c) + i) = Slot(c + 1 + i)
<1>0. Modulus \in Nat
  BY Bounds
<1>1. CASE c = Modulus - 1
  <2>1. Inc(c) + i = i /\ c + 1 + i = i + Modulus
    BY <1>0, <1>1, IncIs
  <2> QED BY <2>1, SlotWrap
<1>2. CASE c # Modulus - 1
  <2>1. Inc(c) + i = c + 1 + i
    BY <1>0, <1>2, IncIs
  <2> QED BY <2>1
<1> QED BY <1>1, <1>2

LEMMA SlotOfProd ==
  ASSUME ReleaseAssumption, NEW p \in Counter, NEW c \in Counter
  PROVE  Slot(p) = Slot(c + ((p - c) % Modulus))
<1> DEFINE u == (p - c) % Modulus
<1>1. u = IF p >= c THEN p - c ELSE p - c + Modulus
  BY DistanceIs
<1> HIDE DEF u
<1>2. Modulus \in Nat /\ p \in Int /\ c \in Int
  BY Bounds DEF Counter
<1>3. CASE p >= c
  <2>1. c + u = p
    BY <1>1, <1>2, <1>3
  <2> QED BY <2>1 DEF u
<1>4. CASE ~(p >= c)
  <2>1. c + u = p + Modulus
    BY <1>1, <1>2, <1>4
  <2> QED BY <1>2, <2>1, SlotWrap DEF u
<1> QED BY <1>3, <1>4

Distance(p, c) == (p - c) % Modulus

SlotsOf(p, c) == {Slot(c + i) : i \in 0 .. Distance(p, c) - 1}

LEMMA DistanceType ==
  ASSUME ReleaseAssumption, NEW p \in Counter, NEW c \in Counter
  PROVE  /\ Distance(p, c) \in Counter /\ Distance(p, c) \in Nat
         /\ p = c <=> Distance(p, c) = 0
<1>1. Distance(p, c) \in Counter
  BY DistanceIs DEF Distance
<1>2. p = c <=> Distance(p, c) = 0
  BY DistanceAfter DEF Distance
<1>3. Counter \subseteq Nat
  BY DEF Counter
<1> QED BY <1>1, <1>2, <1>3

LEMMA SlotsOfType ==
  ASSUME ReleaseAssumption, NEW p \in Counter, NEW c \in Counter
  PROVE  SlotsOf(p, c) \subseteq 0 .. NumItems - 1
<1>1. \A i \in Nat : c + i \in Int
  BY DEF Counter
<1>2. \A i \in 0 .. Distance(p, c) - 1 : i \in Nat
  OBVIOUS
<1> QED BY <1>1, <1>2, SlotType DEF SlotsOf

(* The slot that is filled next is none of the unread ones.                *)
LEMMA FreeSlot ==
  ASSUME ReleaseAssumption, NEW p \in Counter, NEW c \in Counter,
         Distance(p, c) <= NumItems - 1
  PROVE  Slot(p) \notin SlotsOf(p, c)
<1> DEFINE u == Distance(p, c)
<1>1. u \in Nat /\ u <= NumItems - 1 /\ c \in Int /\ NumItems \in Nat
  BY DistanceType, Bounds DEF Counter
<1>2. Slot(p) = Slot(c + u)
  BY SlotOfProd DEF Distance
<1>3. SlotsOf(p, c) = {Slot(c + i) : i \in 0 .. u - 1}
  BY DEF SlotsOf
<1> HIDE DEF u
<1>4. ASSUME NEW i \in 0 .. u - 1 PROVE Slot(c + i) # Slot(p)
  <2>1. c + i \in Int /\ u - i \in 1 .. NumItems - 1 /\ (c + i) + (u - i) = c + u
    BY <1>1
  <2>2. Slot((c + i) + (u - i)) # Slot(c + i)
    BY <2>1, SlotsDiffer
  <2> QED BY <1>2, <2>1, <2>2
<1> QED BY <1>3, <1>4

LEMMA SlotsAfterPush ==
  ASSUME ReleaseAssumption, NEW p \in Counter, NEW c \in Counter,
         Distance(p, c) <= NumItems - 2
  PROVE  /\ Distance(Inc(p), c) = Distance(p, c) + 1
         /\ SlotsOf(Inc(p), c) = SlotsOf(p, c) \union {Slot(p)}
<1> DEFINE u == Distance(p, c)
<1>1. u \in Nat /\ u <= NumItems - 2 /\ NumItems \in Nat /\ Modulus \in Nat /\ NumItems < Modulus
  BY DistanceType, Bounds
<1>2. Distance(Inc(p), c) = u + 1
  <2>1. u < Modulus - 1
    BY <1>1
  <2> QED BY <2>1, DistanceAfter DEF Distance
<1>3. Slot(p) = Slot(c + u)
  BY SlotOfProd DEF Distance
<1>4. /\ SlotsOf(p, c) = {Slot(c + i) : i \in 0 .. u - 1}
      /\ SlotsOf(Inc(p), c) = {Slot(c + i) : i \in 0 .. (u + 1) - 1}
  BY <1>2 DEF SlotsOf
<1> HIDE DEF u
<1>5. 0 .. (u + 1) - 1 = (0 .. u - 1) \union {u}
  BY <1>1
<1>6. SlotsOf(Inc(p), c) = SlotsOf(p, c) \union {Slot(p)}
  BY <1>3, <1>4, <1>5
<1> QED BY <1>2, <1>6 DEF u

LEMMA SlotsAfterPop ==
  ASSUME ReleaseAssumption, NEW p \in Counter, NEW c \in Counter,
         Distance(p, c) <= NumItems - 1, p # c
  PROVE  /\ Distance(p, Inc(c)) = Distance(p, c) - 1
         /\ Slot(c) \in SlotsOf(p, c)
         /\ SlotsOf(p, Inc(c)) = SlotsOf(p, c) \ {Slot(c)}
<1> DEFINE u == Distance(p, c)
<1>1. u \in Nat /\ u # 0 /\ u <= NumItems - 1 /\ NumItems \in Nat /\ c \in Int
  BY DistanceType, Bounds DEF Counter
<1>2. Distance(p, Inc(c)) = u - 1
  BY DistanceAfter DEF Distance
<1>3. /\ SlotsOf(p, c) = {Slot(c + i) : i \in 0 .. u - 1}
      /\ SlotsOf(p, Inc(c)) = {Slot(Inc(c) + i) : i \in 0 .. (u - 1) - 1}
  BY <1>2 DEF SlotsOf
<1> HIDE DEF u
<1>4. Slot(c) \in SlotsOf(p, c)
  <2>1. 0 \in 0 .. u - 1 /\ c + 0 = c
    BY <1>1
  <2> QED BY <1>3, <2>1
<1>5. ASSUME NEW i \in 0 .. (u - 1) - 1
      PROVE  /\ Slot(Inc(c) + i) = Slot(c + (i + 1)) /\ i + 1 \in 0 .. u - 1
             /\ Slot(Inc(c) + i) # Slot(c)
  <2>1. i \in Nat /\ i + 1 \in 0 .. u - 1 /\ i + 1 \in 1 .. NumItems - 1 /\ c + 1 + i = c + (i + 1)
    BY <1>1
  <2>2. Slot(Inc(c) + i) = Slot(c + (i + 1))
    BY <2>1, SlotOfInc
  <2>3. Slot(c + (i + 1)) # Slot(c)
    BY <1>1, <2>1, SlotsDiffer
  <2> QED BY <2>1, <2>2, <2>3
<1>6. ASSUME NEW i \in 0 .. u - 1, Slot(c + i) # Slot(c)
      PROVE  \E k \in 0 .. (u - 1) - 1 : Slot(c + i) = Slot(Inc(c) + k)
  <2>1. i # 0
    <3>1. c + 0 = c
      BY <1>1
    <3> QED BY <1>6, <3>1
  <2>2. i - 1 \in 0 .. (u - 1) - 1 /\ (i - 1) + 1 = i
    BY <1>1, <2>1
  <2>3. Slot(Inc(c) + (i - 1)) = Slot(c + ((i - 1) + 1))
    BY <1>5, <2>2
  <2> QED BY <2>2, <2>3
<1>7. SlotsOf(p, Inc(c)) = SlotsOf(p, c) \ {Slot(c)}
  <2>1. ASSUME NEW x \in SlotsOf(p, Inc(c)) PROVE x \in SlotsOf(p, c) \ {Slot(c)}
    BY <1>3, <1>5
  <2>2. ASSUME NEW x \in SlotsOf(p, c) \ {Slot(c)} PROVE x \in SlotsOf(p, Inc(c))
    BY <1>3, <1>6
  <2> QED BY <2>1, <2>2
<1> QED BY <1>2, <1>4, <1>7 DEF u

-----------------------------------------------------------------------------
(* The inductive invariant.                                                *)

(* The ring never fills: its last slot is the worker's.                    *)
Ring ==
  /\ Distance(prod, cons) <= NumItems - 1
  /\ wpc = "push" => Distance(prod, cons) <= NumItems - 2
  /\ xpc = "pop" => prod # cons /\ xid = slots[Slot(cons)]

(* Each unread slot i begins the path of the commands Q[i], the slot the   *)
(* worker fills that of B, and X is on a path with W left of it.           *)
Queued(Q) ==
  /\ Q \in [SlotsOf(prod, cons) -> SUBSET Commands]
  /\ \A i \in SlotsOf(prod, cons) : Links(next, slots[i], Q[i])

Built(B) ==
  IF wpc = "clear" THEN B = {}
  ELSE /\ Links(next, slots[Slot(prod)], B)
       /\ numFree = Cardinality(B)
       /\ IF numFree = 0 THEN last = Nil ELSE last \in B /\ next[last] = Nil

Walked(W) == IF xpc = "walk" THEN Links(next, xid, W) ELSE W = {}

(* These are apart, and have all that was released and not yet freed.      *)
Apart(Q, B, W) ==
  /\ \A i \in DOMAIN Q : Q[i] \intersect (B \union W) = {}
  /\ \A i, j \in DOMAIN Q : i # j => Q[i] \intersect Q[j] = {}
  /\ B \intersect W = {}

Covers(Q, B, W) ==
  \A c \in Commands : owner[c] = "chain" <=> c \in B \/ c \in W \/ \E i \in DOMAIN Q : c \in Q[i]

Hold(Q, B, W) == Queued(Q) /\ Built(B) /\ Walked(W) /\ Apart(Q, B, W) /\ Covers(Q, B, W)

Held == \E Q, B, W : Hold(Q, B, W)

(* Memory is free or a command's, one pair for each of its units.          *)
Taken(sz) == {u \in Commands \X (1 .. Memory) : u[2] <= sz[u[1]]}

Budget ==
  /\ avail + Cardinality(Taken(size)) = Memory
  /\ \A c \in Commands : owner[c] = "nobody" => size[c] = 0

(* What a collection counts is with nobody now; X has not given up yet.     *)
Unused(own) == {c \in Commands : own[c] = "nobody"}

Counted ==
  /\ xpc \in {"gc", "pop", "walk"} => xcount <= Cardinality(Unused(owner))
  /\ xpc # "exit" => attempts < MaxAttempts

IInv == TypeOK /\ Ring /\ Held /\ Budget /\ Counted

LEMMA TakenIsFinite ==
  ASSUME ReleaseAssumption, NEW sz
  PROVE  IsFiniteSet(Taken(sz)) /\ Cardinality(Taken(sz)) \in Nat
<1>1. IsFiniteSet(Commands) /\ IsFiniteSet(1 .. Memory)
  BY Bounds, FS_Interval
<1>2. IsFiniteSet(Commands \X (1 .. Memory))
  BY <1>1, FS_Product
<1>3. Taken(sz) \in SUBSET (Commands \X (1 .. Memory))
  BY DEF Taken
<1> QED BY <1>2, <1>3, FS_Subset, FS_CardinalityType

LEMMA UnusedIsFinite ==
  ASSUME ReleaseAssumption, NEW own
  PROVE  /\ IsFiniteSet(Unused(own)) /\ Cardinality(Unused(own)) \in Nat
         /\ Cardinality(Unused(own)) <= Cardinality(Commands)
<1>1. Unused(own) \in SUBSET Commands
  BY DEF Unused
<1> QED BY <1>1, Bounds, FS_Subset, FS_CardinalityType

LEMMA InvariantImplies ==
  ASSUME ReleaseAssumption, IInv
  PROVE  ReleasedOnce /\ BuildingIntact
<1>1. PICK Q, B, W : Hold(Q, B, W)
  BY DEF IInv, Held
<1>2. /\ Queued(Q) /\ Built(B) /\ Walked(W) /\ Apart(Q, B, W) /\ Covers(Q, B, W)
      /\ DOMAIN Q = SlotsOf(prod, cons)
  BY <1>1 DEF Hold, Queued
<1>3. Published = SlotsOf(prod, cons)
  BY DEF Published, Used, SlotsOf, Distance
<1>4. \A i \in Published : Chain(slots[i]) = Q[i]
  <2>1. ASSUME NEW i \in Published PROVE Chain(slots[i]) = Q[i]
    <3>1. Links(next, slots[i], Q[i])
      BY <1>2, <1>3 DEF Queued
    <3> QED BY <3>1, LinksReach, ChainIs
  <2> QED BY <2>1
<1>5. Building = B
  <2>1. CASE wpc = "clear"
    BY <1>2, <2>1 DEF Building, Built
  <2>2. CASE wpc # "clear"
    <3>1. Links(next, slots[Slot(prod)], B)
      BY <1>2, <2>2 DEF Built
    <3>2. Chain(slots[Slot(prod)]) = B
      BY <3>1, LinksReach, ChainIs
    <3> QED BY <2>2, <3>2 DEF Building
  <2> QED BY <2>1, <2>2
<1>6. Walking = W
  <2>1. CASE xpc # "walk"
    BY <1>2, <2>1 DEF Walking, Walked
  <2>2. CASE xpc = "walk"
    <3>1. Links(next, xid, W)
      BY <1>2, <2>2 DEF Walked
    <3>2. Chain(xid) = W
      BY <3>1, LinksReach, ChainIs
    <3> QED BY <2>2, <3>2 DEF Walking
  <2> QED BY <2>1, <2>2
<1>7. /\ B \subseteq Commands /\ W \subseteq Commands
      /\ \A i \in Published : Q[i] \subseteq Commands
  <2>1. B \subseteq Commands
    BY <1>2, LinksType DEF Built
  <2>2. W \subseteq Commands
    BY <1>2, LinksType DEF Walked
  <2> QED BY <1>2, <1>3, <2>1, <2>2 DEF Queued
<1>8. ReleasedOnce
  <2>1. {c \in Commands : owner[c] = "chain"} = B \union W \union UNION {Q[i] : i \in Published}
    BY <1>2, <1>3, <1>7 DEF Covers
  <2>2. UNION {Chain(slots[i]) : i \in Published} = UNION {Q[i] : i \in Published}
    BY <1>4
  <2>3. /\ B \intersect W = {}
        /\ \A i \in Published :
             /\ Q[i] \intersect (B \union W) = {}
             /\ \A j \in Published \ {i} : Q[i] \intersect Q[j] = {}
    BY <1>2, <1>3 DEF Apart
  <2> QED BY <1>4, <1>5, <1>6, <2>1, <2>2, <2>3 DEF ReleasedOnce
<1>9. BuildingIntact
  <2>1. Slot(prod) \notin Published
    <3>1. prod \in Counter /\ cons \in Counter /\ Distance(prod, cons) <= NumItems - 1
      BY DEF IInv, TypeOK, Counter, Ring
    <3> QED BY <1>3, <3>1, FreeSlot
  <2> QED BY <1>2, <1>5, <2>1 DEF BuildingIntact, Built
<1> QED BY <1>8, <1>9

-----------------------------------------------------------------------------
(* Every step keeps the invariant.                                         *)

LEMMA InitInvariant == ASSUME ReleaseAssumption, ReleaseInit PROVE IInv
<1>1. /\ NumItems \in Nat /\ NumItems >= 2 /\ Modulus \in Nat /\ NumItems < Modulus
      /\ Memory \in Nat /\ MaxAttempts \in Nat \ {0} /\ Cardinality(Commands) \in Nat
  BY Bounds
<1>2. prod = 0 /\ cons = 0 /\ 0 \in Counter
  BY <1>1 DEF ReleaseInit, Counter
<1>3. Distance(prod, cons) = 0
  BY <1>2, DistanceType
<1>4. TypeOK
  <2>1. /\ slots \in [0 .. NumItems - 1 -> Id] /\ next \in [Commands -> Id]
        /\ size \in [Commands -> 0 .. Memory]
        /\ owner \in [Commands -> {"nobody", "device", "chain"}]
    BY <1>1 DEF ReleaseInit, Id
  <2>2. /\ last \in Id /\ xid \in Id /\ xneed \in Sizes \union {0}
        /\ attempts \in 0 .. MaxAttempts /\ avail \in 0 .. Memory
        /\ numFree \in 0 .. Cardinality(Commands) /\ xcount \in 0 .. Cardinality(Commands)
    BY <1>1 DEF ReleaseInit, Id
  <2>3. prod \in 0 .. Modulus - 1 /\ cons \in 0 .. Modulus - 1
    BY <1>2 DEF Counter
  <2>4. /\ wpc = "top" /\ wflush \in BOOLEAN /\ oom = "none" /\ xpc = "idle" /\ xback = "try"
    BY DEF ReleaseInit
  <2> QED BY <2>1, <2>2, <2>3, <2>4 DEF TypeOK
<1>5. Ring
  BY <1>1, <1>3 DEF Ring, ReleaseInit
<1>6. Held
  <2> DEFINE Q == [i \in {} |-> {}]
  <2>1. SlotsOf(prod, cons) = {}
    BY <1>3 DEF SlotsOf
  <2>2. DOMAIN Q = {} /\ Q \in [SlotsOf(prod, cons) -> SUBSET Commands]
    BY <2>1
  <2> HIDE DEF Q
  <2>3. Queued(Q)
    BY <2>1, <2>2 DEF Queued
  <2>4. Built({})
    <3>1. slots[Slot(prod)] = Nil
      <4>1. prod \in Int
        BY <1>2
      <4> QED BY <4>1, SlotType DEF ReleaseInit
    <3> QED BY <3>1, LinksNothing, FS_EmptySet DEF Built, ReleaseInit
  <2>5. Walked({}) /\ Apart(Q, {}, {}) /\ Covers(Q, {}, {})
    BY <2>2 DEF Walked, Apart, Covers, ReleaseInit
  <2> QED BY <2>3, <2>4, <2>5 DEF Hold, Held
<1>7. Budget
  <2>1. \A c \in Commands : size[c] = 0
    BY DEF ReleaseInit
  <2>2. Taken(size) = {}
    BY <1>1, <2>1 DEF Taken
  <2>3. Cardinality(Taken(size)) = 0
    BY <2>2, FS_EmptySet
  <2> QED BY <1>1, <2>1, <2>3 DEF Budget, ReleaseInit
<1>8. Counted
  BY <1>1 DEF Counted, ReleaseInit
<1> QED BY <1>4, <1>5, <1>6, <1>7, <1>8 DEF IInv

(* What changes no chain and no owner keeps them.                          *)
LEMMA HeldKept ==
  ASSUME Held, UNCHANGED <<ringvars, next, owner, last, numFree>>,
         wpc = "clear" <=> wpc' = "clear", xpc # "walk", xpc' # "walk"
  PROVE  Held'
<1>1. PICK Q, B, W : Hold(Q, B, W)
  BY DEF Held
<1>2. Queued(Q)' /\ Built(B)' /\ Walked(W)' /\ Apart(Q, B, W) /\ Covers(Q, B, W)'
  BY <1>1 DEF Hold, Queued, Built, Walked, Covers, ringvars
<1>3. Hold(Q, B, W)'
  BY <1>2 DEF Hold, Apart
<1> QED BY <1>3 DEF Held

(* The worker's calls that only decide whether there will be a push.       *)
LEMMA FlushInvariant ==
  ASSUME ReleaseAssumption, IInv, Flush \/ FlushNothing \/ PushTest
  PROVE  IInv'
<1>1. /\ UNCHANGED <<ringvars, memvars, last, numFree, xvars>>
      /\ wpc # "clear" /\ wpc' # "clear"
  BY DEF Flush, FlushNothing, PushTest, wvars
<1>2. /\ wpc' \in {"top", "test", "push"} /\ wflush' \in BOOLEAN
      /\ oom' \in {"none", "asked", "starved", "freed", "flushing"}
  <2>1. wpc \in {"top", "test", "push"} /\ wflush \in BOOLEAN
        /\ oom \in {"none", "asked", "starved", "freed", "flushing"}
    BY <1>1 DEF IInv, TypeOK
  <2>2. CASE Flush
    BY <2>1, <2>2 DEF Flush
  <2>3. CASE FlushNothing
    BY <2>1, <2>3 DEF FlushNothing, wvars
  <2>4. CASE PushTest
    BY <2>1, <2>4 DEF PushTest, OomAfterPush
  <2> QED BY <2>2, <2>3, <2>4
<1>3. TypeOK'
  BY <1>1, <1>2 DEF IInv, TypeOK, ringvars, memvars, xvars
<1>4. Ring'
  <2>1. prod \in Counter /\ cons \in Counter /\ UNCHANGED <<prod, cons, slots, xpc, xid>>
    BY <1>1 DEF IInv, TypeOK, Counter, ringvars, xvars
  <2>2. wpc' = "push" => Distance(prod, cons) <= NumItems - 2
    <3>1. SUFFICES ASSUME wpc' = "push" PROVE Distance(prod, cons) <= NumItems - 2
      OBVIOUS
    <3>2. ~RingFull
      BY <3>1 DEF Flush, FlushNothing, PushTest, wvars, IInv, Ring
    <3>3. Distance(prod, cons) \in Nat /\ Distance(prod, cons) <= NumItems - 1
      BY <2>1, DistanceType DEF IInv, Ring
    <3>4. NumItems \in Nat /\ Modulus \in Nat /\ NumItems < Modulus
      BY Bounds
    <3>5. (Distance(prod, cons) + 1) % Modulus # NumItems
      BY <3>2 DEF RingFull, Used, Distance
    <3> DEFINE u == Distance(prod, cons)
    <3>6. u \in Nat /\ u <= NumItems - 1 /\ (u + 1) % Modulus # NumItems
      BY <3>3, <3>5
    <3> HIDE DEF u
    <3>7. (u + 1) % Modulus = u + 1
      BY <3>4, <3>6
    <3>8. u <= NumItems - 2
      BY <3>4, <3>6, <3>7
    <3> QED BY <3>8 DEF u
  <2> QED BY <2>1, <2>2 DEF IInv, Ring
<1>5. Held'
  <2>1. Held
    BY DEF IInv
  <2>2. CASE xpc # "walk"
    BY <1>1, <2>1, <2>2, HeldKept DEF memvars, xvars
  <2>3. CASE xpc = "walk"
    <3>1. PICK Q, B, W : Hold(Q, B, W)
      BY <2>1 DEF Held
    <3>2. Queued(Q)' /\ Built(B)' /\ Walked(W)' /\ Apart(Q, B, W) /\ Covers(Q, B, W)'
      BY <1>1, <3>1 DEF Hold, Queued, Built, Walked, Covers, ringvars, memvars, xvars
    <3>3. Hold(Q, B, W)'
      BY <3>2 DEF Hold, Apart
    <3> QED BY <3>3 DEF Held
  <2> QED BY <2>2, <2>3
<1>6. Budget' /\ Counted'
  BY <1>1 DEF IInv, Budget, Counted, memvars, xvars
<1> QED BY <1>3, <1>4, <1>5, <1>6 DEF IInv

(* A released command becomes the chain's only one or its last one.        *)
LEMMA ReleaseInvariant ==
  ASSUME ReleaseAssumption, IInv, NEW c \in Commands, Release(c)
  PROVE  IInv'
<1>1. PICK Q, B, W : Hold(Q, B, W)
  BY DEF IInv, Held
<1>2. /\ wpc = "top" /\ owner[c] = "device"
      /\ owner' = [owner EXCEPT ![c] = "chain"]
      /\ last' = c /\ numFree' = numFree + 1 /\ wpc' = "test" /\ wflush' = FALSE
      /\ oom' = IF oom = "starved" THEN "freed" ELSE oom
      /\ UNCHANGED <<prod, cons, size, avail, xvars>>
  BY DEF Release
<1>3. IF slots[Slot(prod)] = Nil
      THEN /\ slots' = [slots EXCEPT ![Slot(prod)] = c]
           /\ next' = [next EXCEPT ![c] = Nil]
      ELSE /\ next' = [next EXCEPT ![last] = c, ![c] = Nil]
           /\ slots' = slots
  BY DEF Release
<1>4. /\ Queued(Q) /\ Links(next, slots[Slot(prod)], B) /\ Walked(W) /\ Apart(Q, B, W)
      /\ Covers(Q, B, W) /\ DOMAIN Q = SlotsOf(prod, cons)
      /\ numFree = Cardinality(B)
      /\ IF numFree = 0 THEN last = Nil ELSE last \in B /\ next[last] = Nil
  BY <1>1, <1>2 DEF Hold, Built, Queued
<1>5. /\ prod \in Counter /\ cons \in Counter /\ Slot(prod) \in 0 .. NumItems - 1
      /\ Slot(prod) \notin SlotsOf(prod, cons) /\ SlotsOf(prod, cons) \subseteq 0 .. NumItems - 1
  <2>1. prod \in Counter /\ cons \in Counter /\ prod \in Int
    BY DEF IInv, TypeOK, Counter
  <2> QED BY <2>1, SlotType, SlotsOfType, FreeSlot DEF IInv, Ring
<1>6. /\ next \in [Commands -> Id] /\ slots \in [0 .. NumItems - 1 -> Id]
      /\ owner \in [Commands -> {"nobody", "device", "chain"}] /\ Nil \notin Commands
  BY Bounds DEF IInv, TypeOK
<1>7. /\ c \notin B /\ c \notin W /\ \A i \in DOMAIN Q : c \notin Q[i]
      /\ B \subseteq Commands
  BY <1>2, <1>4, LinksType DEF Covers
<1> DEFINE C == B \union {c}
<1>8. Links(next', slots'[Slot(prod)], C)
  <2>1. CASE slots[Slot(prod)] = Nil
    <3>1. B = {}
      BY <1>4, <2>1, LinksType
    <3>2. slots'[Slot(prod)] = c /\ next' = [next EXCEPT ![c] = Nil]
      BY <1>3, <1>5, <1>6, <2>1
    <3>3. Links(next', c, {c})
      BY <1>6, <3>2, LinksOne
    <3> QED BY <3>1, <3>2, <3>3
  <2>2. CASE slots[Slot(prod)] # Nil
    <3>1. slots[Slot(prod)] \in B
      BY <1>4, <2>2, LinksType
    <3>2. IsFiniteSet(B)
      BY <1>7, Bounds, FS_Subset
    <3>3. numFree # 0
      BY <1>4, <3>1, <3>2, FS_EmptySet
    <3>4. last \in B /\ next[last] = Nil
      BY <1>4, <3>3
    <3>5. Links([next EXCEPT ![last] = c, ![c] = Nil], slots[Slot(prod)], C)
      BY <1>4, <1>6, <1>7, <3>4, LinksAppend
    <3> QED BY <1>3, <2>2, <3>5
  <2> QED BY <2>1, <2>2
<1>9. /\ \A d \in Commands : d # c /\ d \notin B => next'[d] = next[d]
      /\ next'[c] = Nil /\ next' \in [Commands -> Id]
      /\ \A i \in 0 .. NumItems - 1 : i # Slot(prod) => slots'[i] = slots[i]
      /\ slots' \in [0 .. NumItems - 1 -> Id]
  <2>1. CASE slots[Slot(prod)] = Nil
    BY <1>3, <1>5, <1>6, <2>1 DEF Id
  <2>2. CASE slots[Slot(prod)] # Nil
    <3>1. last \in B
      <4>1. slots[Slot(prod)] \in B /\ IsFiniteSet(B)
        BY <1>4, <1>7, <2>2, LinksType, Bounds, FS_Subset
      <4>2. numFree # 0
        BY <1>4, <4>1, FS_EmptySet
      <4> QED BY <1>4, <4>2
    <3>2. last \in Commands /\ last # c
      BY <1>7, <3>1
    <3> QED BY <1>3, <1>6, <2>2, <3>1, <3>2 DEF Id
  <2> QED BY <2>1, <2>2
<1>10. Cardinality(C) = numFree + 1 /\ Cardinality(C) \in Nat
       /\ Cardinality(C) <= Cardinality(Commands) /\ numFree \in Nat
  <2>1. IsFiniteSet(B) /\ Cardinality(B) \in Nat
    BY <1>7, Bounds, FS_Subset, FS_CardinalityType
  <2>2. Cardinality(C) = Cardinality(B) + 1
    BY <1>7, <2>1, FS_AddElement
  <2>3. C \in SUBSET Commands
    BY <1>7
  <2>4. Cardinality(C) <= Cardinality(Commands)
    BY <2>3, Bounds, FS_Subset
  <2> QED BY <1>4, <2>1, <2>2, <2>4
<1> HIDE DEF C
<1>11. Hold(Q, C, W)'
  <2>1. Queued(Q)'
    <3>1. ASSUME NEW i \in SlotsOf(prod, cons) PROVE Links(next', slots'[i], Q[i])
      <4>1. Links(next, slots[i], Q[i]) /\ slots'[i] = slots[i]
        BY <1>4, <1>5, <1>9 DEF Queued
      <4>2. \A d \in Q[i] : next'[d] = next[d]
        BY <1>4, <1>7, <1>9 DEF Apart, Queued
      <4> QED BY <4>1, <4>2, LinksKept
    <3> QED BY <1>2, <1>4, <3>1 DEF Queued
  <2>2. Built(C)'
    <3>1. c \in C
      BY DEF C
    <3>2. numFree' = Cardinality(C) /\ numFree' # 0
      BY <1>2, <1>10
    <3> QED BY <1>2, <1>8, <1>9, <3>1, <3>2 DEF Built
  <2>3. Walked(W)'
    <3>1. CASE xpc = "walk"
      <4>1. Links(next, xid, W)
        BY <1>4, <3>1 DEF Walked
      <4>2. \A d \in W : d \in Commands /\ d # c /\ d \notin B
        BY <1>4, <1>7, <4>1, LinksType DEF Apart
      <4>3. Links(next', xid, W)
        BY <1>9, <4>1, <4>2, LinksKept
      <4> QED BY <1>2, <3>1, <4>3 DEF Walked, xvars
    <3>2. CASE xpc # "walk"
      BY <1>2, <1>4, <3>2 DEF Walked, xvars
    <3> QED BY <3>1, <3>2
  <2>4. Apart(Q, C, W)
    BY <1>4, <1>7 DEF Apart, C
  <2>5. Covers(Q, C, W)'
    BY <1>2, <1>4, <1>6, <1>7 DEF Covers, C
  <2> QED BY <2>1, <2>2, <2>3, <2>4, <2>5 DEF Hold, Apart
<1>12. Held'
  BY <1>11 DEF Held
<1>13. TypeOK'
  <2>1. owner' \in [Commands -> {"nobody", "device", "chain"}]
    BY <1>2, <1>6
  <2>2. numFree' \in 0 .. Cardinality(Commands) /\ last' \in Id
    BY <1>2, <1>10, Bounds DEF Id
  <2>3. oom' \in {"none", "asked", "starved", "freed", "flushing"}
    BY <1>2 DEF IInv, TypeOK
  <2>4. /\ UNCHANGED <<prod, cons, size, avail, xpc, xback, xid, xcount, xneed, attempts>>
        /\ wpc' \in {"top", "test", "push", "clear"} /\ wflush' \in BOOLEAN
    BY <1>2 DEF xvars
  <2>5. TypeOK
    BY DEF IInv
  <2> QED BY <1>9, <2>1, <2>2, <2>3, <2>4, <2>5 DEF TypeOK
<1>14. Ring'
  <2>1. xpc = "pop" => prod # cons /\ xid = slots'[Slot(cons)]
    <3>1. SUFFICES ASSUME xpc = "pop" PROVE prod # cons /\ xid = slots'[Slot(cons)]
      OBVIOUS
    <3>2. prod # cons /\ xid = slots[Slot(cons)] /\ Distance(prod, cons) <= NumItems - 1
      BY <3>1 DEF IInv, Ring
    <3>3. Slot(cons) \in SlotsOf(prod, cons)
      BY <1>5, <3>2, SlotsAfterPop
    <3>4. slots'[Slot(cons)] = slots[Slot(cons)]
      BY <1>5, <1>9, <3>3
    <3> QED BY <3>2, <3>4
  <2> QED BY <1>2, <2>1 DEF IInv, Ring, xvars
<1>15. Budget' /\ Counted'
  <2>1. Unused(owner') = Unused(owner)
    BY <1>2, <1>6 DEF Unused
  <2>2. \A d \in Commands : owner'[d] = "nobody" => owner[d] = "nobody"
    BY <1>2, <1>6
  <2> QED BY <1>2, <2>1, <2>2 DEF IInv, Budget, Counted, xvars
<1> QED BY <1>12, <1>13, <1>14, <1>15 DEF IInv

(* The chain that was built is published.                                  *)
LEMMA PushProdInvariant == ASSUME ReleaseAssumption, IInv, PushProd PROVE IInv'
<1>1. PICK Q, B, W : Hold(Q, B, W)
  BY DEF IInv, Held
<1>2. /\ wpc = "push" /\ prod' = Inc(prod) /\ wpc' = "clear"
      /\ UNCHANGED <<cons, slots, memvars, last, numFree, wflush, oom, xvars>>
  BY DEF PushProd
<1>3. /\ prod \in Counter /\ cons \in Counter /\ Distance(prod, cons) <= NumItems - 2
      /\ NumItems \in Nat /\ Distance(prod, cons) \in Nat
  BY <1>2, Bounds, DistanceType DEF IInv, TypeOK, Counter, Ring
<1>4. /\ Distance(Inc(prod), cons) = Distance(prod, cons) + 1
      /\ SlotsOf(Inc(prod), cons) = SlotsOf(prod, cons) \union {Slot(prod)}
      /\ Inc(prod) \in Counter
  BY <1>3, SlotsAfterPush, IncIs
<1>5. Slot(prod) \notin SlotsOf(prod, cons)
  <2>1. Distance(prod, cons) <= NumItems - 1
    BY <1>3
  <2> QED BY <1>3, <2>1, FreeSlot
<1>6. /\ Queued(Q) /\ Links(next, slots[Slot(prod)], B) /\ Walked(W) /\ Apart(Q, B, W)
      /\ Covers(Q, B, W) /\ DOMAIN Q = SlotsOf(prod, cons)
  BY <1>1, <1>2 DEF Hold, Built, Queued
<1>7. B \subseteq Commands
  BY <1>6, LinksType
<1>8. /\ SlotsOf(prod', cons') = SlotsOf(prod, cons) \union {Slot(prod)}
      /\ next' = next /\ slots' = slots /\ owner' = owner
  BY <1>2, <1>4 DEF memvars
<1>0. PICK P : P = [i \in SlotsOf(prod', cons') |-> IF i = Slot(prod) THEN B ELSE Q[i]]
  OBVIOUS
<1>9. /\ DOMAIN P = SlotsOf(prod, cons) \union {Slot(prod)}
      /\ P[Slot(prod)] = B /\ \A i \in SlotsOf(prod, cons) : P[i] = Q[i]
      /\ P \in [SlotsOf(prod', cons') -> SUBSET Commands]
  BY <1>0, <1>5, <1>6, <1>7, <1>8 DEF Queued
<1>10. Hold(P, {}, W)'
  <2>1. Queued(P)'
    BY <1>6, <1>8, <1>9 DEF Queued
  <2>2. Built({})'
    BY <1>2 DEF Built
  <2>3. Walked(W)'
    BY <1>2, <1>6 DEF Walked, memvars, xvars
  <2>4. Apart(P, {}, W)
    <3>1. \A i \in SlotsOf(prod, cons) : P[i] \intersect W = {} /\ P[i] \intersect B = {}
      BY <1>6, <1>9 DEF Apart
    <3>2. \A i, j \in SlotsOf(prod, cons) : i # j => P[i] \intersect P[j] = {}
      BY <1>6, <1>9 DEF Apart
    <3>3. P[Slot(prod)] \intersect W = {}
      BY <1>6, <1>9 DEF Apart
    <3> QED BY <1>9, <3>1, <3>2, <3>3 DEF Apart
  <2>5. Covers(P, {}, W)'
    BY <1>6, <1>8, <1>9 DEF Covers
  <2> QED BY <2>1, <2>2, <2>3, <2>4, <2>5 DEF Hold, Apart
<1>11. Held'
  BY <1>10 DEF Held
<1>12. TypeOK'
  BY <1>2, <1>4 DEF IInv, TypeOK, Counter, memvars, xvars
<1>13. Ring'
  <2>1. xpc = "pop" => prod' # cons /\ xid = slots[Slot(cons)]
    <3>1. Distance(prod', cons) # 0 /\ prod' \in Counter
      BY <1>2, <1>3, <1>4
    <3>2. prod' # cons
      BY <1>3, <3>1, DistanceType
    <3> QED BY <3>2 DEF IInv, Ring
  <2>2. Distance(prod', cons) <= NumItems - 1
    BY <1>2, <1>3, <1>4
  <2> QED BY <1>2, <2>1, <2>2 DEF Ring, xvars
<1>14. Budget' /\ Counted'
  BY <1>2 DEF IInv, Budget, Counted, memvars, xvars
<1> QED BY <1>11, <1>12, <1>13, <1>14 DEF IInv

(* The worker begins a new chain in the next slot.                         *)
LEMMA PushClearInvariant == ASSUME ReleaseAssumption, IInv, PushClear PROVE IInv'
<1>1. PICK Q, B, W : Hold(Q, B, W)
  BY DEF IInv, Held
<1>2. /\ wpc = "clear" /\ slots' = [slots EXCEPT ![Slot(prod)] = Nil]
      /\ numFree' = 0 /\ last' = Nil /\ wpc' = "top" /\ oom' = OomAfterPush
      /\ UNCHANGED <<prod, cons, memvars, wflush, xvars>>
  BY DEF PushClear
<1>3. /\ prod \in Counter /\ cons \in Counter /\ Distance(prod, cons) <= NumItems - 1
      /\ prod \in Int
  BY DEF IInv, TypeOK, Counter, Ring
<1>4. /\ Slot(prod) \notin SlotsOf(prod, cons) /\ Slot(prod) \in 0 .. NumItems - 1
      /\ SlotsOf(prod, cons) \subseteq 0 .. NumItems - 1
  BY <1>3, FreeSlot, SlotType, SlotsOfType
<1>5. /\ slots' \in [0 .. NumItems - 1 -> Id] /\ slots'[Slot(prod)] = Nil
      /\ \A i \in SlotsOf(prod, cons) : slots'[i] = slots[i]
  BY <1>2, <1>4 DEF IInv, TypeOK, Id
<1>6. Queued(Q) /\ B = {} /\ Walked(W) /\ Apart(Q, B, W) /\ Covers(Q, B, W)
  BY <1>1, <1>2 DEF Hold, Built
<1>7. Hold(Q, {}, W)'
  <2>1. Queued(Q)'
    BY <1>2, <1>5, <1>6 DEF Queued, memvars
  <2>2. Built({})'
    <3>1. Links(next', slots'[Slot(prod)], {})
      BY <1>5, LinksNothing
    <3> QED BY <1>2, <3>1, FS_EmptySet DEF Built
  <2>3. Walked(W)' /\ Apart(Q, {}, W) /\ Covers(Q, {}, W)'
    BY <1>2, <1>6 DEF Walked, Covers, memvars, xvars
  <2> QED BY <2>1, <2>2, <2>3 DEF Hold, Apart
<1>8. Held'
  BY <1>7 DEF Held
<1>9. TypeOK'
  <2>1. numFree' \in 0 .. Cardinality(Commands) /\ last' \in Id
    BY <1>2, Bounds DEF Id
  <2>2. oom' \in {"none", "asked", "starved", "freed", "flushing"}
    BY <1>2 DEF OomAfterPush, IInv, TypeOK
  <2>3. TypeOK
    BY DEF IInv
  <2> QED BY <1>2, <1>5, <2>1, <2>2, <2>3 DEF TypeOK, memvars, xvars
<1>10. Ring'
  <2>1. xpc = "pop" => prod # cons /\ xid = slots'[Slot(cons)]
    <3>1. SUFFICES ASSUME xpc = "pop" PROVE prod # cons /\ xid = slots'[Slot(cons)]
      OBVIOUS
    <3>2. prod # cons /\ xid = slots[Slot(cons)]
      BY <3>1 DEF IInv, Ring
    <3>3. Slot(cons) \in SlotsOf(prod, cons)
      BY <1>3, <3>2, SlotsAfterPop
    <3> QED BY <1>5, <3>2, <3>3
  <2> QED BY <1>2, <1>3, <2>1 DEF Ring, xvars
<1>11. Budget' /\ Counted'
  BY <1>2 DEF IInv, Budget, Counted, memvars, xvars
<1> QED BY <1>8, <1>9, <1>10, <1>11 DEF IInv

(* The steps of X that touch neither the ring nor a chain.                 *)
LEMMA QuietInvariant ==
  ASSUME ReleaseAssumption, IInv,
         \/ \E s \in Sizes : AllocCall(s)
         \/ AllocFails \/ AllocRetry \/ NotifyOom \/ NotifyOomTwice \/ OomCollected
         \/ OomSleep \/ OomReturn \/ GcReturn
  PROVE  IInv'
<1>1. /\ UNCHANGED <<ringvars, memvars, wvars>>
      /\ xpc \in {"gc", "idle", "try", "retry", "oom", "oomtwice", "oom1", "oom2"}
  <2>1. CASE \E s \in Sizes : AllocCall(s) BY <2>1 DEF AllocCall
  <2>2. CASE AllocFails BY <2>2 DEF AllocFails
  <2>3. CASE AllocRetry BY <2>3 DEF AllocRetry
  <2>4. CASE NotifyOom BY <2>4 DEF NotifyOom
  <2>5. CASE NotifyOomTwice BY <2>5 DEF NotifyOomTwice
  <2>6. CASE OomCollected BY <2>6 DEF OomCollected
  <2>7. CASE OomSleep BY <2>7 DEF OomSleep
  <2>8. CASE OomReturn BY <2>8 DEF OomReturn
  <2>9. CASE GcReturn BY <2>9 DEF GcReturn
  <2> QED BY <2>1, <2>2, <2>3, <2>4, <2>5, <2>6, <2>7, <2>8, <2>9
<1>2. /\ xpc' \in {"gc", "idle", "try", "retry", "oom", "oomtwice", "oom1", "oom2", "exit"}
      /\ xback' \in {"try", "retry", "oom1", "oom2"}
      /\ xneed' \in Sizes \union {0} /\ xid' \in Id
      /\ xcount' \in 0 .. Cardinality(Commands) /\ attempts' \in 0 .. MaxAttempts
      /\ oom' \in {"none", "asked", "starved", "freed", "flushing"}
      /\ xpc' = "gc" => xcount' = 0
      /\ xpc' # "exit" => attempts' < MaxAttempts
  <2>0. /\ MaxAttempts \in Nat \ {0} /\ Cardinality(Commands) \in Nat /\ Nil \in Id
        /\ xpc \in {"gc", "pop", "walk", "try", "idle", "retry", "oom", "oomtwice", "oom1", "oom2", "exit"}
        /\ xback \in {"try", "retry", "oom1", "oom2"}
        /\ xneed \in Sizes \union {0} /\ xid \in Id
        /\ xcount \in 0 .. Cardinality(Commands) /\ attempts \in 0 .. MaxAttempts
        /\ oom \in {"none", "asked", "starved", "freed", "flushing"}
        /\ xpc # "exit" => attempts < MaxAttempts
    BY Bounds DEF IInv, TypeOK, Counted, Id
  <2>1. CASE \E s \in Sizes : AllocCall(s) BY <2>0, <2>1 DEF AllocCall, CallGC
  <2>2. CASE AllocFails BY <2>0, <2>2 DEF AllocFails, CallGC
  <2>3. CASE AllocRetry BY <2>0, <2>3 DEF AllocRetry
  <2>4. CASE NotifyOom BY <2>0, <2>4 DEF NotifyOom, CallGC
  <2>5. CASE NotifyOomTwice BY <2>0, <2>5 DEF NotifyOomTwice, CallGC
  <2>6. CASE OomCollected BY <2>0, <2>6 DEF OomCollected, CallGC
  <2>7. CASE OomSleep BY <2>0, <2>7 DEF OomSleep, CallGC
  <2>8. CASE OomReturn
    <3>1. /\ UNCHANGED <<oom, xback, xid, xcount, xneed>> /\ attempts < MaxAttempts
          /\ xpc' \in {"try", "exit"}
      BY <2>0, <2>8 DEF OomReturn
    <3>2. CASE xcount > 0
      BY <2>0, <2>8, <3>1, <3>2 DEF OomReturn
    <3>3. CASE ~(xcount > 0)
      <4>1. attempts' = attempts + 1
            /\ xpc' = IF attempts + 1 = MaxAttempts THEN "exit" ELSE "try"
        BY <2>8, <3>3 DEF OomReturn
      <4> QED BY <2>0, <3>1, <4>1
    <3> QED BY <3>2, <3>3
  <2>9. CASE GcReturn BY <2>0, <2>9 DEF GcReturn
  <2> QED BY <2>1, <2>2, <2>3, <2>4, <2>5, <2>6, <2>7, <2>8, <2>9
<1>3. TypeOK'
  BY <1>1, <1>2 DEF IInv, TypeOK, ringvars, memvars, wvars
<1>4. Ring' /\ Budget'
  BY <1>1, <1>2 DEF IInv, Ring, Budget, ringvars, memvars, wvars
<1>5. Held'
  BY <1>1, <1>2, HeldKept DEF IInv, memvars, wvars
<1>6. Counted'
  BY <1>1, <1>2, UnusedIsFinite DEF Counted
<1> QED BY <1>3, <1>4, <1>5, <1>6 DEF IInv

(* What a command takes is counted apart from what the others take.        *)
LEMMA TakenBy ==
  ASSUME ReleaseAssumption, NEW sz \in [Commands -> 0 .. Memory], NEW c \in Commands
  PROVE  /\ Cardinality(Taken(sz)) = Cardinality(Taken([sz EXCEPT ![c] = 0])) + sz[c]
         /\ Cardinality(Taken([sz EXCEPT ![c] = 0])) \in Nat
<1> DEFINE k == sz[c]
           sy == [sz EXCEPT ![c] = 0]
           own == {c} \X (1 .. k)
<1>1. k \in Nat /\ k <= Memory /\ Memory \in Nat
  BY Bounds
<1>2. sy[c] = 0 /\ \A d \in Commands \ {c} : sy[d] = sz[d]
  OBVIOUS
<1>3. Taken(sz) = Taken(sy) \union own
  <2> HIDE DEF sy
  <2>1. ASSUME NEW u \in Taken(sz) PROVE u \in Taken(sy) \union own
    <3>1. u \in Commands \X (1 .. Memory) /\ u[2] <= sz[u[1]]
      BY DEF Taken
    <3>2. CASE u[1] = c
      BY <1>1, <3>1, <3>2
    <3>3. CASE u[1] # c
      BY <1>2, <3>1, <3>3 DEF Taken
    <3> QED BY <3>2, <3>3
  <2>2. ASSUME NEW u \in Taken(sy) PROVE u \in Taken(sz)
    <3>1. u \in Commands \X (1 .. Memory) /\ u[2] <= sy[u[1]]
      BY DEF Taken
    <3>2. u[1] # c
      BY <1>2, <3>1
    <3> QED BY <1>2, <3>1, <3>2 DEF Taken
  <2>3. ASSUME NEW u \in own PROVE u \in Taken(sz)
    <3>1. u[1] = c /\ u[2] \in 1 .. k /\ u = <<c, u[2]>>
      OBVIOUS
    <3>2. u \in Commands \X (1 .. Memory) /\ u[2] <= sz[u[1]]
      BY <1>1, <3>1
    <3> QED BY <3>2 DEF Taken
  <2> QED BY <2>1, <2>2, <2>3
<1>4. Taken(sy) \intersect own = {}
  <2> HIDE DEF sy
  <2>1. ASSUME NEW u \in Taken(sy), u \in own PROVE FALSE
    <3>1. u[1] = c /\ u[2] \in 1 .. k /\ u[2] <= sy[u[1]]
      BY <2>1 DEF Taken
    <3> QED BY <1>2, <3>1
  <2> QED BY <2>1
<1>5. IsFiniteSet(own) /\ Cardinality(own) = k
  <2>1. IsFiniteSet({c}) /\ Cardinality({c}) = 1
    BY FS_Singleton
  <2>2. IsFiniteSet(1 .. k) /\ Cardinality(1 .. k) = k
    BY <1>1, FS_Interval
  <2> HIDE DEF k
  <2>3. PICK S, T : S = {c} /\ T = 1 .. k
    OBVIOUS
  <2>4. IsFiniteSet(S) /\ IsFiniteSet(T) /\ Cardinality(S) = 1 /\ Cardinality(T) = k
    BY <2>1, <2>2, <2>3
  <2>5. IsFiniteSet(S \X T) /\ Cardinality(S \X T) = Cardinality(S) * Cardinality(T)
    BY <2>4, FS_Product
  <2>6. 1 * k = k
    BY <1>1
  <2> QED BY <2>3, <2>4, <2>5, <2>6
<1>6. IsFiniteSet(Taken(sy)) /\ Cardinality(Taken(sy)) \in Nat
  BY TakenIsFinite
<1> HIDE DEF own, sy, k
<1>7. Cardinality(Taken(sz)) = Cardinality(Taken(sy)) + k - 0
  <2>1. Cardinality(Taken(sy) \union own)
          = Cardinality(Taken(sy)) + Cardinality(own) - Cardinality(Taken(sy) \intersect own)
    BY <1>5, <1>6, FS_Union
  <2>2. Cardinality({}) = 0
    BY FS_EmptySet
  <2> QED BY <1>3, <1>4, <1>5, <2>1, <2>2
<1>8. Cardinality(Taken(sz)) = Cardinality(Taken(sy)) + k
  BY <1>1, <1>6, <1>7
<1> QED BY <1>6, <1>8 DEF sy, k

LEMMA UnusedGrows ==
  ASSUME ReleaseAssumption, NEW own \in [Commands -> {"nobody", "device", "chain"}],
         NEW c \in Commands, own[c] # "nobody"
  PROVE  Cardinality(Unused([own EXCEPT ![c] = "nobody"])) = Cardinality(Unused(own)) + 1
<1>1. Unused([own EXCEPT ![c] = "nobody"]) = Unused(own) \union {c} /\ c \notin Unused(own)
  BY DEF Unused
<1> QED BY <1>1, UnusedIsFinite, FS_AddElement

(* X begins to take a chain off the ring.                                  *)
LEMMA GcReadInvariant == ASSUME ReleaseAssumption, IInv, GcRead PROVE IInv'
<1>1. /\ xpc = "gc" /\ cons # prod /\ xid' = slots[Slot(cons)] /\ xpc' = "pop"
      /\ UNCHANGED <<ringvars, memvars, wvars, oom, xback, xcount, xneed, attempts>>
  BY DEF GcRead
<1>2. xid' \in Id
  <2>1. Slot(cons) \in 0 .. NumItems - 1
    <3>1. cons \in Int
      BY DEF IInv, TypeOK
    <3> QED BY <3>1, SlotType
  <2> QED BY <1>1, <2>1 DEF IInv, TypeOK
<1>3. TypeOK'
  BY <1>1, <1>2 DEF IInv, TypeOK, ringvars, memvars, wvars
<1>4. Ring' /\ Budget' /\ Counted'
  BY <1>1 DEF IInv, Ring, Budget, Counted, ringvars, memvars, wvars
<1>5. Held'
  BY <1>1, HeldKept DEF IInv, memvars, wvars
<1> QED BY <1>3, <1>4, <1>5 DEF IInv

(* The chain at cons is X's.                                               *)
LEMMA GcPopInvariant == ASSUME ReleaseAssumption, IInv, GcPop PROVE IInv'
<1>1. PICK Q, B, W : Hold(Q, B, W)
  BY DEF IInv, Held
<1>2. /\ xpc = "pop" /\ cons' = Inc(cons) /\ xpc' = "walk"
      /\ UNCHANGED <<prod, slots, memvars, wvars, oom, xback, xid, xcount, xneed, attempts>>
  BY DEF GcPop
<1>3. /\ prod \in Counter /\ cons \in Counter /\ Distance(prod, cons) <= NumItems - 1
      /\ prod # cons /\ xid = slots[Slot(cons)] /\ Distance(prod, cons) \in Nat
      /\ NumItems \in Nat
  BY <1>2, Bounds, DistanceType DEF IInv, TypeOK, Counter, Ring
<1>4. /\ Distance(prod, Inc(cons)) = Distance(prod, cons) - 1
      /\ Slot(cons) \in SlotsOf(prod, cons)
      /\ SlotsOf(prod, Inc(cons)) = SlotsOf(prod, cons) \ {Slot(cons)}
      /\ Inc(cons) \in Counter
  BY <1>3, SlotsAfterPop, IncIs
<1>5. /\ Queued(Q) /\ Built(B) /\ W = {} /\ Apart(Q, B, W)
      /\ Covers(Q, B, W) /\ DOMAIN Q = SlotsOf(prod, cons)
  BY <1>1, <1>2 DEF Hold, Walked, Queued
<1>6. /\ SlotsOf(prod', cons') = SlotsOf(prod, cons) \ {Slot(cons)}
      /\ next' = next /\ slots' = slots /\ owner' = owner /\ xid' = xid
  BY <1>2, <1>4 DEF memvars
<1>7. PICK P : P = [i \in SlotsOf(prod, cons) \ {Slot(cons)} |-> Q[i]]
  OBVIOUS
<1>8. PICK V : V = Q[Slot(cons)]
  OBVIOUS
<1>9. /\ DOMAIN P = SlotsOf(prod, cons) \ {Slot(cons)}
      /\ \A i \in SlotsOf(prod, cons) \ {Slot(cons)} : P[i] = Q[i]
      /\ P \in [SlotsOf(prod', cons') -> SUBSET Commands]
  BY <1>5, <1>6, <1>7 DEF Queued
<1>10. Hold(P, B, V)'
  <2>1. Queued(P)'
    BY <1>5, <1>6, <1>9 DEF Queued
  <2>2. Built(B)'
    BY <1>2, <1>5, <1>6 DEF Built, wvars
  <2>3. Walked(V)'
    <3>1. Links(next, slots[Slot(cons)], V)
      BY <1>4, <1>5, <1>8 DEF Queued
    <3> QED BY <1>2, <1>3, <1>6, <3>1 DEF Walked
  <2>4. Apart(P, B, V)
    <3>1. \A i \in DOMAIN P : P[i] \intersect B = {} /\ P[i] \intersect V = {}
      BY <1>4, <1>5, <1>8, <1>9 DEF Apart
    <3>2. \A i, j \in DOMAIN P : i # j => P[i] \intersect P[j] = {}
      BY <1>5, <1>9 DEF Apart
    <3>3. B \intersect V = {}
      BY <1>4, <1>5, <1>8 DEF Apart
    <3> QED BY <3>1, <3>2, <3>3 DEF Apart
  <2>5. Covers(P, B, V)'
    <3>1. ASSUME NEW c \in Commands
          PROVE  (\E i \in DOMAIN Q : c \in Q[i]) <=> (c \in V \/ \E i \in DOMAIN P : c \in P[i])
      BY <1>4, <1>5, <1>8, <1>9
    <3> QED BY <1>5, <1>6, <3>1 DEF Covers
  <2> QED BY <2>1, <2>2, <2>3, <2>4, <2>5 DEF Hold, Apart
<1>11. Held'
  BY <1>10 DEF Held
<1>12. TypeOK'
  BY <1>2, <1>4 DEF IInv, TypeOK, Counter, memvars, wvars
<1>13. Ring'
  <2>1. Distance(prod', cons') = Distance(prod, cons) - 1 /\ wpc' = wpc
    BY <1>2, <1>4 DEF wvars
  <2>2. Distance(prod', cons') <= NumItems - 1
    BY <1>3, <2>1
  <2>3. wpc' = "push" => Distance(prod', cons') <= NumItems - 2
    BY <1>3, <2>1
  <2> QED BY <1>2, <2>2, <2>3 DEF Ring
<1>14. Budget' /\ Counted'
  BY <1>2 DEF IInv, Budget, Counted, memvars, wvars
<1> QED BY <1>11, <1>12, <1>13, <1>14 DEF IInv

(* The first command of X's chain is freed, with what it took.             *)
LEMMA GcFreeInvariant == ASSUME ReleaseAssumption, IInv, GcFree PROVE IInv'
<1>1. PICK Q, B, W : Hold(Q, B, W)
  BY DEF IInv, Held
<1>2. /\ xpc = "walk" /\ xid # Nil /\ xid' = next[xid] /\ xcount' = xcount + 1
      /\ owner' = [owner EXCEPT ![xid] = "nobody"]
      /\ avail' = avail + size[xid] /\ size' = [size EXCEPT ![xid] = 0]
      /\ UNCHANGED <<ringvars, next, wvars, oom, xpc, xback, xneed, attempts>>
  BY DEF GcFree
<1>3. /\ Queued(Q) /\ Built(B) /\ Links(next, xid, W) /\ Apart(Q, B, W) /\ Covers(Q, B, W)
  BY <1>1, <1>2 DEF Hold, Walked
<1>4. xid \in W /\ xid \in Commands /\ owner[xid] = "chain"
  <2>1. xid \in W /\ W \subseteq Commands
    BY <1>2, <1>3, LinksType
  <2> QED BY <1>3, <2>1 DEF Covers
<1>5. /\ owner \in [Commands -> {"nobody", "device", "chain"}] /\ next \in [Commands -> Id]
      /\ size \in [Commands -> 0 .. Memory]
      /\ xcount \in 0 .. Cardinality(Commands) /\ avail \in 0 .. Memory
      /\ Cardinality(Commands) \in Nat /\ Memory \in Nat
  BY Bounds DEF IInv, TypeOK
<1>6. PICK V : V = W \ {xid}
  OBVIOUS
<1>7. Hold(Q, B, V)'
  <2>1. Queued(Q)' /\ Built(B)'
    BY <1>2, <1>3 DEF Queued, Built, ringvars, wvars
  <2>2. Walked(V)'
    <3>1. Links(next, next[xid], V)
      BY <1>2, <1>3, <1>6, LinksTail
    <3> QED BY <1>2, <3>1 DEF Walked
  <2>3. Apart(Q, B, V)
    BY <1>3, <1>6 DEF Apart
  <2>4. Covers(Q, B, V)'
    <3>1. \A c \in Commands : owner'[c] = "chain" <=> owner[c] = "chain" /\ c # xid
      BY <1>2, <1>4, <1>5
    <3>2. xid \notin B /\ \A i \in DOMAIN Q : xid \notin Q[i]
      BY <1>3, <1>4 DEF Apart
    <3> QED BY <1>3, <1>6, <3>1, <3>2 DEF Covers
  <2> QED BY <2>1, <2>2, <2>3, <2>4 DEF Hold, Apart
<1>8. Held'
  BY <1>7 DEF Held
<1>9. xcount + 1 <= Cardinality(Unused(owner')) /\ xcount + 1 <= Cardinality(Commands)
  <2>1. xcount <= Cardinality(Unused(owner))
    BY <1>2 DEF IInv, Counted
  <2>2. Cardinality(Unused(owner')) = Cardinality(Unused(owner)) + 1
    BY <1>2, <1>4, <1>5, UnusedGrows
  <2>3. Cardinality(Unused(owner')) <= Cardinality(Commands)
        /\ Cardinality(Unused(owner)) \in Nat /\ Cardinality(Unused(owner')) \in Nat
    BY UnusedIsFinite
  <2> QED BY <1>5, <2>1, <2>2, <2>3
<1>10. avail' + Cardinality(Taken(size')) = Memory /\ avail' \in 0 .. Memory
  <2>1. /\ Cardinality(Taken(size)) = Cardinality(Taken(size')) + size[xid]
        /\ Cardinality(Taken(size')) \in Nat
    BY <1>2, <1>4, <1>5, TakenBy
  <2>2. avail + Cardinality(Taken(size)) = Memory
    BY DEF IInv, Budget
  <2>3. size[xid] \in Nat /\ avail \in Nat
    BY <1>4, <1>5
  <2> QED BY <1>2, <1>5, <2>1, <2>2, <2>3
<1>11. TypeOK'
  <2>1. /\ owner' \in [Commands -> {"nobody", "device", "chain"}]
        /\ size' \in [Commands -> 0 .. Memory] /\ xid' \in Id
    BY <1>2, <1>4, <1>5
  <2>2. xcount' \in 0 .. Cardinality(Commands)
    BY <1>2, <1>5, <1>9
  <2>3. TypeOK
    BY DEF IInv
  <2> QED BY <1>2, <1>10, <2>1, <2>2, <2>3 DEF TypeOK, ringvars, wvars
<1>12. Ring'
  BY <1>2 DEF IInv, Ring, ringvars, wvars
<1>13. Budget'
  <2>1. \A c \in Commands : owner'[c] = "nobody" => size'[c] = 0
    BY <1>2, <1>4, <1>5 DEF IInv, Budget
  <2> QED BY <1>10, <2>1 DEF Budget
<1>14. Counted'
  BY <1>2, <1>9 DEF IInv, Counted
<1> QED BY <1>8, <1>11, <1>12, <1>13, <1>14 DEF IInv

(* X is at the end of its chain.                                           *)
LEMMA GcChainEndInvariant == ASSUME ReleaseAssumption, IInv, GcChainEnd PROVE IInv'
<1>1. PICK Q, B, W : Hold(Q, B, W)
  BY DEF IInv, Held
<1>2. /\ xpc = "walk" /\ xid = Nil /\ xpc' = "gc"
      /\ UNCHANGED <<ringvars, memvars, wvars, oom, xback, xid, xcount, xneed, attempts>>
  BY DEF GcChainEnd
<1>3. Queued(Q) /\ Built(B) /\ Links(next, xid, W) /\ Apart(Q, B, W) /\ Covers(Q, B, W)
  BY <1>1, <1>2 DEF Hold, Walked
<1>4. W = {}
  BY <1>2, <1>3, LinksType
<1>5. Hold(Q, B, W)'
  <2>1. Queued(Q)' /\ Built(B)' /\ Walked(W)' /\ Covers(Q, B, W)'
    BY <1>2, <1>3, <1>4 DEF Queued, Built, Walked, Covers, ringvars, memvars, wvars
  <2> QED BY <1>3, <2>1 DEF Hold, Apart
<1>6. Held'
  BY <1>5 DEF Held
<1>7. TypeOK' /\ Ring' /\ Budget' /\ Counted'
  BY <1>2 DEF IInv, TypeOK, Ring, Budget, Counted, ringvars, memvars, wvars
<1> QED BY <1>6, <1>7 DEF IInv

(* A new command takes its memory and goes to the device.                  *)
LEMMA AllocInvariant ==
  ASSUME ReleaseAssumption, IInv, NEW c \in Commands, Alloc(c)
  PROVE  IInv'
<1>1. PICK Q, B, W : Hold(Q, B, W)
  BY DEF IInv, Held
<1>2. /\ xpc = "try" /\ xneed <= avail /\ owner[c] = "nobody"
      /\ owner' = [owner EXCEPT ![c] = "device"] /\ size' = [size EXCEPT ![c] = xneed]
      /\ avail' = avail - xneed /\ xpc' = "idle"
      /\ UNCHANGED <<ringvars, next, wvars, oom, xback, xid, xcount, xneed, attempts>>
  BY DEF Alloc
<1>3. /\ owner \in [Commands -> {"nobody", "device", "chain"}]
      /\ size \in [Commands -> 0 .. Memory] /\ avail \in 0 .. Memory
      /\ Memory \in Nat /\ xneed \in 0 .. Memory
  BY Bounds DEF IInv, TypeOK
<1>4. Hold(Q, B, W)'
  <2>1. Queued(Q) /\ Built(B) /\ Walked(W) /\ Apart(Q, B, W) /\ Covers(Q, B, W)
    BY <1>1 DEF Hold
  <2>2. Queued(Q)' /\ Built(B)' /\ Walked(W)'
    BY <1>2, <2>1 DEF Queued, Built, Walked, ringvars, wvars
  <2>3. \A d \in Commands : owner'[d] = "chain" <=> owner[d] = "chain"
    BY <1>2, <1>3
  <2>4. Covers(Q, B, W)'
    BY <2>1, <2>3 DEF Covers
  <2> QED BY <2>1, <2>2, <2>4 DEF Hold, Apart
<1>5. Held'
  BY <1>4 DEF Held
<1>6. avail' + Cardinality(Taken(size')) = Memory /\ avail' \in 0 .. Memory
      /\ size' \in [Commands -> 0 .. Memory]
  <2>1. size[c] = 0
    BY <1>2 DEF IInv, Budget
  <2>2. /\ size' \in [Commands -> 0 .. Memory] /\ size'[c] = xneed
        /\ [size' EXCEPT ![c] = 0] = size
    BY <1>2, <1>3, <2>1
  <2>3. /\ Cardinality(Taken(size')) = Cardinality(Taken([size' EXCEPT ![c] = 0])) + size'[c]
        /\ Cardinality(Taken([size' EXCEPT ![c] = 0])) \in Nat
    BY <2>2, TakenBy
  <2>4. Cardinality(Taken(size')) = Cardinality(Taken(size)) + xneed
        /\ Cardinality(Taken(size)) \in Nat
    BY <2>2, <2>3
  <2>5. avail + Cardinality(Taken(size)) = Memory
    BY DEF IInv, Budget
  <2> QED BY <1>2, <1>3, <2>2, <2>4, <2>5
<1>7. TypeOK'
  <2>1. owner' \in [Commands -> {"nobody", "device", "chain"}]
    BY <1>2, <1>3
  <2>2. TypeOK
    BY DEF IInv
  <2> QED BY <1>2, <1>6, <2>1, <2>2 DEF TypeOK, ringvars, wvars
<1>8. Ring' /\ Counted'
  BY <1>2 DEF IInv, Ring, Counted, ringvars, wvars
<1>9. Budget'
  <2>1. \A d \in Commands : owner'[d] = "nobody" => size'[d] = 0
    BY <1>2, <1>3 DEF IInv, Budget
  <2> QED BY <1>6, <2>1 DEF Budget
<1> QED BY <1>5, <1>7, <1>8, <1>9 DEF IInv

LEMMA NextInvariant ==
  ASSUME ReleaseAssumption, IInv, [ReleaseNext]_releasevars
  PROVE  IInv'
<1>1. ASSUME NEW c \in Commands, Release(c) PROVE IInv'
  BY <1>1, ReleaseInvariant
<1>2. CASE Flush \/ FlushNothing \/ PushTest
  BY <1>2, FlushInvariant
<1>3. CASE PushProd
  BY <1>3, PushProdInvariant
<1>4. CASE PushClear
  BY <1>4, PushClearInvariant
<1>5. CASE GcRead
  BY <1>5, GcReadInvariant
<1>6. CASE GcPop
  BY <1>6, GcPopInvariant
<1>7. CASE GcFree
  BY <1>7, GcFreeInvariant
<1>8. CASE GcChainEnd
  BY <1>8, GcChainEndInvariant
<1>9. ASSUME NEW c \in Commands, Alloc(c) PROVE IInv'
  BY <1>9, AllocInvariant
<1>10. CASE \/ \E s \in Sizes : AllocCall(s)
            \/ AllocFails \/ AllocRetry \/ NotifyOom \/ NotifyOomTwice \/ OomCollected
            \/ OomSleep \/ OomReturn \/ GcReturn
  BY <1>10, QuietInvariant
<1>11. CASE UNCHANGED releasevars
  <2>1. UNCHANGED <<ringvars, memvars, wvars, oom, xvars>>
    BY <1>11 DEF releasevars
  <2>2. TypeOK' /\ Ring' /\ Budget' /\ Counted'
    BY <2>1 DEF IInv, TypeOK, Ring, Budget, Counted, ringvars, memvars, wvars, xvars
  <2>3. PICK Q, B, W : Hold(Q, B, W)
    BY DEF IInv, Held
  <2>4. Hold(Q, B, W)'
    BY <2>1, <2>3
       DEF Hold, Queued, Built, Walked, Apart, Covers, ringvars, memvars, wvars, xvars
  <2>5. Held'
    BY <2>4 DEF Held
  <2> QED BY <2>2, <2>5 DEF IInv
<1> QED BY <1>1, <1>2, <1>3, <1>4, <1>5, <1>6, <1>7, <1>8, <1>9, <1>10, <1>11
        DEF ReleaseNext, Worker, Collect, Allocate

-----------------------------------------------------------------------------
LEMMA AlwaysIInv == ASSUME ReleaseAssumption PROVE ReleaseSpec => []IInv
<1>1. ReleaseInit => IInv
  BY InitInvariant
<1>2. IInv /\ [ReleaseNext]_releasevars => IInv'
  BY NextInvariant
<1> QED BY <1>1, <1>2, PTL DEF ReleaseSpec

(* Every variable of the release ring and of qxl_allocnf keeps its type:   *)
(* memory is never owed or given back twice, and no count is too large.    *)
THEOREM TypeCorrect == ASSUME ReleaseAssumption PROVE ReleaseSpec => []TypeOK
<1>1. IInv => TypeOK
  BY DEF IInv
<1> QED BY <1>1, AlwaysIInv, PTL

(* What the device has released is on exactly one chain until X has freed  *)
(* it, however the worker's pushes (qxl_push_free_res) and X's collections *)
(* (qxl_garbage_collect) are interleaved.                                  *)
THEOREM ReleasedOnceTheorem == ASSUME ReleaseAssumption PROVE ReleaseSpec => []ReleasedOnce
<1>1. IInv => ReleasedOnce
  BY InvariantImplies
<1> QED BY <1>1, AlwaysIInv, PTL

(* X never reads the slot the worker fills, and last_release and           *)
(* num_free_res are the tail and the length of the chain in it.            *)
THEOREM BuildingIntactTheorem == ASSUME ReleaseAssumption PROVE ReleaseSpec => []BuildingIntact
<1>1. IInv => BuildingIntact
  BY InvariantImplies
<1> QED BY <1>1, AlwaysIInv, PTL
-----------------------------------------------------------------------------
(* X's patience: why qxl_allocnf does not conclude that memory is short.   *)

(* A chain that is published is not empty, a command that is not free      *)
(* takes memory, and a flush goes through unless the ring is full.         *)
Full ==
  /\ wpc \in {"test", "push"} => numFree > 0
  /\ oom = "flushing" => wpc # "top" /\ wflush
  /\ \A i \in SlotsOf(prod, cons) : slots[i] # Nil
  /\ \A c \in Commands : owner[c] # "nobody" => size[c] > 0
  /\ xpc # "idle" => xneed \in Sizes

LEMMA FullStarts == ASSUME ReleaseAssumption, ReleaseInit PROVE Full
<1>1. prod \in Counter /\ cons \in Counter /\ prod = cons
  BY Bounds DEF ReleaseInit, Counter
<1>2. SlotsOf(prod, cons) = {}
  BY <1>1, DistanceType DEF SlotsOf
<1> QED BY <1>2 DEF ReleaseInit, Full

(* Steps that leave chains, memory and the worker alone.                   *)
LEMMA FullKept ==
  ASSUME Full, UNCHANGED <<ringvars, size, owner, numFree, wpc, wflush>>,
         oom' = "flushing" => oom = "flushing",
         xpc' # "idle" => xneed' \in Sizes
  PROVE  Full'
BY DEF Full, ringvars, SlotsOf, Distance, Slot

LEMMA FullWorker ==
  ASSUME ReleaseAssumption, IInv, Full, Worker
  PROVE  Full'
<1>0. /\ prod \in Counter /\ cons \in Counter /\ Slot(prod) \notin SlotsOf(prod, cons)
      /\ numFree \in Nat /\ slots \in [0 .. NumItems - 1 -> Id]
  <2>1. prod \in Counter /\ cons \in Counter /\ Distance(prod, cons) <= NumItems - 1
    BY DEF IInv, TypeOK, Counter, Ring
  <2>2. numFree \in 0 .. Cardinality(Commands) /\ slots \in [0 .. NumItems - 1 -> Id]
    BY DEF IInv, TypeOK
  <2> QED BY <2>1, <2>2, FreeSlot, Bounds
<1>1. ASSUME NEW c \in Commands, Release(c) PROVE Full'
  <2>1. /\ wpc = "top" /\ owner[c] = "device" /\ owner' = [owner EXCEPT ![c] = "chain"]
        /\ numFree' = numFree + 1 /\ wpc' = "test"
        /\ oom' = (IF oom = "starved" THEN "freed" ELSE oom)
        /\ slots' \in {slots, [slots EXCEPT ![Slot(prod)] = c]}
        /\ UNCHANGED <<prod, cons, size, xvars>>
    BY <1>1 DEF Release
  <2>2. \A i \in SlotsOf(prod, cons) : i # Slot(prod) /\ slots'[i] = slots[i]
    <3>1. SlotsOf(prod, cons) \subseteq 0 .. NumItems - 1
      BY <1>0, SlotsOfType
    <3> QED BY <1>0, <2>1, <3>1
  <2>3. \A i \in SlotsOf(prod', cons') : slots'[i] # Nil
    BY <2>1, <2>2 DEF Full
  <2>4. \A d \in Commands : owner'[d] # "nobody" => owner[d] # "nobody"
    <3>1. owner \in [Commands -> {"nobody", "device", "chain"}]
      BY DEF IInv, TypeOK
    <3> QED BY <2>1, <3>1
  <2>5. oom' # "flushing"
    BY <2>1 DEF Full
  <2> QED BY <1>0, <2>1, <2>3, <2>4, <2>5 DEF Full, xvars
<1>2. CASE Flush
  <2>1. /\ numFree > 0 /\ wpc' = "test" /\ wflush' = TRUE
        /\ UNCHANGED <<ringvars, memvars, last, numFree, xvars>>
    BY <1>2 DEF Flush
  <2> QED BY <2>1 DEF Full, ringvars, memvars, xvars, SlotsOf, Distance, Slot
<1>3. CASE FlushNothing
  <2>1. /\ oom' # "flushing" /\ UNCHANGED <<ringvars, memvars, wvars, xvars>>
    BY <1>3 DEF FlushNothing
  <2> QED BY <2>1, FullKept DEF Full, memvars, wvars, xvars
<1>4. CASE PushTest
  <2>1. /\ wpc = "test" /\ wpc' \in {"top", "push"} /\ (wpc' = "top" => oom' # "flushing")
        /\ (wpc' = "push" => oom' = oom)
        /\ UNCHANGED <<ringvars, memvars, last, numFree, wflush, xvars>>
    BY <1>4 DEF PushTest, OomAfterPush
  <2> QED BY <2>1 DEF Full, ringvars, memvars, xvars, SlotsOf, Distance, Slot
<1>5. CASE PushProd
  <2>1. /\ wpc = "push" /\ prod' = Inc(prod) /\ wpc' = "clear"
        /\ UNCHANGED <<cons, slots, memvars, last, numFree, wflush, oom, xvars>>
    BY <1>5 DEF PushProd
  <2>2. Distance(prod, cons) <= NumItems - 2
    BY <2>1 DEF IInv, Ring
  <2>3. SlotsOf(prod', cons') = SlotsOf(prod, cons) \union {Slot(prod)}
    BY <1>0, <2>1, <2>2, SlotsAfterPush
  <2>4. slots[Slot(prod)] # Nil
    <3>1. PICK Q, B, W : Hold(Q, B, W)
      BY DEF IInv, Held
    <3>2. Links(next, slots[Slot(prod)], B) /\ numFree = Cardinality(B)
      BY <2>1, <3>1 DEF Hold, Built
    <3>3. numFree > 0 /\ Cardinality({}) = 0
      BY <2>1, FS_EmptySet DEF Full
    <3>4. B # {}
      BY <3>2, <3>3
    <3> QED BY <3>2, <3>4, LinksType
  <2>5. \A i \in SlotsOf(prod', cons') : slots'[i] # Nil
    BY <2>1, <2>3, <2>4 DEF Full
  <2> QED BY <2>1, <2>5 DEF Full, memvars, xvars
<1>6. CASE PushClear
  <2>1. /\ wpc = "clear" /\ slots' = [slots EXCEPT ![Slot(prod)] = Nil] /\ wpc' = "top"
        /\ oom' # "flushing"
        /\ UNCHANGED <<prod, cons, memvars, wflush, xvars>>
    BY <1>6 DEF PushClear, OomAfterPush
  <2>2. \A i \in SlotsOf(prod, cons) : slots'[i] = slots[i]
    BY <1>0, <2>1
  <2>3. \A i \in SlotsOf(prod', cons') : slots'[i] # Nil
    BY <2>1, <2>2 DEF Full
  <2> QED BY <2>1, <2>3 DEF Full, memvars, xvars
<1> QED BY <1>1, <1>2, <1>3, <1>4, <1>5, <1>6 DEF Worker

LEMMA FullX ==
  ASSUME ReleaseAssumption, IInv, Full, Collect \/ Allocate \/ \E s \in Sizes : AllocCall(s)
  PROVE  Full'
<1>1. CASE GcPop
  <2>1. /\ xpc = "pop" /\ cons' = Inc(cons) /\ xpc' = "walk"
        /\ UNCHANGED <<prod, slots, memvars, wvars, oom, xneed>>
    BY <1>1 DEF GcPop
  <2>2. SlotsOf(prod', cons') \subseteq SlotsOf(prod, cons)
    <3>1. prod \in Counter /\ cons \in Counter /\ Distance(prod, cons) <= NumItems - 1
          /\ prod # cons
      BY <2>1 DEF IInv, TypeOK, Counter, Ring
    <3> QED BY <2>1, <3>1, SlotsAfterPop
  <2> QED BY <2>1, <2>2 DEF Full, memvars, wvars
<1>2. CASE GcFree
  <2>1. /\ xpc = "walk" /\ owner' = [owner EXCEPT ![xid] = "nobody"]
        /\ size' = [size EXCEPT ![xid] = 0]
        /\ UNCHANGED <<ringvars, next, wvars, oom, xpc, xback, xneed, attempts>>
    BY <1>2 DEF GcFree
  <2>2. \A c \in Commands : owner'[c] # "nobody" => c # xid /\ owner[c] # "nobody"
    <3>1. owner \in [Commands -> {"nobody", "device", "chain"}]
      BY DEF IInv, TypeOK
    <3> QED BY <2>1, <3>1
  <2>3. \A c \in Commands : c # xid => size'[c] = size[c]
    <3>1. size \in [Commands -> 0 .. Memory]
      BY DEF IInv, TypeOK
    <3> QED BY <2>1, <3>1
  <2>4. \A c \in Commands : owner'[c] # "nobody" => size'[c] > 0
    BY <2>2, <2>3 DEF Full
  <2> QED BY <2>1, <2>4 DEF Full, ringvars, wvars, SlotsOf, Distance, Slot
<1>3. ASSUME NEW c \in Commands, Alloc(c) PROVE Full'
  <2>1. /\ xpc = "try" /\ owner' = [owner EXCEPT ![c] = "device"]
        /\ size' = [size EXCEPT ![c] = xneed] /\ xpc' = "idle"
        /\ UNCHANGED <<ringvars, next, wvars, oom, xneed>>
    BY <1>3 DEF Alloc
  <2>2. xneed \in Nat /\ xneed > 0
    <3>1. xneed \in 1 .. Memory
      BY <2>1, Bounds DEF Full
    <3> QED BY <3>1, Bounds
  <2>3. \A d \in Commands : owner'[d] # "nobody" => size'[d] > 0
    <3>1. /\ owner \in [Commands -> {"nobody", "device", "chain"}]
          /\ size \in [Commands -> 0 .. Memory]
      BY DEF IInv, TypeOK
    <3> QED BY <2>1, <2>2, <3>1 DEF Full
  <2> QED BY <2>1, <2>3 DEF Full, ringvars, wvars, SlotsOf, Distance, Slot
<1>4. CASE GcRead BY <1>4, FullKept DEF GcRead, Full, memvars, wvars
<1>5. CASE GcChainEnd BY <1>5, FullKept DEF GcChainEnd, Full, memvars, wvars
<1>6. CASE GcReturn BY <1>6, FullKept DEF GcReturn, Full, memvars, wvars
<1>7. CASE \E s \in Sizes : AllocCall(s)
  BY <1>7, FullKept DEF AllocCall, CallGC, Full, memvars, wvars
<1>8. CASE AllocFails BY <1>8, FullKept DEF AllocFails, CallGC, Full, memvars, wvars
<1>9. CASE AllocRetry BY <1>9, FullKept DEF AllocRetry, Full, memvars, wvars
<1>10. CASE NotifyOom BY <1>10, FullKept DEF NotifyOom, CallGC, Full, memvars, wvars
<1>11. CASE NotifyOomTwice BY <1>11, FullKept DEF NotifyOomTwice, CallGC, Full, memvars, wvars
<1>12. CASE OomCollected BY <1>12, FullKept DEF OomCollected, CallGC, Full, memvars, wvars
<1>13. CASE OomSleep BY <1>13, FullKept DEF OomSleep, CallGC, Full, memvars, wvars
<1>14. CASE OomReturn BY <1>14, FullKept DEF OomReturn, Full, memvars, wvars
<1> QED BY <1>1, <1>2, <1>3, <1>4, <1>5, <1>6, <1>7, <1>8, <1>9, <1>10, <1>11, <1>12,
           <1>13, <1>14 DEF Collect, Allocate

LEMMA FullInvariant ==
  ASSUME ReleaseAssumption, IInv, Full, [ReleaseNext]_releasevars
  PROVE  Full'
<1>1. CASE UNCHANGED releasevars
  BY <1>1, FullKept DEF Full, releasevars, memvars, wvars, xvars
<1> QED BY <1>1, FullWorker, FullX DEF ReleaseNext

(* X's call, as far as it has come: the collection that returns to b, or b. *)
At(b) == xpc = b \/ (xpc \in {"gc", "pop", "walk"} /\ xback = b)

(* A round of qxl_allocnf from its failure to allocate to its end.         *)
Asking == At("retry") \/ xpc \in {"oom", "oomtwice"}

(* X will free a command before its collection ends, or the worker will    *)
(* publish a chain before the request that is pending is served.           *)
Found == cons # prod \/ xpc = "pop" \/ (xpc = "walk" /\ xid # Nil)

Coming ==
  \/ oom \in {"asked", "starved"}
  \/ oom = "freed" /\ numFree > 0 /\ wpc # "clear"
  \/ oom = "flushing" /\ wpc # "clear"

Unasked == IF oom = "none" THEN 1 ELSE 0

(* A round finds nothing only if the request it relied on was an earlier   *)
(* one, and an earlier one is left over only by a round that freed         *)
(* something: there are at most two rounds for each unit that is freed.    *)
Patience ==
  /\ xpc = "exit" => MaxAttempts <= 2 * xneed
  /\ attempts <= 2 * xneed
  /\ At("try") \/ Asking => attempts <= 2 * avail + Unasked
  /\ Asking \/ At("oom1") \/ At("oom2") => attempts < 2 * xneed
  /\ (At("retry") \/ At("oom1")) /\ xcount = 0 => avail < xneed
  /\ xpc \in {"oom", "oomtwice"} => avail < xneed
  /\ At("oom1") /\ xcount > 0 => attempts < 2 * avail
  /\ At("oom1") /\ xcount = 0 =>
       attempts <= 2 * avail \/ (attempts = 2 * avail + 1 /\ (Found \/ Coming))
  /\ At("oom2") /\ xcount = 0 =>
       attempts < 2 * avail + Unasked \/ (xpc # "oom2" /\ Found)

LEMMA Numbers ==
  ASSUME ReleaseAssumption, IInv
  PROVE  /\ avail \in Nat /\ attempts \in Nat /\ xneed \in Nat /\ xcount \in Nat
         /\ avail <= Memory /\ xneed <= Memory /\ Memory \in Nat
         /\ MaxAttempts \in Nat /\ numFree \in Nat
         /\ Unasked \in {0, 1} /\ (Unasked = 1 <=> oom = "none")
         /\ prod \in Counter /\ cons \in Counter
<1>1. /\ avail \in 0 .. Memory /\ attempts \in 0 .. MaxAttempts /\ xneed \in 0 .. Memory
      /\ xcount \in 0 .. Cardinality(Commands) /\ numFree \in 0 .. Cardinality(Commands)
      /\ prod \in 0 .. Modulus - 1 /\ cons \in 0 .. Modulus - 1
  BY Bounds DEF IInv, TypeOK
<1> QED BY <1>1, Bounds DEF Unasked, Counter

(* If the worker has nothing to flush and the device has nothing either,   *)
(* and X has collected all there was, then all memory is free.             *)
LEMMA AllReturned ==
  ASSUME ReleaseAssumption, IInv, wpc = "top", numFree = 0, ~ Found,
         ~ \E c \in Commands : owner[c] = "device"
  PROVE  avail = Memory
<1>1. PICK Q, B, W : Hold(Q, B, W)
  BY DEF IInv, Held
<1>2. SlotsOf(prod, cons) = {}
  <2>1. cons = prod /\ prod \in Counter /\ cons \in Counter
    BY Numbers DEF Found
  <2> QED BY <2>1, DistanceType DEF SlotsOf
<1>3. DOMAIN Q = {}
  BY <1>1, <1>2 DEF Hold, Queued
<1>4. B = {}
  <2>1. Links(next, slots[Slot(prod)], B) /\ Cardinality(B) = 0
    BY <1>1 DEF Hold, Built
  <2>2. IsFiniteSet(B)
    BY <2>1, LinksType, Bounds, FS_Subset
  <2> QED BY <2>1, <2>2, FS_EmptySet
<1>5. W = {}
  BY <1>1, LinksType DEF Hold, Walked, Found
<1>6. \A c \in Commands : owner[c] = "nobody"
  <2>1. \A c \in Commands : owner[c] # "chain"
    BY <1>1, <1>3, <1>4, <1>5 DEF Hold, Covers
  <2> QED BY <2>1 DEF IInv, TypeOK
<1>7. Taken(size) = {}
  <2>1. \A c \in Commands : size[c] = 0
    BY <1>6 DEF IInv, Budget
  <2> QED BY <2>1, Bounds DEF Taken
<1>8. avail + Cardinality({}) = Memory
  BY <1>7 DEF IInv, Budget
<1> QED BY <1>8, FS_EmptySet, Numbers

(* What the worker may do to X's patience.                                 *)
LEMMA PatienceKept ==
  ASSUME ReleaseAssumption, IInv, Patience,
         UNCHANGED <<xvars, avail>>,
         oom = "none" => oom' = "none",
         Found => Found',
         At("oom1") /\ xcount = 0 /\ ~ Found /\ Coming => Found' \/ Coming'
  PROVE  Patience'
<1>1. /\ Unasked \in {0, 1} /\ Unasked' \in {0, 1} /\ Unasked <= Unasked'
      /\ avail \in Nat /\ attempts \in Nat
  BY Numbers DEF Unasked
<1>2. /\ xpc' = xpc /\ xback' = xback /\ xcount' = xcount /\ xneed' = xneed
      /\ attempts' = attempts /\ avail' = avail
  BY DEF xvars
<1>4. At("oom1")' /\ xcount' = 0 => attempts' <= 2 * avail'
          \/ (attempts' = 2 * avail' + 1 /\ (Found' \/ Coming'))
  BY <1>2 DEF Patience, At
<1>5. \A n, d \in Nat, u, v \in {0, 1} :
        u <= v => (d < 2 * n + u => d < 2 * n + v) /\ (d <= 2 * n + u => d <= 2 * n + v)
  OBVIOUS
<1>6. /\ attempts < 2 * avail + Unasked => attempts < 2 * avail + Unasked'
      /\ attempts <= 2 * avail + Unasked => attempts <= 2 * avail + Unasked'
  BY <1>1, <1>5
<1>7. At("oom2")' /\ xcount' = 0 =>
          attempts' < 2 * avail' + Unasked' \/ (xpc' # "oom2" /\ Found')
  BY <1>2, <1>6 DEF Patience, At
<1>8. At("try")' \/ Asking' => attempts' <= 2 * avail' + Unasked'
  BY <1>2, <1>6 DEF Patience, At, Asking
<1> QED BY <1>2, <1>4, <1>7, <1>8 DEF Patience, At, Asking

LEMMA PatienceWorker ==
  ASSUME ReleaseAssumption, IInv, Full, Patience, Worker
  PROVE  Patience'
<1>1. CASE \/ \E c \in Commands : Release(c)
           \/ Flush
  <2>1. /\ UNCHANGED <<prod, cons, avail, xvars>> /\ wpc = "top"
        /\ wpc' = "test" /\ oom # "flushing"
        /\ \/ numFree' = numFree + 1 /\ oom' = (IF oom = "starved" THEN "freed" ELSE oom)
           \/ oom \in {"asked", "freed"} /\ oom' = "flushing"
    BY <1>1 DEF Release, Flush, ringvars, memvars, Full
  <2>2. Found => Found'
    BY <2>1 DEF Found, xvars
  <2>3. Coming => Coming'
    BY <2>1, Numbers DEF Coming
  <2>4. oom = "none" => oom' = "none"
    BY <2>1
  <2> QED BY <2>1, <2>2, <2>3, <2>4, PatienceKept
<1>2. CASE FlushNothing
  <2>1. /\ UNCHANGED <<prod, cons, avail, numFree, wpc, xvars>> /\ wpc = "top"
        /\ oom \in {"asked", "freed"} /\ numFree = 0
        /\ oom' = (IF oom = "asked" /\ \E c \in Commands : owner[c] = "device"
                     THEN "starved" ELSE "none")
    BY <1>2 DEF FlushNothing, ringvars, memvars, wvars
  <2>2. Found => Found'
    BY <2>1 DEF Found, xvars
  <2>3. ASSUME At("oom1"), xcount = 0, ~ Found, Coming
        PROVE  Coming'
    <3>1. oom = "asked"
      BY <2>1, <2>3 DEF Coming
    <3>2. CASE \E c \in Commands : owner[c] = "device"
      BY <2>1, <3>1, <3>2 DEF Coming
    <3>3. CASE ~ \E c \in Commands : owner[c] = "device"
      <4>1. avail = Memory
        BY <2>1, <2>3, <3>3, AllReturned
      <4>2. avail < xneed
        BY <2>3 DEF Patience
      <4> QED BY <4>1, <4>2, Numbers
    <3> QED BY <3>2, <3>3
  <2> QED BY <2>1, <2>2, <2>3, PatienceKept
<1>3. CASE PushTest
  <2>1. /\ UNCHANGED <<prod, cons, avail, numFree, xvars>> /\ wpc = "test"
        /\ IF RingFull \/ (~wflush /\ numFree < Bunch)
             THEN wpc' = "top" /\ oom' = OomAfterPush
             ELSE wpc' = "push" /\ oom' = oom
    BY <1>3 DEF PushTest, ringvars, memvars
  <2>2. Found => Found'
    BY <2>1 DEF Found, xvars
  <2>3. ASSUME ~ Found, Coming
        PROVE  Coming'
    <3>1. ~ RingFull
      <4>1. cons = prod /\ prod \in Counter
        BY <2>3, Numbers DEF Found
      <4>2. Used = 0
        BY <4>1, DistanceAfter DEF Used
      <4>3. (0 + 1) % Modulus # NumItems
        BY Bounds
      <4> QED BY <4>2, <4>3 DEF RingFull
    <3>2. oom = "flushing" => wflush
      BY DEF Full
    <3>3. oom' = oom /\ wpc' # "clear"
      BY <2>1, <2>3, <3>1, <3>2 DEF OomAfterPush
    <3>4. wpc # "clear"
      BY <2>1
    <3> QED BY <2>1, <2>3, <3>3 DEF Coming
  <2>4. oom = "none" => oom' = "none"
    BY <2>1 DEF OomAfterPush
  <2> QED BY <2>1, <2>2, <2>3, <2>4, PatienceKept
<1>4. CASE PushProd
  <2>1. /\ prod' = Inc(prod) /\ UNCHANGED <<cons, avail, oom, xvars>> /\ wpc = "push"
    BY <1>4 DEF PushProd, memvars
  <2>2. prod \in Counter /\ cons \in Counter /\ Distance(prod, cons) <= NumItems - 2
    BY <2>1, Numbers DEF IInv, Ring
  <2>3. Distance(prod', cons) = Distance(prod, cons) + 1 /\ prod' \in Counter
        /\ Distance(prod, cons) \in Nat
    BY <2>1, <2>2, SlotsAfterPush, IncIs, DistanceType
  <2>4. prod' # cons
    BY <2>2, <2>3, DistanceType
  <2>5. Found'
    BY <2>1, <2>4 DEF Found
  <2> QED BY <2>1, <2>5, PatienceKept
<1>5. CASE PushClear
  <2>1. /\ UNCHANGED <<prod, cons, avail, xvars>> /\ wpc = "clear" /\ wpc' = "top"
        /\ oom' = OomAfterPush
    BY <1>5 DEF PushClear, memvars
  <2>2. Found => Found'
    BY <2>1 DEF Found, xvars
  <2>3. Coming => Coming'
    BY <2>1 DEF Coming, OomAfterPush
  <2>4. oom = "none" => oom' = "none"
    BY <2>1 DEF OomAfterPush
  <2> QED BY <2>1, <2>2, <2>3, <2>4, PatienceKept
<1> QED BY <1>1, <1>2, <1>3, <1>4, <1>5 DEF Worker

LEMMA PatienceCollect ==
  ASSUME ReleaseAssumption, IInv, Full, Patience, Collect
  PROVE  Patience'
<1>1. CASE GcRead
  <2>1. /\ xpc = "gc" /\ cons # prod /\ xpc' = "pop"
        /\ UNCHANGED <<cons, prod, avail, oom, xback, xcount, xneed, attempts>>
    BY <1>1 DEF GcRead, ringvars, memvars
  <2> QED BY <2>1 DEF Patience, At, Asking, Found, Unasked
<1>2. CASE GcPop
  <2>1. /\ xpc = "pop" /\ xpc' = "walk"
        /\ UNCHANGED <<prod, avail, oom, xback, xid, xcount, xneed, attempts>>
    BY <1>2 DEF GcPop, memvars
  <2>2. xid # Nil
    <3>1. /\ xid = slots[Slot(cons)] /\ prod # cons /\ Distance(prod, cons) <= NumItems - 1
          /\ prod \in Counter /\ cons \in Counter
      BY <2>1, Numbers DEF IInv, Ring
    <3>2. Slot(cons) \in SlotsOf(prod, cons)
      BY <3>1, SlotsAfterPop
    <3> QED BY <3>1, <3>2 DEF Full
  <2>3. Found'
    BY <2>1, <2>2 DEF Found
  <2> QED BY <2>1, <2>3 DEF Patience, At, Asking, Unasked
<1>3. CASE GcFree
  <2>1. /\ xpc = "walk" /\ xid # Nil /\ xcount' = xcount + 1 /\ avail' = avail + size[xid]
        /\ UNCHANGED <<oom, xpc, xback, xneed, attempts>>
    BY <1>3 DEF GcFree
  <2>2. size[xid] \in Nat /\ size[xid] > 0
    <3>1. PICK Q, B, W : Hold(Q, B, W)
      BY DEF IInv, Held
    <3>2. Links(next, xid, W) /\ Covers(Q, B, W)
      BY <2>1, <3>1 DEF Hold, Walked
    <3>3. xid \in Commands /\ owner[xid] = "chain"
      BY <2>1, <3>2, LinksType DEF Covers
    <3> QED BY <3>3, Bounds DEF Full, IInv, TypeOK
  <2> DEFINE n == size[xid]
  <2> HIDE DEF n
  <2>3. n \in Nat /\ n > 0 /\ avail' = avail + n
    BY <2>1, <2>2 DEF n
  <2>4. At("oom1")' => attempts' < 2 * avail'
    BY <2>1, <2>3, Numbers DEF Patience, At
  <2>5. At("try")' \/ Asking' => attempts' <= 2 * avail' + Unasked'
    <3>1. SUFFICES ASSUME At("try") \/ Asking
                   PROVE  attempts <= 2 * (avail + n) + Unasked
      BY <2>1, <2>3 DEF At, Asking, Unasked
    <3>2. attempts <= 2 * avail + Unasked
      BY <3>1 DEF Patience
    <3> HIDE DEF Unasked
    <3> QED BY <2>3, <3>2, Numbers
  <2>6. xcount' # 0 /\ xcount' > 0
    BY <2>1, Numbers
  <2>7. Asking' \/ At("oom1")' \/ At("oom2")' => attempts' < 2 * xneed'
    BY <2>1 DEF Patience, At, Asking
  <2> QED BY <2>1, <2>4, <2>5, <2>6, <2>7 DEF Patience
<1>4. CASE GcChainEnd
  <2>1. /\ xpc = "walk" /\ xid = Nil /\ xpc' = "gc"
        /\ UNCHANGED <<prod, cons, avail, oom, xback, xid, xcount, xneed, attempts>>
        /\ UNCHANGED <<numFree, wpc>>
    BY <1>4 DEF GcChainEnd, ringvars, memvars, wvars
  <2> QED BY <2>1 DEF Patience, At, Asking, Found, Coming, Unasked
<1>5. CASE GcReturn
  <2>1. /\ xpc = "gc" /\ cons = prod /\ xpc' = xback
        /\ UNCHANGED <<prod, cons, avail, oom, xback, xid, xcount, xneed, attempts>>
        /\ UNCHANGED <<numFree, wpc>> /\ xback \in {"try", "retry", "oom1", "oom2"}
    BY <1>5 DEF GcReturn, ringvars, memvars, wvars, IInv, TypeOK
  <2> QED BY <2>1 DEF Patience, At, Asking, Found, Coming, Unasked
<1> QED BY <1>1, <1>2, <1>3, <1>4, <1>5 DEF Collect

LEMMA PatienceAllocate ==
  ASSUME ReleaseAssumption, Prompt, IInv, Full, Patience,
         Allocate \/ \E s \in Sizes : AllocCall(s)
  PROVE  Patience'
<1>0. /\ avail \in Nat /\ attempts \in Nat /\ xneed \in Nat /\ xcount \in Nat
      /\ Unasked \in {0, 1} /\ (Unasked = 1 <=> oom = "none")
  BY Numbers
<1>1. CASE \E s \in Sizes : AllocCall(s)
  <2>1. /\ attempts' = 0 /\ xpc' = "gc" /\ xback' = "try" /\ UNCHANGED <<avail, oom>>
    BY <1>1 DEF AllocCall, CallGC, memvars
  <2>2. attempts' <= 2 * avail' + Unasked'
    BY <1>0, <2>1 DEF Unasked
  <2>3. attempts' <= 2 * xneed'
    BY <1>1, <2>1, Bounds DEF AllocCall, ReleaseAssumption
  <2> QED BY <2>1, <2>2, <2>3 DEF Patience, At, Asking
<1>2. CASE \E c \in Commands : Alloc(c)
  <2>1. xpc' = "idle" /\ UNCHANGED <<xneed, attempts>>
    BY <1>2 DEF Alloc
  <2> QED BY <2>1 DEF Patience, At, Asking
<1>3. CASE AllocFails
  <2>1. /\ xpc = "try" /\ xneed > avail /\ xpc' = "gc" /\ xback' = "retry" /\ xcount' = 0
        /\ UNCHANGED <<avail, oom, xneed, attempts>>
    BY <1>3 DEF AllocFails, CallGC, memvars
  <2>2. attempts <= 2 * avail + Unasked
    BY <2>1 DEF Patience, At
  <2>3. attempts < 2 * xneed /\ avail < xneed
    <3> HIDE DEF Unasked
    <3> QED BY <1>0, <2>1, <2>2
  <2> QED BY <2>1, <2>2, <2>3 DEF Patience, At, Asking, Unasked
<1>4. CASE AllocRetry
  <2>1. /\ xpc = "retry" /\ xpc' = (IF xcount > 0 THEN "try" ELSE "oom")
        /\ UNCHANGED <<avail, oom, xback, xcount, xneed, attempts>>
    BY <1>4 DEF AllocRetry, memvars
  <2>2. xcount > 0 \/ xcount = 0
    BY <1>0
  <2> QED BY <2>1, <2>2 DEF Patience, At, Asking, Unasked
<1>5. CASE NotifyOom
  <2>1. /\ xpc = "oom" /\ UNCHANGED <<prod, cons, avail, oom, xneed, attempts>>
        /\ IF cons # prod THEN xpc' = "gc" /\ xback' = "oom1" /\ xcount' = 0
                          ELSE xpc' = "oomtwice"
    BY <1>5 DEF NotifyOom, CallGC, ringvars, memvars
  <2>2. attempts <= 2 * avail + Unasked /\ attempts < 2 * xneed /\ avail < xneed
    BY <2>1 DEF Patience, Asking
  <2>3. CASE cons # prod
    <3>1. Found'
      BY <2>1, <2>3 DEF Found
    <3>2. attempts <= 2 * avail \/ attempts = 2 * avail + 1
      <4> HIDE DEF Unasked
      <4> QED BY <1>0, <2>2
    <3> QED BY <2>1, <2>2, <2>3, <3>1, <3>2 DEF Patience, At, Asking
  <2>4. CASE cons = prod
    BY <2>1, <2>2, <2>4 DEF Patience, At, Asking, Unasked
  <2> QED BY <2>3, <2>4
<1>6. CASE NotifyOomTwice
  <2>1. /\ xpc = "oomtwice" /\ UNCHANGED <<prod, cons, avail, xneed, attempts>>
        /\ xpc' = "gc" /\ xback' = "oom1" /\ xcount' = 0
        /\ oom' = (IF cons = prod /\ oom = "none" THEN "asked" ELSE oom)
    BY <1>6 DEF NotifyOomTwice, CallGC, ringvars, memvars
  <2>2. attempts <= 2 * avail + Unasked /\ attempts < 2 * xneed /\ avail < xneed
    BY <2>1 DEF Patience, Asking
  <2>3. attempts <= 2 * avail \/ (attempts = 2 * avail + 1 /\ (Found' \/ Coming'))
    <3>1. CASE cons # prod
      <4>1. Found'
        BY <2>1, <3>1 DEF Found
      <4> HIDE DEF Unasked, Found, Coming
      <4> QED BY <1>0, <2>2, <4>1
    <3>2. CASE cons = prod /\ oom = "none"
      <4>1. Coming'
        BY <2>1, <3>2 DEF Coming
      <4> HIDE DEF Unasked, Found, Coming
      <4> QED BY <1>0, <2>2, <4>1
    <3>3. CASE oom # "none"
      <4>1. Unasked = 0
        BY <1>0, <3>3
      <4> HIDE DEF Unasked, Found, Coming
      <4> QED BY <1>0, <2>2, <4>1
    <3> QED BY <3>1, <3>2, <3>3
  <2> HIDE DEF Found, Coming
  <2> QED BY <2>1, <2>2, <2>3 DEF Patience, At, Asking
<1>7. CASE OomCollected
  <2>1. /\ xpc = "oom1" /\ xcount > 0 /\ UNCHANGED <<avail, oom, xneed, attempts>>
        /\ xpc' = "gc" /\ xback' = "oom2" /\ xcount' = 0
    BY <1>7 DEF OomCollected, CallGC, memvars
  <2>2. attempts < 2 * avail /\ attempts < 2 * xneed
    BY <2>1 DEF Patience, At
  <2>3. attempts < 2 * avail + Unasked
    <3> HIDE DEF Unasked
    <3> QED BY <1>0, <2>2
  <2> QED BY <2>1, <2>2, <2>3 DEF Patience, At, Asking, Unasked
<1>8. CASE OomSleep
  <2>1. /\ xpc = "oom1" /\ xcount = 0 /\ UNCHANGED <<prod, cons, avail, oom, xneed, attempts>>
        /\ xpc' = "gc" /\ xback' = "oom2" /\ xcount' = 0 /\ oom = "none"
    BY <1>8 DEF OomSleep, CallGC, memvars, ringvars
  <2>2. attempts < 2 * xneed /\ (attempts <= 2 * avail \/ Found)
    BY <2>1 DEF Patience, At, Coming
  <2>3. Found => Found'
    BY <2>1 DEF Found
  <2>4. Found' \/ attempts < 2 * avail + Unasked
    <3>1. Unasked = 1
      BY <1>0, <2>1
    <3> HIDE DEF Unasked, Found
    <3> QED BY <1>0, <2>2, <2>3, <3>1
  <2>5. Unasked' = Unasked
    BY <2>1 DEF Unasked
  <2> HIDE DEF Found, Unasked
  <2> QED BY <2>1, <2>2, <2>4, <2>5 DEF Patience, At, Asking
<1>9. CASE OomReturn
  <2>1. /\ xpc = "oom2" /\ UNCHANGED <<avail, oom, xback, xcount, xneed>>
        /\ IF xcount > 0 THEN attempts' = 0 /\ xpc' = "try"
           ELSE /\ attempts' = attempts + 1
                /\ xpc' = IF attempts + 1 = MaxAttempts THEN "exit" ELSE "try"
    BY <1>9 DEF OomReturn, memvars
  <2>2. attempts < 2 * xneed /\ (xcount = 0 => attempts < 2 * avail + Unasked)
    BY <2>1 DEF Patience, At
  <2>3. attempts' <= 2 * xneed'
    BY <1>0, <2>1, <2>2
  <2>4. xpc' = "exit" => MaxAttempts <= 2 * xneed'
    BY <1>0, <2>1, <2>3
  <2>5. xpc' \in {"try", "exit"}
    BY <2>1
  <2>6. attempts' <= 2 * avail' + Unasked'
    <3>1. Unasked' = Unasked
      BY <2>1 DEF Unasked
    <3> HIDE DEF Unasked
    <3>2. CASE xcount > 0
      BY <1>0, <2>1, <3>1, <3>2
    <3>3. CASE xcount = 0
      BY <1>0, <2>1, <2>2, <3>1, <3>3
    <3> QED BY <1>0, <3>2, <3>3
  <2> QED BY <2>3, <2>4, <2>5, <2>6 DEF Patience, At, Asking
<1> QED BY <1>1, <1>2, <1>3, <1>4, <1>5, <1>6, <1>7, <1>8, <1>9 DEF Allocate

LEMMA PatienceInvariant ==
  ASSUME ReleaseAssumption, Prompt, IInv, Full, Patience, [ReleaseNext]_releasevars
  PROVE  Patience'
<1>1. CASE UNCHANGED releasevars
  <2>1. UNCHANGED <<ringvars, memvars, wvars, oom, xvars>>
    BY <1>1 DEF releasevars
  <2> QED BY <2>1 DEF Patience, At, Asking, Found, Coming, Unasked,
                      ringvars, memvars, wvars, xvars
<1> QED BY <1>1, PatienceWorker, PatienceCollect, PatienceAllocate DEF ReleaseNext

(* While the worker answers within a sleep, X counts no more than two      *)
(* fruitless rounds for each unit that it needs (the loop of qxl_allocnf), *)
(* so it takes the machine to be out of memory only for a request of half  *)
(* as many units as it allows attempts; what the smallest command takes is *)
(* a unit.                                                                 *)
THEOREM FruitlessRoundsTheorem ==
  ASSUME ReleaseAssumption, Prompt
  PROVE  ReleaseSpec => []FruitlessRounds
<1>1. ReleaseInit => IInv /\ Full /\ Patience
  <2>1. ReleaseInit => Patience
    BY Bounds DEF ReleaseInit, Patience, At, Asking
  <2> QED BY <2>1, InitInvariant, FullStarts
<1>2. IInv /\ Full /\ Patience /\ [ReleaseNext]_releasevars => (IInv /\ Full /\ Patience)'
  BY NextInvariant, FullInvariant, PatienceInvariant
<1>3. Patience => FruitlessRounds
  BY DEF Patience, FruitlessRounds
<1> QED BY <1>1, <1>2, <1>3, PTL DEF ReleaseSpec
=============================================================================
