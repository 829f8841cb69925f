-------------------------- MODULE MainLoopProofs ---------------------------
(***************************************************************************)
(* CallsAreWanted and LoopIsSafe hold for any number of descriptors and    *)
(* watches, whatever watches callbacks and timers remove, and wherever in  *)
(* the ring those are.                                                     *)
(***************************************************************************)
EXTENDS MainLoop, SequenceTheorems, TLAPS

Steps == {"idle", "READ", "READ called", "WRITE", "WRITE called", "done"}

TypeOK ==
  /\ abi \in {"select", "notify"}
  /\ ready \in [Fds -> (SUBSET Events) \union {Closed}]
  /\ watch \in [Watches -> Watching \union {NoWatch}]
  /\ watches \in Seq(Watches)
  /\ notify \in [Fds -> [watch : Watches \union {NoWatch}, mask : SUBSET Events]]
  /\ rfds \subseteq Fds /\ wfds \subseteq Fds /\ xevents \subseteq Events
  /\ link \in Watches \union {NoWatch} /\ nextLink \in Watches \union {NoWatch}
  /\ at \in Steps /\ opened \subseteq Fds /\ freed \in BOOLEAN /\ wanted \in BOOLEAN

(* The descriptor of a watch is open.                                      *)
OpenFds == \A w \in Watches : Live(w) => ready[watch[w].fd] # Closed

Distinct(s) == \A i, j \in DOMAIN s : s[i] = s[j] => i = j

(* With select, the ring has each watch once, removed ones too.            *)
RingInv ==
  abi = "select" => /\ Distinct(watches)
                    /\ \A w \in Watches : Allocated(w) <=> w \in Range(watches)

(* What the loop has still to come to was there when X selected, and its   *)
(* descriptors are still those: what is added goes where X has been.       *)
Selects(w) == Place(w) >= Place(link) => watch[w].fd \notin opened

SelectInv ==
  abi = "select" /\ at # "idle" =>
    /\ link \in Range(watches)
    /\ nextLink # NoWatch => nextLink \in Range(watches) /\ Place(nextLink) = Place(link) + 1
    /\ \A w \in Range(watches) : Live(w) => Selects(w)

(* With notify, the X server's table has watches that are there, each for  *)
(* its descriptor, and the one that X has called for is there unless it    *)
(* was freed since.                                                        *)
TableInv ==
  abi = "notify" =>
    /\ watches = <<>>
    /\ \A w \in Watches : Allocated(w) => Live(w)
    /\ \A fd \in Fds : notify[fd] # NoNotify => notify[fd].watch # NoWatch
    /\ \A fd \in Fds, w \in Watches : notify[fd].watch = w => Live(w) /\ watch[w].fd = fd

NotifiedInv == abi = "notify" /\ at # "idle" /\ ~freed => Live(link)

(* The history begins anew with each round.                                *)
HistoryInv ==
  /\ at = "idle" => link = NoWatch
  /\ at = "idle" \/ abi = "select" => ~freed
  /\ at = "idle" \/ abi = "notify" => rfds = {} /\ wfds = {} /\ opened = {}
  /\ ~InCallback => wanted
  /\ CallsAreWanted

IInv ==
  TypeOK /\ OpenFds /\ RingInv /\ SelectInv /\ TableInv /\ NotifiedInv /\ HistoryInv

-----------------------------------------------------------------------------
(* Places in a ring whose watches are different.                           *)
LEMMA PlaceFound ==
  ASSUME NEW S, NEW s \in Seq(S), Distinct(s), NEW w \in Range(s)
  PROVE  /\ PlaceIn(s, w) \in 1 .. Len(s) /\ s[PlaceIn(s, w)] = w
         /\ \A i \in 1 .. Len(s) : s[i] = w => i = PlaceIn(s, w)
<1>1. \E i \in DOMAIN s : s[i] = w
  BY DEF Range
<1>2. PlaceIn(s, w) \in DOMAIN s /\ s[PlaceIn(s, w)] = w
  BY <1>1 DEF PlaceIn
<1> QED BY <1>2, LenProperties DEF Distinct

LEMMA PlaceOf ==
  ASSUME NEW S, NEW s \in Seq(S), Distinct(s), NEW i \in 1 .. Len(s)
  PROVE  s[i] \in Range(s) /\ PlaceIn(s, s[i]) = i
<1>1. s[i] \in Range(s)
  BY LenProperties DEF Range
<1> QED BY <1>1, PlaceFound

LEMMA Prepended ==
  ASSUME NEW S, NEW s \in Seq(S), Distinct(s), NEW w \in S, w \notin Range(s),
         NEW r, r = <<w>> \o s
  PROVE  /\ r \in Seq(S) /\ Distinct(r) /\ Range(r) = Range(s) \union {w}
         /\ PlaceIn(r, w) = 1
         /\ \A v \in Range(s) : PlaceIn(r, v) = PlaceIn(s, v) + 1
<1> DEFINE n == Len(s)
<1>1. n \in Nat /\ DOMAIN s = 1 .. n
  BY LenProperties
<1>2. /\ r \in Seq(S) /\ Len(r) = n + 1 /\ r[1] = w
      /\ \A i \in 1 .. n : r[i + 1] = s[i] /\ i + 1 \in 1 .. n + 1
      /\ \A i \in 1 .. n + 1 : i # 1 => r[i] = s[i - 1] /\ i - 1 \in 1 .. n
  OBVIOUS
<1>3. DOMAIN r = 1 .. n + 1
  BY <1>1, <1>2, LenProperties
<1>4. \A i \in 1 .. n : s[i] \in Range(s) /\ s[i] # w
  BY <1>1 DEF Range
<1> HIDE DEF n
<1>5. Distinct(r)
  <2> SUFFICES ASSUME NEW i \in 1 .. n + 1, NEW j \in 1 .. n + 1, r[i] = r[j] PROVE i = j
    BY <1>3 DEF Distinct
  <2>1. CASE i = 1 \/ j = 1
    BY <1>2, <1>4, <2>1
  <2>2. CASE i # 1 /\ j # 1
    <3>1. i - 1 \in 1 .. n /\ j - 1 \in 1 .. n /\ s[i - 1] = s[j - 1]
      BY <1>2, <2>2
    <3>2. i - 1 = j - 1
      BY <1>1, <3>1 DEF Distinct
    <3> QED BY <3>2
  <2> QED BY <2>1, <2>2
<1>6. Range(r) = Range(s) \union {w}
  <2>1. ASSUME NEW x \in Range(r) PROVE x \in Range(s) \union {w}
    <3>1. PICK i \in 1 .. n + 1 : x = r[i]
      BY <1>3, <2>1 DEF Range
    <3> QED BY <1>2, <1>4, <3>1
  <2>2. ASSUME NEW x \in Range(s) PROVE x \in Range(r)
    <3>1. PICK i \in 1 .. n : x = s[i]
      BY <1>1, <2>2 DEF Range
    <3>2. x = r[i + 1] /\ i + 1 \in DOMAIN r
      BY <1>2, <1>3, <3>1
    <3> QED BY <3>2 DEF Range
  <2>3. w \in Range(r)
    <3>1. 1 \in DOMAIN r
      BY <1>1, <1>3
    <3> QED BY <1>2, <3>1 DEF Range
  <2> QED BY <2>1, <2>2, <2>3
<1>7. PlaceIn(r, w) = 1
  <2>1. 1 \in 1 .. Len(r)
    BY <1>1, <1>2
  <2>2. PlaceIn(r, r[1]) = 1
    BY <1>2, <1>5, <2>1, PlaceOf
  <2> QED BY <1>2, <2>2
<1>8. ASSUME NEW v \in Range(s) PROVE PlaceIn(r, v) = PlaceIn(s, v) + 1
  <2> DEFINE p == PlaceIn(s, v)
  <2>1. p \in 1 .. n /\ s[p] = v
    BY PlaceFound DEF n
  <2> HIDE DEF p
  <2>2. p + 1 \in 1 .. Len(r) /\ r[p + 1] = v
    BY <1>2, <2>1
  <2>3. PlaceIn(r, r[p + 1]) = p + 1
    BY <1>2, <1>5, <2>2, PlaceOf
  <2> QED BY <2>2, <2>3 DEF p
<1> QED BY <1>2, <1>5, <1>6, <1>7, <1>8

LEMMA Removed ==
  ASSUME NEW S, NEW s \in Seq(S), Distinct(s), NEW i \in 1 .. Len(s),
         NEW r, r = RemoveAt(s, i)
  PROVE  /\ r \in Seq(S) /\ Distinct(r) /\ Range(r) = Range(s) \ {s[i]}
         /\ \A v \in Range(r) :
              PlaceIn(r, v) = IF PlaceIn(s, v) < i THEN PlaceIn(s, v) ELSE PlaceIn(s, v) - 1
<1> DEFINE n == Len(s)
           a == SubSeq(s, 1, i - 1)
           b == SubSeq(s, i + 1, n)
<1>1. n \in Nat /\ DOMAIN s = 1 .. n /\ i \in 1 .. n
  BY LenProperties
<1>2. /\ a \in Seq(S) /\ Len(a) = i - 1
      /\ \A k \in 1 .. i - 1 : a[k] = s[k]
  BY <1>1, SubSeqProperties
<1>3. /\ b \in Seq(S) /\ Len(b) = n - i
      /\ \A k \in 1 .. n - i : b[k] = s[i + k]
  <2>1. i + 1 \in 1 .. n + 1 /\ n \in i .. n
    BY <1>1
  <2>2. /\ b \in Seq(S) /\ Len(b) = (IF i + 1 <= n THEN n - (i + 1) + 1 ELSE 0)
        /\ \A k \in 1 .. n - (i + 1) + 1 : b[k] = s[(i + 1) + k - 1]
    BY <2>1, SubSeqProperties DEF n
  <2> HIDE DEF b, n
  <2>3. n - (i + 1) + 1 = n - i /\ (IF i + 1 <= n THEN n - (i + 1) + 1 ELSE 0) = n - i
    <3>1. n \in Int /\ i \in Int /\ i <= n
      BY <1>1
    <3> QED BY <3>1
  <2>4. \A k \in 1 .. n - i : (i + 1) + k - 1 = i + k
    BY <1>1
  <2> QED BY <1>1, <2>2, <2>3, <2>4
<1>4. r = a \o b
  BY DEF RemoveAt
<1> HIDE DEF a, b, n
<1>5. r \in Seq(S) /\ Len(r) = n - 1
  <2>1. r \in Seq(S) /\ Len(r) = Len(a) + Len(b)
    BY <1>2, <1>3, <1>4, ConcatProperties
  <2> QED BY <1>1, <1>2, <1>3, <2>1
<1>6. \A k \in 1 .. n - 1 : r[k] = IF k < i THEN s[k] ELSE s[k + 1]
  <2> TAKE k \in 1 .. n - 1
  <2>1. CASE k < i
    <3>1. k \in 1 .. i - 1
      BY <1>1, <2>1
    <3>2. r[k] = a[k]
      BY <1>1, <1>2, <1>3, <1>4, <3>1
    <3> QED BY <1>2, <2>1, <3>1, <3>2
  <2>2. CASE ~(k < i)
    <3>1. k - (i - 1) \in 1 .. n - i /\ i + (k - (i - 1)) = k + 1
      BY <1>1, <2>2
    <3>2. r[k] = b[k - (i - 1)]
      BY <1>1, <1>2, <1>3, <1>4, <2>2, <3>1
    <3> QED BY <1>3, <2>2, <3>1, <3>2
  <2> QED BY <2>1, <2>2
<1>7. DOMAIN r = 1 .. n - 1
  BY <1>5, LenProperties
<1>8. \A k, j \in 1 .. n : s[k] = s[j] => k = j
  BY <1>1 DEF Distinct
<1>9. Distinct(r)
  <2> SUFFICES ASSUME NEW k \in 1 .. n - 1, NEW j \in 1 .. n - 1, r[k] = r[j] PROVE k = j
    BY <1>7 DEF Distinct
  <2> DEFINE kk == IF k < i THEN k ELSE k + 1
             jj == IF j < i THEN j ELSE j + 1
  <2>1. kk \in 1 .. n /\ jj \in 1 .. n /\ r[k] = s[kk] /\ r[j] = s[jj]
    BY <1>1, <1>6
  <2>2. kk = jj
    <3> HIDE DEF kk, jj
    <3> QED BY <1>8, <2>1
  <2> QED BY <1>1, <2>2
<1>10. Range(r) = Range(s) \ {s[i]}
  <2>1. ASSUME NEW x \in Range(r) PROVE x \in Range(s) /\ x # s[i]
    <3>1. PICK k \in 1 .. n - 1 : x = r[k]
      BY <1>7, <2>1 DEF Range
    <3> DEFINE kk == IF k < i THEN k ELSE k + 1
    <3>2. kk \in 1 .. n /\ kk # i /\ x = s[kk]
      BY <1>1, <1>6, <3>1
    <3> HIDE DEF kk
    <3> QED BY <1>1, <1>8, <3>2 DEF Range
  <2>2. ASSUME NEW x \in Range(s), x # s[i] PROVE x \in Range(r)
    <3>1. PICK k \in 1 .. n : x = s[k] /\ k # i
      BY <1>1, <2>2 DEF Range
    <3> DEFINE kk == IF k < i THEN k ELSE k - 1
    <3>2. kk \in 1 .. n - 1 /\ x = r[kk]
      BY <1>1, <1>6, <3>1
    <3> HIDE DEF kk
    <3> QED BY <1>7, <3>2 DEF Range
  <2> QED BY <2>1, <2>2
<1>11. ASSUME NEW v \in Range(r)
       PROVE  PlaceIn(r, v) = IF PlaceIn(s, v) < i THEN PlaceIn(s, v) ELSE PlaceIn(s, v) - 1
  <2> DEFINE p == PlaceIn(s, v)
             q == IF p < i THEN p ELSE p - 1
  <2>1. p \in 1 .. n /\ s[p] = v
    BY <1>10, PlaceFound DEF n
  <2> HIDE DEF p
  <2>2. p # i
    BY <1>10, <2>1
  <2>3. q \in 1 .. n - 1 /\ r[q] = v
    BY <1>1, <1>6, <2>1, <2>2
  <2> HIDE DEF q
  <2>4. PlaceIn(r, r[q]) = q
    BY <1>5, <1>9, <2>3, PlaceOf
  <2> QED BY <2>3, <2>4 DEF q, p
<1> QED BY <1>5, <1>9, <1>10, <1>11

-----------------------------------------------------------------------------
LEMMA Starting == ASSUME LoopAssumption, LoopInit PROVE IInv
<1>1. TypeOK
  <2>1. opened \subseteq Fds /\ freed \in BOOLEAN /\ wanted \in BOOLEAN
    BY DEF LoopInit
  <2> QED BY <2>1 DEF LoopInit, TypeOK, NoNotify, Steps, LoopAssumption
<1>2. \A w \in Watches : ~Allocated(w)
  BY DEF LoopInit, Allocated
<1>3. OpenFds /\ TableInv /\ NotifiedInv
  BY <1>2 DEF LoopInit, OpenFds, Live, TableInv, NotifiedInv, NoNotify, LoopAssumption
<1>4. RingInv
  BY <1>2 DEF LoopInit, RingInv, Distinct, Range
<1>5. SelectInv
  BY DEF LoopInit, SelectInv
<1>6. HistoryInv
  <2>1. wanted /\ ~freed
    BY DEF LoopInit
  <2> QED BY <2>1 DEF LoopInit, HistoryInv, CallsAreWanted
<1> QED BY <1>1, <1>3, <1>4, <1>5, <1>6 DEF IInv

(* What the types give.                                                    *)
LEMMA Typed ==
  ASSUME LoopAssumption, IInv
  PROVE  /\ \A w \in Watches : w # NoWatch
         /\ \A w : Live(w) <=> Allocated(w) /\ ~watch[w].remove
         /\ \A w \in Watches : Allocated(w) => watch[w] \in Watching /\ watch[w].fd \in Fds
                                               /\ watch[w].mask \subseteq Events
         /\ \A w \in Watches \union {NoWatch} : Allocated(w) => w \in Watches
         /\ Range(watches) \subseteq Watches
         /\ \A fd \in Fds : ready[fd] # Closed => ready[fd] \subseteq Events
<1>1. TypeOK
  BY DEF IInv
<1>2. \A w \in Watches : w # NoWatch
  BY DEF LoopAssumption
<1>3. \A w \in Watches : Allocated(w) => watch[w] \in Watching
  BY <1>1 DEF TypeOK, Allocated
<1>4. Range(watches) \subseteq Watches
  BY <1>1 DEF TypeOK, Range
<1>5. \A fd \in Fds : ready[fd] # Closed => ready[fd] \subseteq Events
  BY <1>1 DEF TypeOK
<1> QED BY <1>2, <1>3, <1>4, <1>5 DEF Live, Allocated, Watching

(* Steps of the loop leave to the spice server what is the server's.       *)
LEMMA ServerSame ==
  ASSUME IInv, UNCHANGED <<abi, server>>
  PROVE  /\ OpenFds' /\ RingInv' /\ TableInv'
         /\ \A w : (Live(w)' <=> Live(w)) /\ (Allocated(w)' <=> Allocated(w))
<1>1. abi' = abi /\ ready' = ready /\ watch' = watch /\ watches' = watches /\ notify' = notify
  BY DEF server
<1>2. \A w : (Live(w)' <=> Live(w)) /\ (Allocated(w)' <=> Allocated(w))
  BY <1>1 DEF Live, Allocated
<1> QED BY <1>1, <1>2 DEF IInv, OpenFds, RingInv, TableInv

(* What happens to descriptors concerns no watch, as long as those of the  *)
(* watches stay open and are not opened again.                             *)
LEMMA WatchesSame ==
  ASSUME LoopAssumption, IInv, UNCHANGED <<abi, watch, watches, notify, loop, at, freed, wanted>>,
         ready' \in [Fds -> (SUBSET Events) \union {Closed}], opened' \subseteq Fds,
         rfds = {} /\ wfds = {} => opened' = opened,
         \A w \in Watches : Live(w) => /\ ready'[watch[w].fd] # Closed
                                       /\ watch[w].fd \in opened' => watch[w].fd \in opened
  PROVE  IInv'
<1>1. /\ abi' = abi /\ watch' = watch /\ watches' = watches /\ notify' = notify
      /\ rfds' = rfds /\ wfds' = wfds /\ link' = link /\ nextLink' = nextLink /\ xevents' = xevents
      /\ at' = at /\ freed' = freed /\ wanted' = wanted
  BY DEF loop
<1>2. \A w : (Live(w)' <=> Live(w)) /\ (Allocated(w)' <=> Allocated(w)) /\ Place(w)' = Place(w)
  BY <1>1 DEF Live, Allocated, Place
<1>3. TypeOK'
  BY <1>1 DEF IInv, TypeOK
<1>4. OpenFds' /\ RingInv' /\ TableInv' /\ NotifiedInv'
  BY <1>1, <1>2 DEF IInv, OpenFds, RingInv, TableInv, NotifiedInv
<1>5. SelectInv'
  <2> SUFFICES ASSUME abi = "select", at # "idle" PROVE SelectInv'
    BY <1>1 DEF SelectInv
  <2>1. ASSUME NEW w \in Range(watches), Live(w) PROVE Selects(w)'
    BY <1>1, <1>2, <2>1, Typed DEF IInv, SelectInv, Selects
  <2> QED BY <1>1, <1>2, <2>1 DEF IInv, SelectInv
<1>6. HistoryInv'
  <2>1. /\ (at = "idle" \/ abi = "notify" => rfds = {} /\ wfds = {} /\ opened = {})
        /\ (at = "idle" \/ abi = "notify" => rfds' = {} /\ wfds' = {} /\ opened' = {})
    BY <1>1 DEF IInv, HistoryInv
  <2>2. /\ at = "idle" => link = NoWatch
        /\ at = "idle" \/ abi = "select" => ~freed
        /\ ~InCallback => wanted
        /\ wanted \/ (abi = "notify" /\ freed)
    BY DEF IInv, HistoryInv, CallsAreWanted
  <2>3. InCallback' <=> InCallback
    BY <1>1 DEF InCallback
  <2> QED BY <1>1, <2>1, <2>2, <2>3 DEF HistoryInv, CallsAreWanted
<1> QED BY <1>3, <1>4, <1>5, <1>6 DEF IInv

LEMMA ArrivesStep == ASSUME LoopAssumption, IInv, Arrives PROVE IInv'
<1>1. PICK g \in Fds, e \in Events :
        /\ ready[g] # Closed /\ e \notin ready[g]
        /\ ready' = [ready EXCEPT ![g] = @ \union {e}]
  BY DEF Arrives
<1>2. ready[g] \union {e} \subseteq Events /\ ready[g] \union {e} # Closed
  BY <1>1, Typed DEF Closed, Events
<1>3. ready' \in [Fds -> (SUBSET Events) \union {Closed}]
  BY <1>1, <1>2 DEF IInv, TypeOK
<1>4. \A w \in Watches : Live(w) => ready'[watch[w].fd] # Closed
  BY <1>1, <1>2, Typed DEF IInv, TypeOK, OpenFds
<1>5. /\ UNCHANGED <<abi, watch, watches, notify, loop, at, freed, wanted>> /\ opened' = opened
      /\ opened \subseteq Fds
  BY DEF Arrives, history, IInv, TypeOK
<1> QED BY <1>3, <1>4, <1>5, WatchesSame

LEMMA DrainsStep == ASSUME LoopAssumption, IInv, Drains PROVE IInv'
<1>1. PICK g \in Fds : ready[g] # Closed /\ ready' = [ready EXCEPT ![g] = @ \ {"READ"}]
  BY DEF Drains
<1>2. ready[g] \ {"READ"} \subseteq Events /\ ready[g] \ {"READ"} # Closed
  BY <1>1, Typed DEF Closed, Events
<1>3. ready' \in [Fds -> (SUBSET Events) \union {Closed}]
  BY <1>1, <1>2 DEF IInv, TypeOK
<1>4. \A w \in Watches : Live(w) => ready'[watch[w].fd] # Closed
  BY <1>1, <1>2, Typed DEF IInv, TypeOK, OpenFds
<1>5. /\ UNCHANGED <<abi, watch, watches, notify, loop, at, freed, wanted>> /\ opened' = opened
      /\ opened \subseteq Fds
  BY DEF Drains, Commanded, IInv, TypeOK
<1> QED BY <1>3, <1>4, <1>5, WatchesSame

(* What is opened was closed, so no watch has it.                          *)
LEMMA OpensStep == ASSUME LoopAssumption, IInv, Opens PROVE IInv'
<1>1. PICK g \in Fds : /\ ready[g] = Closed
                       /\ ready' = [ready EXCEPT ![g] = {}]
                       /\ opened' = opened \union ({g} \intersect (rfds \union wfds))
  BY DEF Opens
<1>2. ready' \in [Fds -> (SUBSET Events) \union {Closed}] /\ {} # Closed
  BY <1>1 DEF IInv, TypeOK, Closed
<1>3. \A w \in Watches : Live(w) => /\ ready'[watch[w].fd] # Closed
                                    /\ watch[w].fd \in opened' => watch[w].fd \in opened
  BY <1>1, <1>2, Typed DEF IInv, TypeOK, OpenFds
<1>4. UNCHANGED <<abi, watch, watches, notify, loop, at, freed, wanted>>
  BY DEF Opens, Commanded
<1>5. opened' \subseteq Fds /\ (rfds = {} /\ wfds = {} => opened' = opened)
  BY <1>1 DEF IInv, TypeOK
<1> QED BY <1>2, <1>3, <1>4, <1>5, WatchesSame

LEMMA ClosesStep == ASSUME LoopAssumption, IInv, Closes PROVE IInv'
<1>1. PICK g \in Fds : Unwatched(g) /\ ready' = [ready EXCEPT ![g] = Closed]
  BY DEF Closes
<1>2. ready' \in [Fds -> (SUBSET Events) \union {Closed}]
  BY <1>1 DEF IInv, TypeOK
<1>3. \A w \in Watches : Live(w) => ready'[watch[w].fd] # Closed
  BY <1>1, Typed DEF IInv, TypeOK, OpenFds, Unwatched
<1>4. /\ UNCHANGED <<abi, watch, watches, notify, loop, at, freed, wanted>> /\ opened' = opened
      /\ opened \subseteq Fds
  BY DEF Closes, Commanded, IInv, TypeOK
<1> QED BY <1>2, <1>3, <1>4, WatchesSame

(* A new watch goes behind X's back, to the head of the ring.              *)
LEMMA WatchAddStep == ASSUME LoopAssumption, IInv, WatchAdd PROVE IInv'
<1>1. PICK fd \in Fds, w \in Watches, mask \in Masks :
        /\ ready[fd] # Closed /\ Unwatched(fd) /\ ~Allocated(w)
        /\ abi = "notify" => mask # {}
        /\ watch' = [watch EXCEPT ![w] = Watched(w, fd, mask)]
        /\ watches' = IF abi = "select" THEN <<w>> \o watches ELSE watches
        /\ notify' = Registered(w, fd, mask)
  BY DEF WatchAdd
<1>2. /\ abi' = abi /\ rfds' = rfds /\ wfds' = wfds /\ link' = link /\ nextLink' = nextLink
      /\ xevents' = xevents /\ at' = at /\ ready' = ready
      /\ opened' = opened /\ freed' = freed /\ wanted' = wanted
  BY DEF WatchAdd, Commanded, loop
<1>3. Watched(w, fd, mask) \in Watching /\ Watched(w, fd, mask) # NoWatch /\ mask \subseteq Events
  <2>1. mask \subseteq Events
    BY DEF LoopAssumption
  <2>2. Watched(w, fd, mask) \in Watching
    BY <2>1 DEF Watched, Watching
  <2> QED BY <2>1, <2>2 DEF LoopAssumption
<1>4. \A v \in Watches : watch'[v] = IF v = w THEN Watched(w, fd, mask) ELSE watch[v]
  BY <1>1 DEF IInv, TypeOK
<1>5. /\ \A v \in Watches : v # w => (Live(v)' <=> Live(v)) /\ (Allocated(v)' <=> Allocated(v))
      /\ Live(w)' /\ Allocated(w)' /\ watch'[w].fd = fd /\ ~Live(w)
      /\ ~Live(NoWatch) /\ ~Live(NoWatch)'
  BY <1>1, <1>3, <1>4, Typed DEF Live, Allocated, Watched
<1>6. abi = "select" =>
        /\ watches \in Seq(Watches) /\ Distinct(watches) /\ w \notin Range(watches)
        /\ watches' = <<w>> \o watches
  BY <1>1 DEF IInv, TypeOK, RingInv
<1>7. abi = "select" =>
        /\ watches' \in Seq(Watches) /\ Distinct(watches')
        /\ Range(watches') = Range(watches) \union {w}
        /\ PlaceIn(watches', w) = 1
        /\ \A v \in Range(watches) : /\ PlaceIn(watches', v) = PlaceIn(watches, v) + 1
                                     /\ PlaceIn(watches, v) \in Nat \ {0}
  <2> SUFFICES ASSUME abi = "select" PROVE
        /\ watches' \in Seq(Watches) /\ Distinct(watches')
        /\ Range(watches') = Range(watches) \union {w}
        /\ PlaceIn(watches', w) = 1
        /\ \A v \in Range(watches) : /\ PlaceIn(watches', v) = PlaceIn(watches, v) + 1
                                     /\ PlaceIn(watches, v) \in Nat \ {0}
    OBVIOUS
  <2>1. \A v \in Range(watches) : PlaceIn(watches, v) \in 1 .. Len(watches)
    BY <1>6, PlaceFound
  <2>2. Len(watches) \in Nat
    BY <1>6, LenProperties
  <2>3. \A v \in Range(watches) : PlaceIn(watches, v) \in Nat \ {0}
    BY <2>1, <2>2
  <2> QED BY <1>6, <2>3, Prepended
<1>8. TypeOK'
  <2>1. notify' \in [Fds -> [watch : Watches \union {NoWatch}, mask : SUBSET Events]]
    BY <1>1, <1>3 DEF IInv, TypeOK, Registered, NoNotify
  <2>2. watches' \in Seq(Watches)
    BY <1>1, <1>6, <1>7 DEF IInv, TypeOK
  <2> QED BY <1>1, <1>2, <1>3, <2>1, <2>2 DEF IInv, TypeOK
<1>9. OpenFds'
  BY <1>1, <1>2, <1>4, <1>5 DEF IInv, OpenFds
<1>10. RingInv'
  BY <1>2, <1>5, <1>6, <1>7 DEF IInv, RingInv
<1>11. SelectInv'
  <2> SUFFICES ASSUME abi = "select", at # "idle" PROVE SelectInv'
    BY <1>2 DEF SelectInv
  <2>1. /\ link \in Range(watches) /\ Place(link) \in Nat \ {0}
        /\ Place(link)' = Place(link) + 1
    BY <1>2, <1>6, <1>7 DEF IInv, SelectInv, Place
  <2>2. nextLink # NoWatch => nextLink \in Range(watches) /\ Place(nextLink)' = Place(link)' + 1
    BY <1>2, <1>6, <1>7, <2>1 DEF IInv, SelectInv, Place
  <2>3. ASSUME NEW v \in Range(watches'), Live(v)' PROVE Selects(v)'
    <3>1. CASE v = w
      BY <1>2, <1>6, <1>7, <2>1, <3>1 DEF Selects, Place
    <3>2. CASE v # w
      <4>1. v \in Range(watches) /\ v \in Watches /\ Live(v)
        BY <1>5, <1>6, <1>7, <2>3, <3>2, Typed
      <4>2. Selects(v) /\ watch'[v] = watch[v]
        BY <1>4, <3>2, <4>1 DEF IInv, SelectInv
      <4>3. Place(v)' >= Place(link)' <=> Place(v) >= Place(link)
        BY <1>6, <1>7, <2>1, <4>1 DEF Place
      <4> QED BY <1>2, <4>2, <4>3 DEF Selects
    <3> QED BY <3>1, <3>2
  <2> QED BY <1>2, <1>6, <1>7, <2>1, <2>2, <2>3 DEF SelectInv
<1>12. TableInv'
  <2> SUFFICES ASSUME abi = "notify" PROVE TableInv'
    BY <1>2 DEF TableInv
  <2>1. \A g \in Fds : notify'[g] = IF g = fd THEN [watch |-> w, mask |-> mask] ELSE notify[g]
    BY <1>1 DEF IInv, TypeOK, Registered
  <2>2. \A v \in Watches : Allocated(v)' => Live(v)'
    BY <1>5 DEF IInv, TableInv
  <2>3. ASSUME NEW g \in Fds, NEW v \in Watches, notify'[g].watch = v
        PROVE  Live(v)' /\ watch'[v].fd = g
    <3>1. CASE g = fd
      BY <1>5, <2>1, <2>3, <3>1
    <3>2. CASE g # fd
      <4>1. notify'[g] = notify[g] /\ Live(v) /\ watch[v].fd = g
        BY <2>1, <2>3, <3>2 DEF IInv, TableInv
      <4> QED BY <1>4, <1>5, <4>1
    <3> QED BY <3>1, <3>2
  <2>4. watches' = <<>>
    BY <1>1 DEF IInv, TableInv
  <2>5. \A g \in Fds : notify'[g] # NoNotify => notify'[g].watch # NoWatch
    BY <2>1, Typed DEF IInv, TableInv
  <2> QED BY <2>2, <2>3, <2>4, <2>5 DEF TableInv
<1>13. NotifiedInv' /\ HistoryInv'
  <2>1. Live(link) => link \in Watches /\ link # w
    BY <1>5, Typed DEF IInv, TypeOK
  <2>2. Live(link) => Live(link)'
    BY <1>2, <1>5, <2>1
  <2> QED BY <1>2, <2>2 DEF IInv, NotifiedInv, HistoryInv, InCallback, CallsAreWanted
<1> QED BY <1>8, <1>9, <1>10, <1>11, <1>12, <1>13 DEF IInv

LEMMA WatchUpdateMaskStep == ASSUME LoopAssumption, IInv, WatchUpdateMask PROVE IInv'
<1>1. PICK w \in Watches, mask \in Masks :
        /\ Live(w)
        /\ watch' = [watch EXCEPT ![w].mask = mask]
        /\ notify' = Registered(w, watch[w].fd, mask)
  BY DEF WatchUpdateMask
<1>2. /\ abi' = abi /\ rfds' = rfds /\ wfds' = wfds /\ link' = link /\ nextLink' = nextLink
      /\ xevents' = xevents /\ at' = at /\ ready' = ready /\ watches' = watches
      /\ opened' = opened /\ freed' = freed /\ wanted' = wanted
  BY DEF WatchUpdateMask, Commanded, loop
<1>3. watch[w] \in Watching /\ watch[w].fd \in Fds /\ mask \subseteq Events
  BY <1>1, Typed DEF LoopAssumption
<1> DEFINE x == [watch[w] EXCEPT !.mask = mask]
<1>4. x \in Watching /\ x # NoWatch /\ x.fd = watch[w].fd /\ x.remove = watch[w].remove
  BY <1>3 DEF Watching, LoopAssumption
<1> HIDE DEF x
<1>5. \A v \in Watches : watch'[v] = IF v = w THEN x ELSE watch[v]
  BY <1>1 DEF IInv, TypeOK, x
<1>6. /\ \A v \in Watches : /\ Live(v)' <=> Live(v)
                            /\ Allocated(v)' <=> Allocated(v)
                            /\ Live(v) => watch'[v].fd = watch[v].fd
      /\ Live(NoWatch)' = Live(NoWatch) /\ ~Live(NoWatch)
  BY <1>1, <1>4, <1>5, Typed DEF Live, Allocated
<1>7. \A v \in Range(watches) : v \in Watches
  BY Typed
<1>8. TypeOK'
  <2>1. notify' \in [Fds -> [watch : Watches \union {NoWatch}, mask : SUBSET Events]]
    BY <1>1, <1>3 DEF IInv, TypeOK, Registered, NoNotify
  <2>2. watch' \in [Watches -> Watching \union {NoWatch}]
    BY <1>1, <1>4 DEF IInv, TypeOK, x
  <2> QED BY <1>2, <2>1, <2>2 DEF IInv, TypeOK
<1>9. OpenFds' /\ RingInv'
  BY <1>2, <1>6 DEF IInv, OpenFds, RingInv
<1>10. SelectInv'
  <2>1. \A v : Place(v)' = Place(v)
    BY <1>2 DEF Place
  <2> QED BY <1>2, <1>6, <1>7, <2>1 DEF IInv, SelectInv, Selects
<1>11. TableInv'
  <2> SUFFICES ASSUME abi = "notify" PROVE TableInv'
    BY <1>2 DEF TableInv
  <2> DEFINE fd == watch[w].fd
  <2>1. \A g \in Fds : notify'[g] = IF g = fd
                                    THEN IF mask = {} THEN NoNotify ELSE [watch |-> w, mask |-> mask]
                                    ELSE notify[g]
    BY <1>1, <1>3 DEF IInv, TypeOK, Registered
  <2>2. \A v \in Watches : Allocated(v)' => Live(v)'
    BY <1>6 DEF IInv, TableInv
  <2>3. ASSUME NEW g \in Fds, NEW v \in Watches, notify'[g].watch = v
        PROVE  Live(v)' /\ watch'[v].fd = g
    <3>1. CASE g = fd
      <4>1. v = w
        BY <2>1, <2>3, <3>1, Typed DEF NoNotify
      <4> QED BY <1>1, <1>6, <3>1, <4>1
    <3>2. CASE g # fd
      <4>1. Live(v) /\ watch[v].fd = g
        BY <2>1, <2>3, <3>2 DEF IInv, TableInv
      <4> QED BY <1>6, <4>1
    <3> QED BY <3>1, <3>2
  <2>4. \A g \in Fds : notify'[g] # NoNotify => notify'[g].watch # NoWatch
    BY <2>1, Typed DEF IInv, TableInv
  <2> QED BY <1>2, <2>2, <2>3, <2>4 DEF IInv, TableInv
<1>12. NotifiedInv' /\ HistoryInv'
  <2>1. link \in Watches \union {NoWatch}
    BY DEF IInv, TypeOK
  <2> QED BY <1>2, <1>6, <2>1 DEF IInv, NotifiedInv, HistoryInv, InCallback, CallsAreWanted
<1> QED BY <1>8, <1>9, <1>10, <1>11, <1>12 DEF IInv

(* Any watch, at any time: with select it stays where it is, with notify   *)
(* it is known that the one notified is gone.                              *)
LEMMA WatchRemoveStep == ASSUME LoopAssumption, IInv, WatchRemove PROVE IInv'
<1>1. PICK w \in Watches :
        /\ Live(w)
        /\ IF abi = "select"
           THEN watch' = [watch EXCEPT ![w].remove = TRUE] /\ notify' = notify /\ freed' = freed
           ELSE /\ watch' = [watch EXCEPT ![w] = NoWatch]
                /\ notify' = [notify EXCEPT ![watch[w].fd] = NoNotify]
                /\ freed' = (freed \/ w = link)
  BY DEF WatchRemove
<1>2. /\ abi' = abi /\ rfds' = rfds /\ wfds' = wfds /\ link' = link /\ nextLink' = nextLink
      /\ xevents' = xevents /\ at' = at /\ ready' = ready /\ watches' = watches
      /\ opened' = opened /\ wanted' = wanted
  BY DEF WatchRemove, Commanded, loop
<1>3. watch[w] \in Watching /\ watch[w].fd \in Fds
  BY <1>1, Typed
<1> DEFINE x == IF abi = "select" THEN [watch[w] EXCEPT !.remove = TRUE] ELSE NoWatch
<1>4. x \in Watching \union {NoWatch} /\ (abi = "select" => x # NoWatch /\ x.remove)
  BY <1>3 DEF Watching, LoopAssumption
<1>5. /\ \A v \in Watches : watch'[v] = IF v = w THEN x ELSE watch[v]
      /\ watch' \in [Watches -> Watching \union {NoWatch}]
  BY <1>1, <1>3, <1>4 DEF IInv, TypeOK
<1> HIDE DEF x
<1>6. /\ \A v \in Watches : v # w => (Live(v)' <=> Live(v)) /\ (Allocated(v)' <=> Allocated(v))
      /\ ~Live(w)' /\ Allocated(w) /\ (abi = "select" => Allocated(w)')
      /\ (abi # "select" => ~Allocated(w)')
      /\ ~Live(NoWatch) /\ ~Live(NoWatch)'
  BY <1>1, <1>4, <1>5, Typed DEF Live, Allocated, x
<1>7. \A v \in Watches : Live(v)' => Live(v) /\ watch'[v] = watch[v]
  BY <1>5, <1>6
<1>8. TypeOK'
  <2>1. notify' \in [Fds -> [watch : Watches \union {NoWatch}, mask : SUBSET Events]]
    BY <1>1 DEF IInv, TypeOK, NoNotify
  <2>2. freed' \in BOOLEAN
    BY <1>1 DEF IInv, TypeOK
  <2> QED BY <1>2, <1>5, <2>1, <2>2 DEF IInv, TypeOK
<1>9. OpenFds' /\ RingInv'
  BY <1>2, <1>6, <1>7 DEF IInv, OpenFds, RingInv
<1>10. SelectInv'
  <2>1. \A v : Place(v)' = Place(v)
    BY <1>2 DEF Place
  <2>2. \A v \in Range(watches) : v \in Watches
    BY Typed
  <2> QED BY <1>2, <1>7, <2>1, <2>2 DEF IInv, SelectInv, Selects
<1>11. TableInv'
  <2> SUFFICES ASSUME abi = "notify" PROVE TableInv'
    BY <1>2 DEF TableInv
  <2> DEFINE fd == watch[w].fd
  <2>1. \A g \in Fds : notify'[g] = IF g = fd THEN NoNotify ELSE notify[g]
    BY <1>1, <1>3 DEF IInv, TypeOK
  <2>2. \A v \in Watches : Allocated(v)' => Live(v)'
    BY <1>6 DEF IInv, TableInv
  <2>3. ASSUME NEW g \in Fds, NEW v \in Watches, notify'[g].watch = v
        PROVE  Live(v)' /\ watch'[v].fd = g
    <3>1. g # fd /\ notify'[g] = notify[g]
      BY <2>1, <2>3, Typed DEF NoNotify
    <3>2. Live(v) /\ watch[v].fd = g
      BY <2>3, <3>1 DEF IInv, TableInv
    <3>3. v # w
      BY <3>1, <3>2
    <3> QED BY <1>5, <1>6, <3>2, <3>3
  <2>4. \A g \in Fds : notify'[g] # NoNotify => notify'[g].watch # NoWatch
    BY <2>1 DEF IInv, TableInv
  <2> QED BY <1>2, <2>2, <2>3, <2>4 DEF IInv, TableInv
<1>12. NotifiedInv'
  <2> SUFFICES ASSUME abi = "notify", at # "idle", ~freed' PROVE Live(link)'
    BY <1>2 DEF NotifiedInv
  <2>1. Live(link) /\ link # w
    BY <1>1 DEF IInv, NotifiedInv
  <2>2. link \in Watches
    BY <2>1, <1>6 DEF IInv, TypeOK
  <2> QED BY <1>2, <1>6, <2>1, <2>2
<1>13. HistoryInv'
  <2>1. at = "idle" \/ abi = "select" => ~freed'
    BY <1>1, Typed DEF IInv, HistoryInv
  <2>2. wanted \/ (abi = "notify" /\ freed')
    BY <1>1 DEF IInv, HistoryInv, CallsAreWanted, TypeOK
  <2> QED BY <1>2, <2>1, <2>2 DEF IInv, HistoryInv, InCallback, CallsAreWanted
<1> QED BY <1>8, <1>9, <1>10, <1>11, <1>12, <1>13 DEF IInv

-----------------------------------------------------------------------------
(* The loop with select.                                                   *)
LEMMA XWakesStep == ASSUME LoopAssumption, IInv, XWakes PROVE IInv'
<1>1. PICK nfds : XspiceWakeup(nfds)
  BY DEF XWakes
<1>2. /\ abi = "select" /\ at = "idle" /\ rfds' \union wfds' # {}
      /\ rfds' = {fd \in Selected("READ") : "READ" \in ready[fd]}
      /\ wfds' = {fd \in Selected("WRITE") : "WRITE" \in ready[fd]}
      /\ link' = Head(watches)
      /\ nextLink' = IF Len(watches) > 1 THEN watches[2] ELSE NoWatch
      /\ at' = "READ"
      /\ abi' = abi /\ ready' = ready /\ watch' = watch /\ watches' = watches /\ notify' = notify
      /\ xevents' = xevents /\ opened' = opened /\ freed' = freed /\ wanted' = wanted
  BY <1>1 DEF XspiceWakeup, server, history
<1>3. /\ watches \in Seq(Watches) /\ Distinct(watches)
      /\ \A w \in Watches : Allocated(w) <=> w \in Range(watches)
  BY <1>2 DEF IInv, TypeOK, RingInv
<1>4. Len(watches) \in Nat \ {0}
  <2>1. PICK w : w \in Range(watches)
    BY <1>2 DEF Selected
  <2> QED BY <1>3, <2>1, LenProperties, EmptySeq DEF Range
<1>5. 1 \in 1 .. Len(watches) /\ link' = watches[1]
  BY <1>2, <1>3, <1>4
<1>6. link' \in Range(watches) /\ link' \in Watches /\ PlaceIn(watches, link') = 1
  BY <1>3, <1>5, PlaceOf, Typed
<1>7. nextLink' # NoWatch => /\ nextLink' \in Range(watches) /\ nextLink' \in Watches
                         /\ PlaceIn(watches, nextLink') = 2
  <2> SUFFICES ASSUME nextLink' # NoWatch
               PROVE  /\ nextLink' \in Range(watches) /\ nextLink' \in Watches
                      /\ PlaceIn(watches, nextLink') = 2
    OBVIOUS
  <2>1. 2 \in 1 .. Len(watches) /\ nextLink' = watches[2]
    BY <1>2, <1>4
  <2> QED BY <1>3, <2>1, PlaceOf, Typed
<1>8. rfds' \subseteq Fds /\ wfds' \subseteq Fds
  <2>1. \A w \in Range(watches) : watch[w].fd \in Fds
    BY <1>3, Typed
  <2> QED BY <1>2, <2>1 DEF Selected
<1>9. TypeOK'
  BY <1>2, <1>6, <1>7, <1>8 DEF IInv, TypeOK, Steps
<1>10. OpenFds' /\ RingInv' /\ TableInv'
  <2>1. UNCHANGED <<abi, server>>
    BY <1>2 DEF server
  <2> QED BY <2>1, ServerSame
<1>11. opened = {} /\ wanted
  BY <1>2 DEF IInv, HistoryInv, InCallback
<1>12. SelectInv'
  BY <1>2, <1>6, <1>7, <1>11 DEF SelectInv, Place, Selects
<1>13. NotifiedInv' /\ HistoryInv'
  BY <1>2, <1>11 DEF IInv, NotifiedInv, HistoryInv, InCallback, CallsAreWanted
<1> QED BY <1>9, <1>10, <1>12, <1>13 DEF IInv

(* One test of the body: what it calls is there, and is what X selected.   *)
LEMMA CheckStep ==
  ASSUME LoopAssumption, IInv, NEW e \in Events, Check(e) PROVE IInv'
<1>1. /\ abi = "select" /\ at = e
      /\ IF Asked(link, e) /\ watch[link].fd \in (IF e = "READ" THEN rfds ELSE wfds)
         THEN Calls(link, e)
         ELSE at' = After(e) /\ UNCHANGED wanted
      /\ abi' = abi /\ ready' = ready /\ watch' = watch /\ watches' = watches /\ notify' = notify
      /\ rfds' = rfds /\ wfds' = wfds /\ link' = link /\ nextLink' = nextLink /\ xevents' = xevents
      /\ opened' = opened /\ freed' = freed
  BY DEF Check, server, loop
<1>2. at \in {"READ", "WRITE"} /\ at = e
  BY <1>1 DEF Events
<1>3. link \in Range(watches) /\ Allocated(link) /\ (Live(link) => Selects(link))
  BY <1>1, <1>2, Typed DEF IInv, SelectInv, RingInv
<1>4. wanted' = TRUE /\ at' \in {Called(e), After(e)}
  <2>1. CASE Asked(link, e) /\ watch[link].fd \in (IF e = "READ" THEN rfds ELSE wfds)
    <3>1. Live(link) /\ e \in watch[link].mask
      BY <1>3, <2>1 DEF Asked, Live
    <3>2. Place(link) \in Nat
      BY <1>1, <1>3, PlaceFound, LenProperties DEF IInv, TypeOK, RingInv, Place
    <3>3. watch[link].fd \notin opened
      BY <1>3, <3>1, <3>2 DEF Selects
    <3> QED BY <1>1, <2>1, <3>1, <3>3 DEF Calls
  <2>2. CASE ~(Asked(link, e) /\ watch[link].fd \in (IF e = "READ" THEN rfds ELSE wfds))
    BY <1>1, <1>2, <2>2 DEF IInv, TypeOK, HistoryInv, InCallback
  <2> QED BY <2>1, <2>2
<1>5. at' \in Steps /\ at' # "idle"
  BY <1>2, <1>4 DEF Called, After, Steps
<1>6. TypeOK'
  BY <1>1, <1>4, <1>5 DEF IInv, TypeOK
<1>7. /\ OpenFds' /\ RingInv' /\ TableInv'
      /\ \A w : (Live(w)' <=> Live(w))
  <2>1. UNCHANGED <<abi, server>>
    BY <1>1 DEF server
  <2> QED BY <2>1, ServerSame
<1>8. SelectInv'
  BY <1>1, <1>2, <1>7 DEF IInv, SelectInv, Place, Selects
<1>9. NotifiedInv' /\ HistoryInv'
  BY <1>1, <1>4, <1>5 DEF IInv, NotifiedInv, HistoryInv, CallsAreWanted
<1> QED BY <1>6, <1>7, <1>8, <1>9 DEF IInv

(* On to the next; link leaves the ring if it was removed.                 *)
LEMMA CheckNextStep == ASSUME LoopAssumption, IInv, CheckNext PROVE IInv'
<1>1. /\ abi = "select" /\ at = "done"
      /\ IF watch[link].remove
         THEN watch' = [watch EXCEPT ![link] = NoWatch] /\ watches' = Without(link)
         ELSE watch' = watch /\ watches' = watches
      /\ link' = nextLink
      /\ IF nextLink = NoWatch
         THEN nextLink' = NoWatch /\ rfds' = {} /\ wfds' = {} /\ opened' = {} /\ at' = "idle"
         ELSE /\ nextLink' = IF Place(nextLink) < Len(watches) THEN watches[Place(nextLink) + 1] ELSE NoWatch
              /\ at' = "READ" /\ rfds' = rfds /\ wfds' = wfds /\ opened' = opened
      /\ abi' = abi /\ ready' = ready /\ notify' = notify /\ xevents' = xevents
      /\ freed' = freed /\ wanted' = wanted
  BY DEF CheckNext
<1>2. /\ watches \in Seq(Watches) /\ Distinct(watches)
      /\ \A w \in Watches : Allocated(w) <=> w \in Range(watches)
      /\ link \in Range(watches) /\ link \in Watches
      /\ \A w \in Range(watches) : w \in Watches /\ w # NoWatch
  BY <1>1, Typed DEF IInv, TypeOK, RingInv, SelectInv
<1> DEFINE n == Len(watches)
           i == PlaceIn(watches, link)
<1>3. n \in Nat /\ i \in 1 .. n /\ watches[i] = link /\ link # NoWatch
  BY <1>2, PlaceFound, LenProperties
<1> HIDE DEF n, i
(* What of the ring stays: nobody but link leaves, and all keep their order. *)
<1>4. /\ watches' \in Seq(Watches) /\ Distinct(watches')
      /\ Range(watches') \subseteq Range(watches)
      /\ \A v \in Range(watches) : v # link => v \in Range(watches')
      /\ link \in Range(watches') <=> ~watch[link].remove
      /\ \A v \in Range(watches') :
           /\ PlaceIn(watches, v) \in 1 .. n
           /\ PlaceIn(watches', v) =
                IF ~watch[link].remove \/ PlaceIn(watches, v) < i THEN PlaceIn(watches, v)
                ELSE PlaceIn(watches, v) - 1
  <2>1. CASE watch[link].remove
    <3>1. watches' = RemoveAt(watches, i)
      BY <1>1, <2>1 DEF Without, Place, i
    <3>2. i \in 1 .. Len(watches)
      BY <1>3 DEF n
    <3>3. /\ watches' \in Seq(Watches) /\ Distinct(watches')
          /\ Range(watches') = Range(watches) \ {watches[i]}
          /\ \A v \in Range(watches') :
               PlaceIn(watches', v) = IF PlaceIn(watches, v) < i THEN PlaceIn(watches, v)
                                      ELSE PlaceIn(watches, v) - 1
      BY <1>2, <3>1, <3>2, Removed
    <3>4. \A v \in Range(watches) : PlaceIn(watches, v) \in 1 .. n
      BY <1>2, PlaceFound DEF n
    <3> QED BY <1>2, <1>3, <2>1, <3>3, <3>4
  <2>2. CASE ~watch[link].remove
    <3>1. \A v \in Range(watches) : PlaceIn(watches, v) \in 1 .. n
      BY <1>2, PlaceFound DEF n
    <3> QED BY <1>1, <1>2, <2>2, <3>1
  <2> QED BY <2>1, <2>2
<1>5. watch' \in [Watches -> Watching \union {NoWatch}]
  BY <1>1, <1>2 DEF IInv, TypeOK
<1>6. \A v \in Watches : /\ v # link => watch'[v] = watch[v]
                         /\ ~watch[link].remove => watch'[v] = watch[v]
                         /\ watch[link].remove => watch'[link] = NoWatch
  BY <1>1, <1>2 DEF IInv, TypeOK
<1>7. /\ \A v \in Watches : Live(v)' => Live(v) /\ watch'[v] = watch[v]
      /\ \A v \in Watches : v # link => (Allocated(v)' <=> Allocated(v))
      /\ watch[link].remove => \A v \in Watches : v = link => ~Allocated(v)'
      /\ ~watch[link].remove => \A v \in Watches : Allocated(v)' <=> Allocated(v)
  BY <1>6 DEF Live, Allocated
<1>8. OpenFds'
  <2>1. \A v \in Watches : Live(v)' => Live(v) /\ watch'[v] = watch[v]
    BY <1>7
  <2> QED BY <1>1, <2>1 DEF IInv, OpenFds
<1>9. RingInv'
  <2>1. ASSUME NEW v \in Watches PROVE Allocated(v)' <=> v \in Range(watches')
    <3>1. CASE v = link
      BY <1>2, <1>4, <1>7, <3>1
    <3>2. CASE v # link
      BY <1>2, <1>4, <1>7, <3>2
    <3> QED BY <3>1, <3>2
  <2> QED BY <1>4, <2>1 DEF RingInv
<1>10. TableInv' /\ NotifiedInv' /\ HistoryInv'
  BY <1>1 DEF IInv, TableInv, NotifiedInv, HistoryInv, InCallback, CallsAreWanted
<1>11. CASE nextLink = NoWatch
  <2>1. TypeOK'
    BY <1>1, <1>4, <1>5, <1>11 DEF IInv, TypeOK, Steps
  <2>2. SelectInv'
    BY <1>1, <1>11 DEF SelectInv
  <2> QED BY <1>8, <1>9, <1>10, <2>1, <2>2 DEF IInv
<1>12. CASE nextLink # NoWatch
  <2> DEFINE m == PlaceIn(watches, nextLink)
  <2>1. /\ nextLink \in Range(watches) /\ m = i + 1 /\ m \in 1 .. n /\ watches[m] = nextLink
        /\ nextLink # link
    <3>1. nextLink \in Range(watches) /\ m = i + 1
      BY <1>1, <1>12 DEF IInv, SelectInv, Place, i
    <3>2. m \in 1 .. n /\ watches[m] = nextLink
      BY <1>2, <3>1, PlaceFound DEF n
    <3>3. m # i
      BY <1>3, <3>1
    <3> QED BY <3>1, <3>2, <3>3 DEF i
  <2>2. nextLink \in Range(watches') /\ link' = nextLink /\ at' = "READ"
        /\ rfds' = rfds /\ wfds' = wfds /\ opened' = opened
    BY <1>1, <1>4, <1>12, <2>1
  <2> HIDE DEF m
  <2> DEFINE shift == IF watch[link].remove THEN 1 ELSE 0
  <2>3. PlaceIn(watches', nextLink) = m - shift
    BY <1>3, <1>4, <2>1, <2>2 DEF m
  <2>4. nextLink' # NoWatch => /\ nextLink' \in Range(watches')
                           /\ PlaceIn(watches', nextLink') = PlaceIn(watches', nextLink) + 1
    <3> SUFFICES ASSUME nextLink' # NoWatch
                 PROVE  /\ nextLink' \in Range(watches')
                        /\ PlaceIn(watches', nextLink') = PlaceIn(watches', nextLink) + 1
      OBVIOUS
    <3>1. nextLink' = watches[m + 1] /\ m + 1 \in 1 .. n
      BY <1>1, <1>3, <1>12, <2>1 DEF Place, m, n
    <3>2. nextLink' \in Range(watches) /\ PlaceIn(watches, nextLink') = m + 1
      BY <1>2, <3>1, PlaceOf DEF n
    <3>3. nextLink' # link
      <4>1. m + 1 # i
        BY <1>3, <2>1
      <4> QED BY <3>2, <4>1 DEF i
    <3>4. nextLink' \in Range(watches')
      BY <1>4, <3>2, <3>3
    <3>5. PlaceIn(watches', nextLink') = m + 1 - shift
      BY <1>3, <1>4, <2>1, <3>2, <3>4
    <3> QED BY <1>3, <2>1, <2>3, <3>4, <3>5
  <2>5. ASSUME NEW v \in Range(watches'), Live(v)',
               PlaceIn(watches', v) >= PlaceIn(watches', nextLink)
        PROVE  watch'[v].fd \notin opened
    <3>1. v \in Range(watches) /\ v \in Watches /\ Live(v) /\ watch'[v] = watch[v]
      BY <1>2, <1>4, <1>7, <2>5
    <3> DEFINE p == PlaceIn(watches, v)
    <3>2. p \in 1 .. n
      BY <1>4
    <3>3. PlaceIn(watches', v) = IF ~watch[link].remove \/ p < i THEN p ELSE p - 1
      BY <1>4
    <3> HIDE DEF p
    <3>4. p >= i
      BY <1>3, <2>1, <2>3, <2>5, <3>2, <3>3
    <3>5. Selects(v)
      BY <1>1, <3>1 DEF IInv, SelectInv
    <3> QED BY <3>1, <3>4, <3>5 DEF Selects, Place, p, i
  <2>6. SelectInv'
    BY <1>1, <1>12, <2>2, <2>4, <2>5 DEF SelectInv, Selects, Place
  <2>7. TypeOK'
    <3>1. nextLink' \in Watches \union {NoWatch}
      BY <1>2, <1>4, <2>4
    <3> QED BY <1>1, <1>4, <1>5, <2>2, <3>1 DEF IInv, TypeOK, Steps
  <2> QED BY <1>8, <1>9, <1>10, <2>6, <2>7 DEF IInv
<1> QED BY <1>11, <1>12

-----------------------------------------------------------------------------
(* The loop with notify.                                                   *)
LEMMA NotifyStep ==
  ASSUME LoopAssumption, IInv, NEW fd \in Fds, Notify(fd) PROVE IInv'
<1>1. /\ abi = "notify" /\ at = "idle" /\ notify[fd] # NoNotify
      /\ link' = notify[fd].watch /\ xevents' = notify[fd].mask \intersect ready[fd]
      /\ at' = "READ"
      /\ abi' = abi /\ ready' = ready /\ watch' = watch /\ watches' = watches /\ notify' = notify
      /\ rfds' = rfds /\ wfds' = wfds /\ nextLink' = nextLink
      /\ opened' = opened /\ freed' = freed /\ wanted' = wanted
  BY DEF Notify, server, history
<1>2. link' \in Watches /\ xevents' \subseteq Events
  BY <1>1 DEF IInv, TypeOK, TableInv
<1>3. Live(link')
  BY <1>1, <1>2 DEF IInv, TableInv
<1>4. TypeOK'
  BY <1>1, <1>2 DEF IInv, TypeOK, Steps
<1>5. OpenFds' /\ RingInv' /\ TableInv'
  <2>1. UNCHANGED <<abi, server>>
    BY <1>1 DEF server
  <2> QED BY <2>1, ServerSame
<1>6. NotifiedInv'
  <2>1. Live(link)'
    BY <1>1, <1>3 DEF Live, Allocated
  <2> QED BY <2>1 DEF NotifiedInv
<1>7. SelectInv' /\ HistoryInv'
  BY <1>1 DEF IInv, SelectInv, HistoryInv, InCallback, CallsAreWanted
<1> QED BY <1>4, <1>5, <1>6, <1>7 DEF IInv

(* The watch is asked again, so what it calls for is wanted as long as it  *)
(* is the watch that is asked.                                             *)
LEMMA WatchFdNotifiedStep ==
  ASSUME LoopAssumption, IInv, NEW e \in Events, WatchFdNotified(e) PROVE IInv'
<1>1. /\ abi = "notify" /\ at = e
      /\ abi' = abi /\ ready' = ready /\ watch' = watch /\ watches' = watches /\ notify' = notify
      /\ rfds' = rfds /\ wfds' = wfds /\ link' = link /\ nextLink' = nextLink /\ xevents' = xevents
      /\ opened' = opened /\ freed' = freed
  BY DEF WatchFdNotified, server, loop
<1>2. PICK mask \in IF Allocated(link) THEN {watch[link].mask} ELSE SUBSET Events :
        IF e \in mask \intersect xevents THEN Calls(link, e)
        ELSE at' = After(e) /\ UNCHANGED wanted
  BY DEF WatchFdNotified
<1>3. at \in {"READ", "WRITE"} /\ at = e
  BY <1>1 DEF Events
<1>4. /\ at' \in {Called(e), After(e)} /\ wanted' \in BOOLEAN
      /\ wanted' \/ (at' = Called(e) /\ freed)
  <2>1. CASE e \in mask \intersect xevents
    <3>1. ASSUME ~freed
          PROVE  Live(link) /\ e \in watch[link].mask /\ watch[link].fd \notin opened
      <4>1. Live(link)
        BY <1>1, <1>3, <3>1 DEF IInv, NotifiedInv
      <4>2. e \in watch[link].mask
        BY <1>2, <2>1, <4>1 DEF Live
      <4> QED BY <1>1, <4>1, <4>2 DEF IInv, HistoryInv
    <3>2. at' = Called(e)
      BY <1>2, <2>1 DEF Calls
    <3>3. wanted' = (Live(link) /\ e \in watch[link].mask /\ watch[link].fd \notin opened)
      BY <1>2, <2>1 DEF Calls
    <3> QED BY <3>1, <3>2, <3>3 DEF IInv, TypeOK
  <2>2. CASE e \notin mask \intersect xevents
    BY <1>2, <1>3, <2>2 DEF IInv, TypeOK, HistoryInv, InCallback
  <2> QED BY <2>1, <2>2
<1>5. /\ at' \in Steps /\ at' # "idle" /\ (at' = Called(e) => InCallback')
  BY <1>3, <1>4 DEF Called, After, Steps, InCallback
<1>6. TypeOK'
  BY <1>1, <1>4, <1>5 DEF IInv, TypeOK
<1>7. /\ OpenFds' /\ RingInv' /\ TableInv'
      /\ \A w : Live(w)' <=> Live(w)
  <2>1. UNCHANGED <<abi, server>>
    BY <1>1 DEF server
  <2> QED BY <2>1, ServerSame
<1>8. SelectInv' /\ NotifiedInv'
  BY <1>1, <1>3, <1>5, <1>7 DEF IInv, SelectInv, NotifiedInv
<1>9. HistoryInv'
  BY <1>1, <1>4, <1>5 DEF IInv, HistoryInv, CallsAreWanted
<1> QED BY <1>6, <1>7, <1>8, <1>9 DEF IInv

LEMMA NotifiedAllStep == ASSUME LoopAssumption, IInv, NotifiedAll PROVE IInv'
<1>1. /\ abi = "notify" /\ at = "done" /\ at' = "idle" /\ link' = NoWatch /\ xevents' = {}
      /\ abi' = abi /\ ready' = ready /\ watch' = watch /\ watches' = watches /\ notify' = notify
      /\ rfds' = rfds /\ wfds' = wfds /\ nextLink' = nextLink
      /\ opened' = {} /\ freed' = FALSE /\ wanted' = wanted
  BY DEF NotifiedAll, server
<1>2. TypeOK' /\ SelectInv' /\ NotifiedInv'
  BY <1>1 DEF IInv, TypeOK, Steps, SelectInv, NotifiedInv
<1>3. HistoryInv'
  BY <1>1 DEF IInv, HistoryInv, InCallback, CallsAreWanted
<1>4. OpenFds' /\ RingInv' /\ TableInv'
  <2>1. UNCHANGED <<abi, server>>
    BY <1>1 DEF server
  <2> QED BY <2>1, ServerSame
<1> QED BY <1>2, <1>3, <1>4 DEF IInv

-----------------------------------------------------------------------------
(* A callback has dealt with its event.                                    *)
LEMMA ReturnsStep ==
  ASSUME LoopAssumption, IInv, NEW e \in Events, Returns(e) PROVE IInv'
<1>1. /\ at = Called(e) /\ at' = After(e) /\ wanted' = TRUE
      /\ IF Live(link) THEN ready' = [ready EXCEPT ![watch[link].fd] = @ \ {e}]
         ELSE ready' = ready
      /\ abi' = abi /\ watch' = watch /\ watches' = watches /\ notify' = notify
      /\ rfds' = rfds /\ wfds' = wfds /\ link' = link /\ nextLink' = nextLink /\ xevents' = xevents
      /\ opened' = opened /\ freed' = freed
  BY DEF Returns, loop
<1>2. at # "idle" /\ at' # "idle" /\ at' \in Steps
  BY <1>1 DEF Called, After, Events, Steps
<1>3. Live(link) => /\ link \in Watches /\ watch[link].fd \in Fds
                    /\ ready[watch[link].fd] # Closed /\ ready[watch[link].fd] \subseteq Events
  BY Typed DEF IInv, TypeOK, OpenFds
<1>4. /\ ready' \in [Fds -> (SUBSET Events) \union {Closed}]
      /\ \A fd \in Fds : ready[fd] # Closed => ready'[fd] # Closed
  <2>1. CASE Live(link)
    <3>1. ready[watch[link].fd] \ {e} \subseteq Events /\ ready[watch[link].fd] \ {e} # Closed
      BY <1>3, <2>1 DEF Closed, Events
    <3> QED BY <1>1, <1>3, <2>1, <3>1 DEF IInv, TypeOK
  <2>2. CASE ~Live(link)
    BY <1>1, <2>2 DEF IInv, TypeOK
  <2> QED BY <2>1, <2>2
<1>5. TypeOK'
  BY <1>1, <1>2, <1>4 DEF IInv, TypeOK
<1>6. \A w : (Live(w)' <=> Live(w)) /\ (Allocated(w)' <=> Allocated(w))
  BY <1>1 DEF Live, Allocated
<1>7. OpenFds' /\ RingInv' /\ TableInv'
  BY <1>1, <1>4, <1>6, Typed DEF IInv, OpenFds, RingInv, TableInv
<1>8. SelectInv' /\ NotifiedInv'
  BY <1>1, <1>2, <1>6 DEF IInv, SelectInv, NotifiedInv, Place, Selects
<1>9. HistoryInv'
  BY <1>1, <1>2 DEF IInv, HistoryInv, CallsAreWanted
<1> QED BY <1>5, <1>7, <1>8, <1>9 DEF IInv

-----------------------------------------------------------------------------
LEMMA Invariant == ASSUME LoopAssumption PROVE LoopSpec => []IInv
<1>1. LoopInit => IInv
  BY Starting
<1>2. IInv /\ [LoopNext]_loopvars => IInv'
  <2> SUFFICES ASSUME IInv, [LoopNext]_loopvars PROVE IInv'
    OBVIOUS
  <2>1. CASE Arrives
    BY <2>1, ArrivesStep
  <2>2. CASE ServerCalls
    BY <2>2, DrainsStep, OpensStep, ClosesStep, WatchAddStep, WatchUpdateMaskStep, WatchRemoveStep
       DEF ServerCalls
  <2>3. CASE XWakes
    BY <2>3, XWakesStep
  <2>4. CASE \E fd \in Fds : Notify(fd)
    BY <2>4, NotifyStep
  <2>5. CASE Work
    BY <2>5, CheckStep, WatchFdNotifiedStep, ReturnsStep, CheckNextStep, NotifiedAllStep
       DEF Work, Body
  <2>6. CASE UNCHANGED loopvars
    <3>1. /\ UNCHANGED <<abi, watch, watches, notify, loop, at, freed, wanted>>
          /\ ready' = ready /\ opened' = opened
      BY <2>6 DEF loopvars, loop
    <3>2. ready \in [Fds -> (SUBSET Events) \union {Closed}] /\ opened \subseteq Fds
      BY DEF IInv, TypeOK
    <3>3. \A w \in Watches : Live(w) => ready[watch[w].fd] # Closed
      BY DEF IInv, OpenFds
    <3> QED BY <3>1, <3>2, <3>3, WatchesSame
  <2> QED BY <2>1, <2>2, <2>3, <2>4, <2>5, <2>6 DEF LoopNext
<1> QED BY <1>1, <1>2, PTL DEF LoopSpec

(* Under either ABI, watch_func is called only for a watch that is there   *)
(* and asks for the event, for the descriptor that was found ready,        *)
(* whatever watches callbacks before it removed, closed and opened; except *)
(* with notify once the callback has removed the watch that is notified.   *)
THEOREM CallsAreWantedTheorem ==
  ASSUME LoopAssumption PROVE LoopSpec => []CallsAreWanted
<1>1. IInv => CallsAreWanted
  BY DEF IInv, HistoryInv
<1> QED BY <1>1, Invariant, PTL

(* RING_FOREACH_SAFE goes on with watches that are in the ring, wherever   *)
(* and whenever callbacks and timers add to it and remove from it.         *)
THEOREM LoopIsSafeTheorem ==
  ASSUME LoopAssumption PROVE LoopSpec => []LoopIsSafe
<1>1. IInv => LoopIsSafe
  BY Typed DEF IInv, RingInv, SelectInv, LoopIsSafe
<1> QED BY <1>1, Invariant, PTL
=============================================================================
