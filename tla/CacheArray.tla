----------------------------- MODULE CacheArray -----------------------------
(***************************************************************************)
(* The array cached_surfaces of the surface cache (qxl_surface_ums.c) and  *)
(* the two loops that work on it, as operators on the array.  Which        *)
(* surfaces suit a request is the caller's; the sizes behind that choice   *)
(* do not matter to the array.                                             *)
(***************************************************************************)
EXTENDS Integers, FiniteSetsExt

CONSTANTS NCached,    \* N_CACHED_SURFACES
          Null        \* the null pointer

CacheArrayAssumption == NCached \in Nat \ {0}

Indices == 0 .. NCached - 1

NoneCached == [i \in Indices |-> Null]

Occupied(a) == {i \in Indices : a[i] # Null}
Cached(a)   == {a[i] : i \in Occupied(a)}

(* surface_get_from_cache: the first surface that suits, in array order.   *)
Found(a, suits) == {i \in Occupied(a) : a[i] \in suits}

Hit_Mutant(a, suits) == Max(Found(a, suits))    \* searches from the far end
Hit(a, suits) == Min(Found(a, suits))

GetFromCache(a, suits) == [a EXCEPT ![Hit(a, suits)] = Null]

(* surface_add_to_cache, its first part: a full array gives up the entry    *)
(* at its highest index.                                                   *)
IsFull(a) == Occupied(a) = Indices

Evicted(a) == IF IsFull(a) THEN a[Max(Occupied(a))] ELSE Null

WithoutOldest_Mutant(a) == a                             \* not taken out

WithoutOldest(a) == [i \in Indices |-> IF a[i] = Evicted(a) THEN Null ELSE a[i]]

(* Its second part, the loop from the highest index down, which closes the *)
(* gaps: delta counts the gaps seen so far, and an entry moves up by delta.*)
Shift(a, i, delta) == [a EXCEPT ![i + delta] = a[i], ![i] = Null]

Compact(a) ==
  LET Pass[i \in 0 .. NCached] ==
        IF i = NCached THEN [array |-> a, delta |-> 0]
        ELSE LET p == Pass[i + 1] IN
             IF p.array[i] = Null THEN [p EXCEPT !.delta = @ + 1]
             ELSE IF p.delta = 0 THEN p
             ELSE [p EXCEPT !.array = Shift(@, i, p.delta)]
  IN Pass[0]

AddToCache(a, s) ==
  LET p == Compact(WithoutOldest(a))
  IN [p.array EXCEPT ![p.delta - 1] = s]
=============================================================================
