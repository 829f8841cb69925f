---------------------------- MODULE SurfaceCache ----------------------------
(***************************************************************************)
(* The surface cache on its own: cached_surfaces under every sequence of   *)
(* additions, requests and evacuations.                                    *)
(***************************************************************************)
EXTENDS CacheArray, Sequences

CONSTANT CacheSurfaces

CacheAssumption == CacheArrayAssumption /\ Null \notin CacheSurfaces

VARIABLES cached_surfaces,
          suiting,  \* the surfaces that suited the last request
          gone      \* what the last operation took out of it, or Null

cachevars == <<cached_surfaces, suiting, gone>>

(* surface_cache_init *)
CacheInit == cached_surfaces = NoneCached /\ suiting = {} /\ gone = Null

(* A surface X killed, so none that is cached already.                     *)
Add(s) ==
  /\ s \notin Cached(cached_surfaces)
  /\ cached_surfaces' = AddToCache(cached_surfaces, s)
  /\ gone' = Evicted(cached_surfaces)
  /\ suiting' = {}

Get(set) ==
  /\ suiting' = set
  /\ IF Found(cached_surfaces, set) = {}
       THEN gone' = Null /\ UNCHANGED cached_surfaces
       ELSE /\ cached_surfaces' = GetFromCache(cached_surfaces, set)
            /\ gone' = cached_surfaces[Hit(cached_surfaces, set)]

(* qxl_surface_cache_evacuate_all, surface_cache_init *)
GiveUpAll == cached_surfaces' = NoneCached /\ suiting' = {} /\ gone' = Null

CacheNext == \/ \E s \in CacheSurfaces : Add(s)
             \/ \E set \in SUBSET CacheSurfaces : Get(set)
             \/ GiveUpAll

CacheSpec == CacheInit /\ [][CacheNext]_cachevars

-----------------------------------------------------------------------------
(* The array as a list: its entries in index order, the gaps left out.     *)
Rank(a, i) == Cardinality({j \in Occupied(a) : j <= i})

ListOf(a) ==
  [n \in 1 .. Cardinality(Occupied(a)) |-> a[CHOOSE i \in Occupied(a) : Rank(a, i) = n]]

Recently == INSTANCE RecentlyUsed
              WITH Surfaces <- CacheSurfaces, Nobody <- Null, Capacity <- NCached,
                   list <- ListOf(cached_surfaces), suits <- suiting

(* Each addition and request does to the array's entries, read as a list,  *)
(* what RecentlyUsed does, so that the one evicted is the oldest, the one  *)
(* reused the youngest that suits, and no entry is lost or doubled when    *)
(* surface_add_to_cache closes the gaps.                                   *)
KeepsAgeOrder == Recently!Spec

(* The assertions of surface_add_to_cache: there is a gap to store into,   *)
(* and the evicted surface is nowhere in the array any more; nor is any    *)
(* surface there twice, or a hit would leave a copy behind.                *)
AssertionsHold ==
  /\ \A s \in CacheSurfaces \ Cached(cached_surfaces) :
       /\ Compact(WithoutOldest(cached_surfaces)).delta > 0
       /\ Evicted(cached_surfaces) # Null =>
            Evicted(cached_surfaces) \notin Cached(AddToCache(cached_surfaces, s))
  /\ \A i, j \in Occupied(cached_surfaces) :
       cached_surfaces[i] = cached_surfaces[j] => i = j
=============================================================================
