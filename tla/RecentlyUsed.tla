---------------------------- MODULE RecentlyUsed ----------------------------
(***************************************************************************)
(* What the surface cache is for: a list of at most Capacity surfaces,     *)
(* latest first.  Room is made by dropping the surface that has been there *)
(* longest; a request is served by the latest surface that suits it.       *)
(***************************************************************************)
EXTENDS Integers, Sequences

CONSTANTS Surfaces, Nobody, Capacity

VARIABLES list,   \* the surfaces in the cache, latest first
          suits,  \* what the last request would have taken
          gone    \* the surface that left the cache in the last step, or Nobody

vars == <<list, suits, gone>>

Init == list = <<>> /\ suits = {} /\ gone = Nobody

Without(i) == SubSeq(list, 1, i - 1) \o SubSeq(list, i + 1, Len(list))

Add(s) ==
  /\ \A i \in DOMAIN list : list[i] # s
  /\ suits' = {}
  /\ IF Len(list) = Capacity
       THEN list' = <<s>> \o Without(Capacity) /\ gone' = list[Capacity]
       ELSE list' = <<s>> \o list /\ gone' = Nobody

Serve(set) ==
  /\ suits' = set
  /\ \/ \E i \in DOMAIN list :
          /\ list[i] \in set
          /\ \A j \in 1 .. i - 1 : list[j] \notin set
          /\ list' = Without(i) /\ gone' = list[i]
     \/ /\ \A i \in DOMAIN list : list[i] \notin set
        /\ list' = list /\ gone' = Nobody

Clear == list' = <<>> /\ suits' = {} /\ gone' = Nobody

Next == \/ \E s \in Surfaces : Add(s)
        \/ \E set \in SUBSET Surfaces : Serve(set)
        \/ Clear

Spec == Init /\ [][Next]_vars
=============================================================================
