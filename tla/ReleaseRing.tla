---------------------------- MODULE ReleaseRing -----------------------------
(***************************************************************************)
(* How device memory comes back.  The spice worker hands every finished    *)
(* command to interface_release_resource, which threads it on a chain and  *)
(* publishes whole chains through the release ring (spiceqxl_display.c).   *)
(* The X thread collects the chains (qxl_garbage_collect) whenever it      *)
(* allocates, and asks the worker for more when memory has run out         *)
(* (qxl_allocnf, qxl_handle_oom, QXL_IO_NOTIFY_OOM).                       *)
(*                                                                         *)
(* A command stands for all the buffers that are freed with it; memory is  *)
(* a number of units.  Accesses to the shared ring are steps of their own. *)
(* Operators whose name ends in _Mutant are plausible slips in the         *)
(* definition after them, used to show that the properties see them.       *)
(***************************************************************************)
EXTENDS Integers, FiniteSets, FiniteSetsExt

CONSTANTS
  Commands,     \* command buffers
  Nil,          \* the end of a chain, an empty slot, a null pointer
  NumItems,     \* QXL_RELEASE_RING_SIZE
  Modulus,      \* prod and cons wrap here
  Bunch,        \* QXL_FREE_BUNCH_SIZE
  Memory,       \* units of device memory
  Sizes,        \* units a command may take
  MaxAttempts,  \* fruitless rounds before X exits, 1000 in qxl_allocnf
  Prompt        \* whether the worker serves an OOM request within one sleep

ReleaseAssumption ==
  /\ IsFiniteSet(Commands) /\ Nil \notin Commands
  /\ NumItems \in Nat \ {0, 1}
  /\ Modulus \in Nat /\ NumItems < Modulus /\ Modulus % NumItems = 0
  /\ Bunch \in Nat \ {0}
  /\ Memory \in Nat /\ Sizes \subseteq 1 .. Memory
  /\ MaxAttempts \in Nat \ {0}
  /\ Prompt \in BOOLEAN

VARIABLES
  prod, cons,       \* header of the release ring
  slots,            \* the chains' heads
  next,             \* release_info.next of each command
  size,             \* units each command takes
  owner,            \* who may touch a command: nobody, the device or its chain
  avail,            \* free units
  last, numFree,    \* last_release, num_free_res: the chain being built
  wpc, wflush,      \* the worker inside qxl_push_free_res, and its argument
  oom,              \* where an OOM request to the worker stands
  xpc,              \* the X thread inside qxl_allocnf
  xback,            \* where the running qxl_garbage_collect returns to
  xid, xcount,      \* its locals id and i
  xneed, attempts   \* qxl_allocnf's size and n_attempts

ringvars == <<prod, cons, slots>>
memvars  == <<next, size, owner, avail>>
wvars    == <<last, numFree, wpc, wflush>>
xvars    == <<xpc, xback, xid, xcount, xneed, attempts>>
releasevars == <<ringvars, memvars, wvars, oom, xvars>>

Id == Commands \union {Nil}

Inc(c) == (c + 1) % Modulus
Slot(c) == c % NumItems
Used == (prod - cons) % Modulus

-----------------------------------------------------------------------------
(* xspice_init_qxl_ram and qxl_add_spice_display_interface.                *)
ReleaseInit ==
  /\ prod = 0 /\ cons = 0
  /\ slots = [i \in 0 .. NumItems - 1 |-> Nil]
  /\ next = [c \in Commands |-> Nil]
  /\ size = [c \in Commands |-> 0]
  /\ owner = [c \in Commands |-> "nobody"]
  /\ avail = Memory
  /\ last = Nil /\ numFree = 0
  /\ wpc = "top" /\ wflush = FALSE
  /\ oom = "none"
  /\ xpc = "idle" /\ xback = "try" /\ xid = Nil /\ xcount = 0
  /\ xneed = 0 /\ attempts = 0

-----------------------------------------------------------------------------
(* The worker.                                                             *)

(* interface_release_resource up to its call of qxl_push_free_res.  The    *)
(* slot at prod holds the head of the chain being built, 0 for none.       *)
Release(c) ==
  /\ wpc = "top" /\ owner[c] = "device"
  /\ owner' = [owner EXCEPT ![c] = "chain"]
  /\ IF slots[Slot(prod)] = Nil
       THEN /\ slots' = [slots EXCEPT ![Slot(prod)] = c]
            /\ next' = [next EXCEPT ![c] = Nil]
       ELSE /\ next' = [next EXCEPT ![last] = c, ![c] = Nil]
            /\ UNCHANGED slots
  /\ last' = c
  /\ numFree' = numFree + 1
  /\ wpc' = "test" /\ wflush' = FALSE
  /\ oom' = IF oom = "starved" THEN "freed" ELSE oom
  /\ UNCHANGED <<prod, cons, size, avail, xvars>>

Flush_Mutant ==         \* asks for a bunch like any other release
  /\ wpc = "top" /\ oom \in {"asked", "freed"}
  /\ numFree > 0
  /\ wpc' = "test" /\ wflush' = FALSE
  /\ oom' = "none"
  /\ UNCHANGED <<ringvars, memvars, last, numFree, xvars>>

(* interface_flush_resources, which the worker calls for an OOM request.   *)
(* The request stays pending until the worker has dealt with it.           *)
Flush ==
  /\ wpc = "top" /\ oom \in {"asked", "freed"}
  /\ numFree > 0
  /\ wpc' = "test" /\ wflush' = TRUE
  /\ oom' = "flushing"
  /\ UNCHANGED <<ringvars, memvars, last, numFree, xvars>>

(* It returned 0: the worker gives up some resources and flushes again.    *)
FlushNothing ==
  /\ wpc = "top" /\ oom \in {"asked", "freed"}
  /\ numFree = 0
  /\ oom' = IF oom = "asked" /\ \E c \in Commands : owner[c] = "device"
              THEN "starved" ELSE "none"
  /\ UNCHANGED <<ringvars, memvars, wvars, xvars>>

(* qxl_push_free_res: its three early returns.  oom_running is never set.  *)
RingFull_Mutant == Used = NumItems    \* forgets the slot being filled

RingFull == (Used + 1) % Modulus = NumItems

OomAfterPush == IF oom = "flushing" THEN "none" ELSE oom

PushTest ==
  /\ wpc = "test"
  /\ IF RingFull \/ (~wflush /\ numFree < Bunch)
       THEN wpc' = "top" /\ oom' = OomAfterPush
       ELSE wpc' = "push" /\ UNCHANGED oom
  /\ UNCHANGED <<ringvars, memvars, last, numFree, wflush, xvars>>

PushProd ==
  /\ wpc = "push"
  /\ prod' = Inc(prod)
  /\ wpc' = "clear"
  /\ UNCHANGED <<cons, slots, memvars, last, numFree, wflush, oom, xvars>>

PushClear_Stale_Mutant ==    \* forgets to zero the next slot
  /\ wpc = "clear"
  /\ numFree' = 0 /\ last' = Nil
  /\ wpc' = "top" /\ oom' = OomAfterPush
  /\ UNCHANGED <<ringvars, memvars, wflush, xvars>>

PushClear ==
  /\ wpc = "clear"
  /\ slots' = [slots EXCEPT ![Slot(prod)] = Nil]
  /\ numFree' = 0 /\ last' = Nil
  /\ wpc' = "top" /\ oom' = OomAfterPush
  /\ UNCHANGED <<prod, cons, memvars, wflush, xvars>>

-----------------------------------------------------------------------------
(* The X thread: qxl_garbage_collect, called at xback.                     *)

CallGC(back) ==
  /\ xpc' = "gc" /\ xback' = back /\ xid' = Nil /\ xcount' = 0

(* qxl_ring_pop copies the head of a chain, then moves cons.               *)
GcRead ==
  /\ xpc = "gc" /\ cons # prod
  /\ xid' = slots[Slot(cons)]
  /\ xpc' = "pop"
  /\ UNCHANGED <<ringvars, memvars, wvars, oom, xback, xcount, xneed, attempts>>

GcPop ==
  /\ xpc = "pop"
  /\ cons' = Inc(cons)
  /\ xpc' = "walk"
  /\ UNCHANGED <<prod, slots, memvars, wvars, oom, xback, xid, xcount, xneed, attempts>>

(* qxl_garbage_collect_internal: fetch info->next, free the command.       *)
GcFree ==
  /\ xpc = "walk" /\ xid # Nil
  /\ xid' = next[xid]
  /\ xcount' = xcount + 1
  /\ owner' = [owner EXCEPT ![xid] = "nobody"]
  /\ avail' = avail + size[xid]
  /\ size' = [size EXCEPT ![xid] = 0]
  /\ UNCHANGED <<ringvars, next, wvars, oom, xpc, xback, xneed, attempts>>

GcChainEnd ==
  /\ xpc = "walk" /\ xid = Nil
  /\ xpc' = "gc"
  /\ UNCHANGED <<ringvars, memvars, wvars, oom, xback, xid, xcount, xneed, attempts>>

GcReturn ==
  /\ xpc = "gc" /\ cons = prod
  /\ xpc' = xback
  /\ UNCHANGED <<ringvars, memvars, wvars, oom, xback, xid, xcount, xneed, attempts>>

-----------------------------------------------------------------------------
(* The X thread: qxl_allocnf.                                              *)

AllocCall(s) ==
  /\ xpc = "idle"
  /\ xneed' = s /\ attempts' = 0
  /\ CallGC("try")
  /\ UNCHANGED <<ringvars, memvars, wvars, oom>>

(* qxl_alloc succeeds; the command is filled in and pushed to the device.  *)
Alloc(c) ==
  /\ xpc = "try" /\ xneed <= avail
  /\ owner[c] = "nobody"
  /\ owner' = [owner EXCEPT ![c] = "device"]
  /\ size' = [size EXCEPT ![c] = xneed]
  /\ avail' = avail - xneed
  /\ xpc' = "idle"
  /\ UNCHANGED <<ringvars, next, wvars, oom, xback, xid, xcount, xneed, attempts>>

AllocFails ==
  /\ xpc = "try" /\ xneed > avail
  /\ CallGC("retry")
  /\ UNCHANGED <<ringvars, memvars, wvars, oom, xneed, attempts>>

AllocRetry ==
  /\ xpc = "retry"
  /\ xpc' = IF xcount > 0 THEN "try" ELSE "oom"
  /\ UNCHANGED <<ringvars, memvars, wvars, oom, xback, xid, xcount, xneed, attempts>>

(* qxl_handle_oom.  QXL_IO_NOTIFY_OOM reaches the worker only if the       *)
(* release ring is found empty twice.                                      *)
NotifyOom ==
  /\ xpc = "oom"
  /\ IF cons # prod THEN CallGC("oom1")
                    ELSE xpc' = "oomtwice" /\ UNCHANGED <<xback, xid, xcount>>
  /\ UNCHANGED <<ringvars, memvars, wvars, oom, xneed, attempts>>

NotifyOomTwice_Mutant ==    \* tests the wrong way round
  /\ xpc = "oomtwice"
  /\ oom' = IF cons # prod /\ oom = "none" THEN "asked" ELSE oom
  /\ CallGC("oom1")
  /\ UNCHANGED <<ringvars, memvars, wvars, xneed, attempts>>

NotifyOomTwice ==
  /\ xpc = "oomtwice"
  /\ oom' = IF cons = prod /\ oom = "none" THEN "asked" ELSE oom
  /\ CallGC("oom1")
  /\ UNCHANGED <<ringvars, memvars, wvars, xneed, attempts>>

(* Only when the first collection found nothing does X sleep 10 ms.        *)
OomCollected ==
  /\ xpc = "oom1" /\ xcount > 0
  /\ CallGC("oom2")
  /\ UNCHANGED <<ringvars, memvars, wvars, oom, xneed, attempts>>

OomSleep ==
  /\ xpc = "oom1" /\ xcount = 0
  /\ Prompt => oom = "none" /\ wpc = "top"
  /\ CallGC("oom2")
  /\ UNCHANGED <<ringvars, memvars, wvars, oom, xneed, attempts>>

(* The result of the second collection alone decides the round.            *)
OomReturn ==
  /\ xpc = "oom2"
  /\ IF xcount > 0
       THEN attempts' = 0 /\ xpc' = "try"
       ELSE /\ attempts' = attempts + 1
            /\ xpc' = IF attempts + 1 = MaxAttempts THEN "exit" ELSE "try"
  /\ UNCHANGED <<ringvars, memvars, wvars, oom, xback, xid, xcount, xneed>>

-----------------------------------------------------------------------------
Worker == \/ \E c \in Commands : Release(c)
          \/ Flush \/ FlushNothing
          \/ PushTest \/ PushProd \/ PushClear

Collect == GcRead \/ GcPop \/ GcFree \/ GcChainEnd \/ GcReturn

Allocate == \/ \E c \in Commands : Alloc(c)
            \/ AllocFails \/ AllocRetry
            \/ NotifyOom \/ NotifyOomTwice
            \/ OomCollected \/ OomSleep \/ OomReturn

ReleaseNext == Worker \/ Collect \/ Allocate \/ \E s \in Sizes : AllocCall(s)

ReleaseSpec == ReleaseInit /\ [][ReleaseNext]_releasevars

(* Both threads run.  The worker releases commands of its own accord or    *)
(* not at all, but it finishes a callback it entered and serves an OOM     *)
(* request, giving up a command if there is nothing to flush.              *)
ServeOom == \/ Flush \/ FlushNothing
            \/ oom = "starved" /\ \E c \in Commands : Release(c)

ReleaseFairSpec == /\ ReleaseSpec
                   /\ WF_releasevars(Collect) /\ WF_releasevars(Allocate)
                   /\ WF_releasevars(PushTest) /\ WF_releasevars(PushProd)
                   /\ WF_releasevars(PushClear)
                   /\ SF_releasevars(ServeOom)

-----------------------------------------------------------------------------
TypeOK ==
  /\ prod \in 0 .. Modulus - 1 /\ cons \in 0 .. Modulus - 1
  /\ slots \in [0 .. NumItems - 1 -> Id]
  /\ next \in [Commands -> Id]
  /\ size \in [Commands -> 0 .. Memory]
  /\ owner \in [Commands -> {"nobody", "device", "chain"}]
  /\ avail \in 0 .. Memory
  /\ last \in Id /\ numFree \in 0 .. Cardinality(Commands)
  /\ wpc \in {"top", "test", "push", "clear"} /\ wflush \in BOOLEAN
  /\ oom \in {"none", "asked", "starved", "freed", "flushing"}
  /\ xpc \in {"idle", "gc", "pop", "walk", "try", "retry", "oom", "oomtwice",
              "oom1", "oom2", "exit"}
  /\ xback \in {"try", "retry", "oom1", "oom2"}
  /\ xid \in Id /\ xcount \in 0 .. Cardinality(Commands)
  /\ xneed \in Sizes \union {0} /\ attempts \in 0 .. MaxAttempts

(* The commands on the chain that starts at a head.                        *)
Chain(head) ==
  LET Reach[n \in 0 .. Cardinality(Commands)] ==
        IF n = 0 THEN {head}
        ELSE Reach[n - 1] \union {next[c] : c \in Reach[n - 1] \ {Nil}}
  IN Reach[Cardinality(Commands)] \ {Nil}

(* The chains in the system: published and not yet taken by X, the one the *)
(* worker is building and the rest of the one X is walking.                *)
Published == {Slot(cons + i) : i \in 0 .. Used - 1}
Building == IF wpc = "clear" THEN {} ELSE Chain(slots[Slot(prod)])
Walking  == IF xpc = "walk" THEN Chain(xid) ELSE {}

(* A command the device has released is on exactly one chain until X has   *)
(* freed it, and a command on a chain was released: nothing is freed twice,*)
(* freed while the device uses it, or lost when a chain changes hands.     *)
ReleasedOnce ==
  /\ {c \in Commands : owner[c] = "chain"}
       = Building \union Walking \union UNION {Chain(slots[i]) : i \in Published}
  /\ Building \intersect Walking = {}
  /\ \A i \in Published :
       /\ Chain(slots[i]) \intersect (Building \union Walking) = {}
       /\ \A j \in Published \ {i} : Chain(slots[i]) \intersect Chain(slots[j]) = {}

(* The slot the worker fills is never one X has still to read, and what    *)
(* the worker remembers of the chain in it is right: its length, and its   *)
(* tail, which it will write through.                                      *)
BuildingIntact ==
  /\ Slot(prod) \notin Published
  /\ wpc # "clear" =>
       /\ numFree = Cardinality(Building)
       /\ IF numFree = 0 THEN last = Nil
                         ELSE last \in Building /\ next[last] = Nil

(* While every command that takes memory is with the device or on its way  *)
(* back, and the worker is prompt, X counts two fruitless rounds at most   *)
(* for each unit it needs, and concludes that the machine is out of memory *)
(* only if that is as many as it allows.                                   *)
FruitlessRounds ==
  /\ attempts <= 2 * xneed
  /\ xpc = "exit" => MaxAttempts <= 2 * xneed

(* An allocation that has to wait for memory gets it.                      *)
AllocReturns == xpc = "try" ~> xpc = "idle"
=============================================================================
