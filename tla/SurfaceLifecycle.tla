-------------------------- MODULE SurfaceLifecycle --------------------------
(***************************************************************************)
(* The life of the offscreen surfaces in UMS mode (qxl_surface_ums.c):     *)
(* free, live, dead (kept by the cache or by a copy the device has still   *)
(* to finish), destroyed, free again.  X is one thread, but every          *)
(* allocation collects garbage (qxl_mem.c), a collected copy may drop the  *)
(* last reference to its source, and destroying that source allocates a    *)
(* command, in the middle of whatever X was doing.  stack holds the calls  *)
(* that are under way, the innermost first.                                *)
(*                                                                         *)
(* Commands reach the device in the order they are pushed, so the device's *)
(* state is that after the last command pushed; it may release any         *)
(* outstanding command by the time a collection looks for it.  The primary *)
(* surface is left out: it is not counted, cached or recycled.             *)
(***************************************************************************)
EXTENDS CacheArray, SequencesExt

CONSTANTS
  NSurfaces,    \* rom->n_surfaces - 1: ids 1 .. NSurfaces are offscreen
  Vram,         \* units of surface memory: a large surface takes two
  MaxCopies     \* bound on the outstanding copies from one surface

LifecycleAssumption ==
  /\ NSurfaces \in Nat \ {0} /\ Vram \in Nat /\ MaxCopies \in Nat
  /\ Null \notin 1 .. NSurfaces

Surfaces == 1 .. NSurfaces

VARIABLES
  refs,       \* ref_count of each surface
  bo,         \* refcnt of the buffer that holds its pixels
  large,      \* the surfaces of at least 128 x 128
  avail,      \* free units of surface memory
  free,       \* free_surfaces
  live,       \* live_surfaces
  cached,     \* cached_surfaces
  copies,     \* outstanding DRAW_COPY commands from each surface
  destroys,   \* outstanding SURFACE_DESTROY commands for it
  device,     \* CREATEs less DESTROYs the device was sent for it
  vt,         \* whether X has the virtual terminal
  stack

devvars  == <<copies, destroys, device>>
listvars == <<free, live, cached>>
memvars  == <<bo, large, avail>>
vars     == <<refs, memvars, listvars, devvars, vt, stack>>

Units(big) == IF big THEN 2 ELSE 1

Descending == [i \in 1 .. NSurfaces |-> NSurfaces + 1 - i]

Zero == [s \in Surfaces |-> 0]

(* surface_cache_init *)
Init ==
  /\ refs = Zero /\ bo = Zero /\ large = {} /\ avail = Vram
  /\ free = Descending /\ live = {} /\ cached = NoneCached
  /\ copies = Zero /\ destroys = Zero /\ device = Zero
  /\ vt = "here" /\ stack = <<>>

-----------------------------------------------------------------------------
(* A call: where it stands, the surface it is about, the size it asks for  *)
(* and the result of the last call it made.                                *)
Frame(pc, s) == [pc |-> pc, s |-> s, big |-> FALSE, got |-> FALSE]

Gc  == Frame("gc", Null)
Top == Head(stack)
At(pc) == stack # <<>> /\ Top.pc = pc
GoTo(pc) == stack' = <<[Top EXCEPT !.pc = pc]>> \o Tail(stack)

Calls(callee, pc) == stack' = <<callee, [Top EXCEPT !.pc = pc]>> \o Tail(stack)

Return(result) ==
  stack' = IF Len(stack) = 1 THEN <<>>
           ELSE <<[stack[2] EXCEPT !.got = result]>> \o Tail(Tail(stack))

(* qxl_surface_unref, as the calls it adds on top of those in below:       *)
(* surface_destroy first allocates its command.                            *)
Unref_Mutant(s, below) ==        \* forgets other holders
  IF refs[s] <= 2 THEN <<Gc, Frame("destroy", s)>> \o below ELSE below

Unref(s, below) ==
  IF refs[s] = 1 THEN <<Gc, Frame("destroy", s)>> \o below ELSE below

FreeBuffer(s) == avail' = avail + IF bo[s] = 1 THEN Units(s \in large) ELSE 0

(* surface_destroy, from the command's allocation on.                      *)
Destroy ==
  /\ At("destroy")
  /\ device' = [device EXCEPT ![Top.s] = @ - 1]
  /\ destroys' = [destroys EXCEPT ![Top.s] = @ + 1]
  /\ bo' = [bo EXCEPT ![Top.s] = @ - 1]
  /\ FreeBuffer(Top.s)
  /\ Return(FALSE)
  /\ UNCHANGED <<refs, large, listvars, copies, vt>>

-----------------------------------------------------------------------------
(* qxl_garbage_collect: what it finds on the release ring, in any order.   *)
(* All the collections of one qxl_allocnf are one here.                    *)
Found1 == <<[Top EXCEPT !.got = TRUE]>> \o Tail(stack)

GcCopy(s) ==
  /\ At("gc") /\ copies[s] > 0
  /\ copies' = [copies EXCEPT ![s] = @ - 1]
  /\ refs' = [refs EXCEPT ![s] = @ - 1]
  /\ stack' = Unref(s, Found1)
  /\ UNCHANGED <<memvars, listvars, destroys, device, vt>>

(* qxl_surface_recycle *)
GcDestroy_Mutant(s) ==           \* keeps the pixels' buffer
  /\ At("gc") /\ destroys[s] > 0
  /\ destroys' = [destroys EXCEPT ![s] = @ - 1]
  /\ free' = <<s>> \o free
  /\ stack' = Found1
  /\ UNCHANGED <<refs, memvars, live, cached, copies, device, vt>>

GcDestroy(s) ==
  /\ At("gc") /\ destroys[s] > 0
  /\ destroys' = [destroys EXCEPT ![s] = @ - 1]
  /\ bo' = [bo EXCEPT ![s] = 0]
  /\ FreeBuffer(s)
  /\ free' = <<s>> \o free
  /\ stack' = Found1
  /\ UNCHANGED <<refs, large, live, cached, copies, device, vt>>

(* Any other command.                                                      *)
GcOther == At("gc") /\ ~Top.got /\ stack' = Found1
           /\ UNCHANGED <<refs, memvars, listvars, devvars, vt>>

GcReturn == At("gc") /\ Return(Top.got)
            /\ UNCHANGED <<refs, memvars, listvars, devvars, vt>>

(* qxl_handle_oom: the first collection's result is dropped.               *)
Oom == /\ \/ At("oom1") /\ Calls(Gc, "oom2")
          \/ At("oom2") /\ Return(Top.got)
       /\ UNCHANGED <<refs, memvars, listvars, devvars, vt>>

HandleOom(pc) ==
  stack' = <<Gc, Frame("oom1", Null), [Top EXCEPT !.pc = pc]>> \o Tail(stack)

-----------------------------------------------------------------------------
(* qxl_surface_create *)
Idle == stack = <<>> /\ vt \in {"here", "lost"}

CreateHit(suits) ==
  /\ Idle /\ Found(cached, suits) # {}
  /\ live' = live \union {cached[Hit(cached, suits)]}
  /\ cached' = GetFromCache(cached, suits)
  /\ UNCHANGED <<refs, memvars, free, devvars, vt, stack>>

CreateMiss(big) ==
  /\ Idle
  /\ stack' = <<Gc, [Frame("bo", Null) EXCEPT !.big = big]>>
  /\ UNCHANGED <<refs, memvars, listvars, devvars, vt>>

(* surface_send_create: the buffer.                                        *)
CreateBuffer ==
  /\ At("bo")
  /\ IF Units(Top.big) <= avail
       THEN avail' = avail - Units(Top.big) /\ GoTo("list")
       ELSE Calls(Gc, "nobo") /\ UNCHANGED avail
  /\ UNCHANGED <<refs, bo, large, listvars, devvars, vt>>

CreateOom ==
  /\ \/ At("nobo") /\ IF Top.got THEN GoTo("bo") ELSE HandleOom("booom")
     \/ At("booom") /\ IF Top.got THEN Calls(Gc, "drain")
                                  ELSE Return(FALSE)    \* out of video memory
     \/ At("drain") /\ IF Top.got THEN Calls(Gc, "drain") ELSE GoTo("bo")
  /\ UNCHANGED <<refs, memvars, listvars, devvars, vt>>

(* surface_get_from_free_list, then the CREATE command is allocated.       *)
CreateSurface ==
  /\ At("list") /\ free # <<>>
  /\ free' = Tail(free)
  /\ refs' = [refs EXCEPT ![Head(free)] = 1]
  /\ bo' = [bo EXCEPT ![Head(free)] = 1]
  /\ large' = IF Top.big THEN large \union {Head(free)} ELSE large \ {Head(free)}
  /\ stack' = <<Gc, [Top EXCEPT !.pc = "create", !.s = Head(free)]>> \o Tail(stack)
  /\ UNCHANGED <<avail, live, cached, devvars, vt>>

CreateNoSurface ==
  /\ At("list") /\ free = <<>>
  /\ HandleOom("listoom")
  /\ UNCHANGED <<refs, memvars, listvars, devvars, vt>>

CreateListOom_Mutant ==          \* forgets the buffer
  /\ At("listoom")
  /\ IF Top.got THEN GoTo("list") ELSE Return(FALSE)
  /\ UNCHANGED <<refs, memvars, listvars, devvars, vt>>

CreateListOom ==
  /\ At("listoom")
  /\ IF Top.got THEN GoTo("list") /\ UNCHANGED avail
     ELSE Return(FALSE) /\ avail' = avail + Units(Top.big)    \* out of surfaces
  /\ UNCHANGED <<refs, bo, large, listvars, devvars, vt>>

(* The reloc in the command takes a reference to the buffer.               *)
CreateSend ==
  /\ At("create")
  /\ device' = [device EXCEPT ![Top.s] = @ + 1]
  /\ bo' = [bo EXCEPT ![Top.s] = @ + 1]
  /\ live' = live \union {Top.s}
  /\ Return(TRUE)
  /\ UNCHANGED <<refs, large, avail, free, cached, copies, destroys, vt>>

-----------------------------------------------------------------------------
(* qxl_surface_kill of a surface that is not evacuated: large ones go to   *)
(* the cache, and the one evicted for it is let go at once.                *)
Kill_Mutant(s) ==                \* evicts without letting go
  /\ Idle /\ s \in live
  /\ live' = live \ {s}
  /\ stack' = <<Frame("kill", s)>>
  /\ IF s \notin large THEN UNCHANGED <<refs, cached>>
     ELSE /\ cached' = AddToCache(cached, s)
          /\ refs' = [refs EXCEPT ![s] = @ + 1]
  /\ UNCHANGED <<memvars, free, devvars, vt>>

Kill(s) ==
  /\ Idle /\ s \in live
  /\ live' = live \ {s}
  /\ IF s \notin large
       THEN stack' = <<Frame("kill", s)>> /\ UNCHANGED <<refs, cached>>
       ELSE LET victim == Evicted(cached) IN
            /\ cached' = AddToCache(cached, s)
            /\ refs' = [r \in Surfaces |-> CASE r = s      -> refs[r] + 1
                                             [] r = victim -> refs[r] - 1
                                             [] OTHER      -> refs[r]]
            /\ stack' = IF victim = Null THEN <<Frame("kill", s)>>
                        ELSE Unref(victim, <<Frame("kill", s)>>)
  /\ UNCHANGED <<memvars, free, devvars, vt>>

KillUnref ==
  /\ At("kill")
  /\ refs' = [refs EXCEPT ![Top.s] = @ - 1]
  /\ stack' = Unref(Top.s, Tail(stack))
  /\ UNCHANGED <<memvars, listvars, devvars, vt>>

(* qxl_surface_copy from one surface to another.                           *)
Copy(s) ==
  /\ Idle /\ s \in live /\ copies[s] < MaxCopies
  /\ refs' = [refs EXCEPT ![s] = @ + 1]
  /\ stack' = <<Gc, Frame("copy", s)>>
  /\ UNCHANGED <<memvars, listvars, devvars, vt>>

CopySend ==
  /\ At("copy")
  /\ copies' = [copies EXCEPT ![Top.s] = @ + 1]
  /\ Return(FALSE)
  /\ UNCHANGED <<refs, memvars, listvars, destroys, device, vt>>

-----------------------------------------------------------------------------
(* qxl_leave_vt: qxl_surface_cache_evacuate_all destroys what is cached,   *)
(* whatever its ref_count; a reset of the device follows.                  *)
LeaveVt ==
  /\ Idle
  /\ stack' = <<Frame("evacuate", Null)>>
  /\ UNCHANGED <<refs, memvars, listvars, devvars, vt>>

Evacuate ==
  /\ At("evacuate") /\ Occupied(cached) # {}
  /\ stack' = <<Gc, Frame("destroy", cached[Min(Occupied(cached))]),
                Frame("evacuated", Null)>>
  /\ UNCHANGED <<refs, memvars, listvars, devvars, vt>>

Evacuated ==
  /\ At("evacuated")
  /\ cached' = [cached EXCEPT ![Min(Occupied(cached))] = Null]
  /\ GoTo("evacuate")
  /\ UNCHANGED <<refs, memvars, free, live, devvars, vt>>

EvacuateLive ==
  /\ At("evacuate") /\ Occupied(cached) = {}
  /\ vt' = IF live = {} THEN "emptied" ELSE "away"
  /\ live' = {} /\ free' = <<>>
  /\ copies' = Zero /\ destroys' = Zero /\ device' = Zero
  /\ stack' = <<>>
  /\ UNCHANGED <<refs, memvars, cached>>

(* qxl_enter_vt, for vt_surfaces with something in it.  The surfaces that  *)
(* qxl_surface_cache_replace_all makes are further Creates.                *)
EnterVt ==
  /\ vt = "away"
  /\ vt' = "here"
  /\ refs' = Zero /\ bo' = Zero /\ large' = {} /\ avail' = Vram
  /\ free' = Descending
  /\ UNCHANGED <<live, cached, devvars, stack>>

(* When no surface was evacuated surface_cache_init is not called, and the *)
(* cache stays without a free surface.                                     *)
EnterVtEmpty ==
  /\ vt = "emptied"
  /\ vt' = "lost"
  /\ avail' = Vram
  /\ UNCHANGED <<refs, bo, large, listvars, devvars, stack>>

-----------------------------------------------------------------------------
Create == \/ \E suits \in SUBSET Cached(cached) : CreateHit(suits)
          \/ \E big \in BOOLEAN : CreateMiss(big)
          \/ CreateBuffer \/ CreateOom
          \/ CreateSurface \/ CreateNoSurface \/ CreateListOom \/ CreateSend

Collect == \/ \E s \in Surfaces : GcCopy(s) \/ GcDestroy(s)
           \/ GcOther \/ GcReturn \/ Oom

Next == \/ Create \/ Collect \/ Destroy
        \/ \E s \in Surfaces : Kill(s) \/ Copy(s)
        \/ KillUnref \/ CopySend
        \/ LeaveVt \/ Evacuate \/ Evacuated \/ EvacuateLive \/ EnterVt \/ EnterVtEmpty

Spec == Init /\ [][Next]_vars

-----------------------------------------------------------------------------
Pcs == {"gc", "oom1", "oom2", "bo", "nobo", "booom", "drain", "list", "listoom",
        "create", "destroy", "kill", "copy", "evacuate", "evacuated"}

TypeOK ==
  /\ refs \in [Surfaces -> Nat] /\ bo \in [Surfaces -> 0 .. 2]
  /\ large \subseteq Surfaces /\ avail \in Nat
  /\ free \in Seq(Surfaces) /\ live \subseteq Surfaces
  /\ cached \in [Indices -> Surfaces \union {Null}]
  /\ copies \in [Surfaces -> 0 .. MaxCopies]
  /\ destroys \in [Surfaces -> 0 .. 1] /\ device \in [Surfaces -> Int]
  /\ vt \in {"here", "away", "emptied", "lost"}
  /\ stack \in Seq([pc : Pcs, s : Surfaces \union {Null},
                    big : BOOLEAN, got : BOOLEAN])

Frames == Range(stack)
Doing(pc, s) == \E f \in Frames : f.pc = pc /\ f.s = s
Evacuating == \E f \in Frames : f.pc \in {"evacuate", "evacuated"}
Normal == vt = "here" /\ ~Evacuating

One(condition) == IF condition THEN 1 ELSE 0

(* Every holder of a surface is counted, and nothing else: the pixmap (or  *)
(* the call that makes or kills it), the cache, each copy the device has   *)
(* not finished and the one being made.  Too few would destroy a surface   *)
(* in use, too many would never destroy it.                                *)
RefCountExact ==
  Normal => \A s \in Surfaces :
    refs[s] = One(s \in live) + One(Doing("create", s)) + One(Doing("kill", s))
                + One(s \in Cached(cached)) + copies[s] + One(Doing("copy", s))

(* The device accepts every surface command: it is asked to create only    *)
(* what it does not have and to destroy only what it has; and while a      *)
(* pixmap, the cache or an unfinished copy uses a surface it is there.     *)
CommandsAccepted ==
  \A s \in Surfaces :
    /\ device[s] \in {0, 1}
    /\ Normal /\ (s \in live \/ s \in Cached(cached) \/ copies[s] > 0)
         => device[s] = 1

(* A surface on the free list is there once and nowhere else: no command,  *)
(* holder or buffer of its last life is left (the assertion in             *)
(* surface_get_from_free_list, and what it relies on).                     *)
FreeIsUnused ==
  /\ \A i, j \in DOMAIN free : free[i] = free[j] => i = j
  /\ Normal => \A s \in Range(free) :
       /\ refs[s] = 0 /\ bo[s] = 0 /\ device[s] = 0 /\ destroys[s] = 0
       /\ s \notin live \union Cached(cached)
       /\ \A f \in Frames : f.s # s

(* The device is only asked to create what it has not and to destroy what  *)
(* it has, and a surface on the free list has nothing left of its last     *)
(* life.                                                                   *)
DeviceProtocol == TypeOK /\ CommandsAccepted /\ FreeIsUnused

(* The units of a set of surfaces or frames, of which those in big are     *)
(* large.                                                                  *)
UnitsOf(set, big) == Cardinality(set) + Cardinality(set \cap big)

(* The pixels' memory is held as long as the device may touch it, and      *)
(* comes back exactly once: nothing leaks, whichever step of a creation    *)
(* fails, and nothing is freed twice.                                      *)
MemoryExact ==
  /\ avail <= Vram
  /\ vt = "here" =>
       /\ \A s \in Surfaces : device[s] + destroys[s] > 0 => bo[s] > 0
       /\ LET taken == {f \in Frames : f.pc \in {"list", "listoom"}} IN
          avail = Vram - UnitsOf({s \in Surfaces : bo[s] > 0}, large)
                       - UnitsOf(taken, {f \in taken : f.big})

(* Where a surface is in its life.                                         *)
State(s) == IF s \in live THEN "live"
            ELSE IF destroys[s] > 0 \/ Doing("destroy", s) THEN "destroyed"
            ELSE IF s \in Range(free) \/ Doing("create", s) THEN "free"
            ELSE "dead"

(* free => live => dead => destroyed => free, as the comment at the head   *)
(* of qxl_surface_ums.c has it; a dead surface may be resurrected.  Only a *)
(* reset of the device leaves this order.                                  *)
FollowsEdges ==
  vt = "here" /\ vt' = "here" =>
    \A s \in Surfaces :
      State(s)' # State(s) =>
        <<State(s), State(s)'>> \in
          {<<"free", "live">>, <<"live", "dead">>, <<"dead", "live">>,
           <<"dead", "destroyed">>, <<"destroyed", "free">>}

FollowsLifeCycle == [][FollowsEdges]_vars
=============================================================================
