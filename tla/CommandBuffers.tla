--------------------------- MODULE CommandBuffers ---------------------------
(***************************************************************************)
(* The buffers of drawing and cursor commands in UMS mode (qxl_mem.c,      *)
(* qxl_image.c, qxl_surface.c, qxl_cursor.c).  X builds a command in       *)
(* several buffers that point to one another, pushes it and lets go; when  *)
(* the device has released it, X collects it, in any later allocation.     *)
(* refcnt is a plain count: nothing but the agreement of the functions     *)
(* that build, push and collect keeps it right.                            *)
(*                                                                         *)
(* What a buffer holds besides pointers is left out.  A free buffer has no *)
(* state, so which one the allocator picks is immaterial: the lowest.      *)
(* Pixels and CREATE and DESTROY commands are in SurfaceLifecycle, how     *)
(* releases are chained in ReleaseRing.  The surfaces are the offscreen    *)
(* ones, whose record keeps its image from one use of its id to the next.  *)
(***************************************************************************)
EXTENDS SequencesExt

CONSTANTS
  NBuffers,    \* the room in qxl->mem, in buffers
  Imaged,      \* whose image_bo is cached
  MaxChunks,   \* bound on the chunks of an image: one per 512 x 512 bytes
  MaxPending   \* bound on the commands pushed and not collected

(* What the surfaces' images and the largest command need together.        *)
Peak == Cardinality(Imaged) + IF MaxChunks > 1 THEN MaxChunks + 2 ELSE 3

BuffersAssumption ==
  /\ NBuffers \in Nat /\ MaxChunks \in Nat \ {0} /\ MaxPending \in Nat
  /\ IsFiniteSet(Imaged)
  /\ NBuffers >= Peak

Buffers == 1 .. NBuffers
NoBuffer == 0

VARIABLES
  mem,       \* of each buffer: refcnt, what it is, where it points
  image,     \* image_bo of each surface
  todo,      \* what the command X is building still needs
  building,  \* its command buffer
  held,      \* the other buffers X has to let go of once it is pushed
  tail,      \* tail_bo of the image under construction
  pushed,    \* the commands the device has
  released,  \* those on the release ring
  gc,        \* the copy whose image X is collecting
  vtSema,    \* whether X has the VT
  dropped    \* the commands that were not sent

buildvars == <<todo, building, held, tail>>
buffervars == <<mem, image, buildvars, pushed, released, gc, vtSema, dropped>>

Fields == {"src", "src_transform", "mask", "mask_transform", "shape",
           "data", "next", "prev"}

Nowhere == [f \in Fields |-> NoBuffer]
Free  == [refcnt |-> 0, kind |-> "none", at |-> Nowhere]
NoGc  == [cmd |-> NoBuffer, img |-> NoBuffer, chunk |-> NoBuffer]
Empty == [b \in Buffers |-> Free]

BuffersInit ==
  /\ mem = Empty /\ image = [s \in Imaged |-> NoBuffer]
  /\ todo = <<>> /\ building = NoBuffer /\ held = <<>> /\ tail = NoBuffer
  /\ pushed = {} /\ released = {} /\ gc = NoGc
  /\ vtSema = TRUE /\ dropped = {}

-----------------------------------------------------------------------------
(* The operations on buffers, as functions of the memory.                  *)
FreeIn(m) == {b \in Buffers : m[b].kind = "none"}

Alloc(m, b, kind) == [m EXCEPT ![b] = [refcnt |-> 1, kind |-> kind, at |-> Nowhere]]

Incref(m, b) == [m EXCEPT ![b].refcnt = @ + 1]

Decref(m, b) ==
  IF m[b].refcnt > 1 THEN [m EXCEPT ![b].refcnt = @ - 1]
  ELSE [m EXCEPT ![b] = [Free EXCEPT !.refcnt = m[b].refcnt - 1]]

(* One after the other; null pointers are passed over.                     *)
DecrefAll(m, bs) ==
  LET after[i \in 0 .. Len(bs)] ==
        IF i = 0 THEN m
        ELSE IF bs[i] = NoBuffer THEN after[i - 1] ELSE Decref(after[i - 1], bs[i])
  IN after[Len(bs)]

(* bo_output_bo_reloc: field of dst points to src.                         *)
Reloc_Mutant(m, dst, field, src) ==   \* takes no reference
  [m EXCEPT ![dst].at[field] = src]

Reloc(m, dst, field, src) == [Incref(m, src) EXCEPT ![dst].at[field] = src]

-----------------------------------------------------------------------------
(* What building a command takes, in the order of the code: do allocates a *)
(* buffer (or finds the image of s); the command's field, if named, is     *)
(* then made to point to it.                                               *)
Step(do, s, field) == <<[do |-> do, s |-> s, field |-> field]>>

Command(kind) == Step(kind, NoBuffer, "none")

(* fills, copies within a surface, cursor moves and hiding *)
Plain == Command("plain")

(* real_upload_box, qxl_surface_put_image, upload_one_primary_region *)
Upload(n) ==
  Command("copy") \o [i \in 1 .. n |-> Step("chunk", NoBuffer, "none")[1]]
    \o Step("bitmap", NoBuffer, "src")

(* qxl_surface_copy between two surfaces: the image comes first *)
CopyFrom(s) == Step("surface", s, "none") \o Command("copy_surface")

Transform(transformed, field) ==
  IF transformed THEN Step("transform", NoBuffer, field) ELSE <<>>

Composite(s, mask, transformed) ==
  Command("composite") \o Step("surface", s, "src")
    \o Transform(transformed, "src_transform")
    \o IF mask = NoBuffer THEN <<>>
       ELSE Step("surface", mask, "mask")
              \o Transform(transformed, "mask_transform")

SetCursor == Command("cursor") \o Step("shape", NoBuffer, "shape")

Commands ==
  {Plain, SetCursor} \cup {Upload(n) : n \in 1 .. MaxChunks}
    \cup {CopyFrom(s) : s \in Imaged}
    \cup {Composite(s, mask, transformed) :
            s \in Imaged, mask \in Imaged \cup {NoBuffer}, transformed \in BOOLEAN}

NoCommand == todo = <<>> /\ gc = NoGc

(* X begins a command.  While it has no VT only the ticker of deferred     *)
(* frames may, and what it may still lose is left room for.                *)
Begin(command) ==
  /\ NoCommand
  /\ Cardinality(pushed \cup released) < MaxPending
  /\ vtSema \/ /\ \E n \in 1 .. MaxChunks : command = Upload(n)
               /\ Cardinality(FreeIn(mem)) >= Peak
  /\ todo' = command \o Step("push", NoBuffer, "none")
  /\ UNCHANGED <<mem, image, building, held, tail, pushed, released, gc, vtSema, dropped>>

Needs(do) == todo # <<>> /\ gc = NoGc /\ Head(todo).do \in do
NewBuffer == Min(FreeIn(mem))
LinkTo(m, b) ==
  IF Head(todo).field = "none" THEN m ELSE Reloc(m, building, Head(todo).field, b)

outside == <<pushed, released, gc, vtSema, dropped>>

(* make_drawable, qxl_alloc_cursor_cmd.                                    *)
AllocCommand ==
  /\ Needs({"plain", "copy", "copy_surface", "composite", "cursor"})
  /\ FreeIn(mem) # {}
  /\ building' = NewBuffer
  /\ LET m == Alloc(mem, NewBuffer, Head(todo).do)
     IN mem' = IF held = <<>> THEN m ELSE Reloc(m, NewBuffer, "src", held[1])
  /\ todo' = Tail(todo)
  /\ UNCHANGED <<image, held, tail, outside>>

(* qxl_image_create's loop.                                                *)
AllocChunk_Mutant ==             \* lets go of the first chunk as well
  /\ Needs({"chunk"}) /\ FreeIn(mem) # {}
  /\ LET b == NewBuffer
         m == Alloc(mem, b, "chunk")
     IN IF tail = NoBuffer
        THEN mem' = Decref(m, b) /\ held' = <<b>>
        ELSE /\ mem' = Decref(Reloc(Reloc(m, tail, "next", b), b, "prev", tail), b)
             /\ held' = held
  /\ tail' = NewBuffer
  /\ todo' = Tail(todo)
  /\ UNCHANGED <<image, building, outside>>

AllocChunk ==
  /\ Needs({"chunk"}) /\ FreeIn(mem) # {}
  /\ LET b == NewBuffer
         m == Alloc(mem, b, "chunk")
     IN IF tail = NoBuffer
        THEN mem' = m /\ held' = <<b>>
        ELSE /\ mem' = Decref(Reloc(Reloc(m, tail, "next", b), b, "prev", tail), b)
             /\ held' = held
  /\ tail' = NewBuffer
  /\ todo' = Tail(todo)
  /\ UNCHANGED <<image, building, outside>>

(* The rest of qxl_image_create, and the command's src_bitmap.             *)
AllocBitmap ==
  /\ Needs({"bitmap"}) /\ FreeIn(mem) # {}
  /\ LET b == NewBuffer
         head == held[1]
         m == Decref(Reloc(Alloc(mem, b, "bitmap"), b, "data", head), head)
     IN mem' = LinkTo(m, b) /\ held' = <<b>>
  /\ tail' = NoBuffer
  /\ todo' = Tail(todo)
  /\ UNCHANGED <<image, building, outside>>

(* get_transform, and the buffer of a cursor's shape.                      *)
AllocData ==
  /\ Needs({"transform", "shape"}) /\ FreeIn(mem) # {}
  /\ mem' = LinkTo(Alloc(mem, NewBuffer, Head(todo).do), NewBuffer)
  /\ held' = Append(held, NewBuffer)
  /\ todo' = Tail(todo)
  /\ UNCHANGED <<image, building, tail, outside>>

(* image_from_surface: the first caller makes the image, which the surface *)
(* keeps; every caller gets a reference of its own.                        *)
SurfaceImage ==
  /\ Needs({"surface"})
  /\ LET s == Head(todo).s
     IN IF image[s] = NoBuffer
        THEN /\ FreeIn(mem) # {}
             /\ image' = [image EXCEPT ![s] = NewBuffer]
             /\ mem' = LinkTo(Incref(Alloc(mem, NewBuffer, "surface"), NewBuffer), NewBuffer)
        ELSE image' = image /\ mem' = LinkTo(Incref(mem, image[s]), image[s])
  /\ held' = Append(held, image'[Head(todo).s])
  /\ todo' = Tail(todo)
  /\ UNCHANGED <<building, tail, outside>>

(* write_command takes a reference for the ring and lets go of X's, or     *)
(* returns early without a VT; then X lets go of the rest.                 *)
Push ==
  /\ Needs({"push"})
  /\ IF vtSema
     THEN /\ pushed' = pushed \cup {building}
          /\ mem' = DecrefAll(Decref(Incref(mem, building), building), held)
          /\ dropped' = dropped
     ELSE /\ dropped' = dropped \cup {building}
          /\ mem' = DecrefAll(mem, held)
          /\ pushed' = pushed
  /\ todo' = <<>> /\ building' = NoBuffer /\ held' = <<>>
  /\ UNCHANGED <<image, tail, released, gc, vtSema>>

-----------------------------------------------------------------------------
(* The device has executed a command.                                      *)
Release(c) ==
  /\ c \in pushed
  /\ pushed' = pushed \ {c} /\ released' = released \cup {c}
  /\ UNCHANGED <<mem, image, buildvars, gc, vtSema, dropped>>

(* qxl_garbage_collect, at the beginning of an allocation and between      *)
(* commands: the fields a command of each kind lets go of.                 *)
Collects ==
  /\ gc = NoGc /\ ~Needs({"push"})
  /\ Needs({"surface"}) => image[Head(todo).s] = NoBuffer

References_Mutant(c) ==          \* the mask's transform is forgotten
  CASE mem[c].kind = "cursor"       -> <<"shape">>
    [] mem[c].kind = "copy_surface" -> <<"src">>
    [] mem[c].kind = "composite"    -> <<"src", "src_transform", "mask">>
    [] OTHER                        -> <<>>

References(c) ==
  CASE mem[c].kind = "cursor"       -> <<"shape">>
    [] mem[c].kind = "copy_surface" -> <<"src">>
    [] mem[c].kind = "composite"    ->
         <<"src", "src_transform", "mask_transform", "mask">>
    [] OTHER                        -> <<>>

CollectCommand(c) ==
  /\ Collects /\ c \in released
  /\ mem[c].kind # "copy"
  /\ LET pointers == [i \in DOMAIN References(c) |-> mem[c].at[References(c)[i]]]
     IN mem' = Decref(DecrefAll(mem, pointers), c)
  /\ released' = released \ {c}
  /\ UNCHANGED <<image, buildvars, pushed, gc, vtSema, dropped>>

CollectCopy(c) ==
  /\ Collects /\ c \in released
  /\ mem[c].kind = "copy"
  /\ LET img == mem[c].at.src
     IN gc' = [cmd |-> c, img |-> img, chunk |-> mem[img].at.data]
  /\ released' = released \ {c}
  /\ UNCHANGED <<mem, image, buildvars, pushed, vtSema, dropped>>

(* qxl_image_destroy: one round of its loop ...                            *)
DestroyChunk ==
  /\ gc.chunk # NoBuffer
  /\ gc' = [gc EXCEPT !.chunk = mem[gc.chunk].at.next]
  /\ LET prev == mem[gc.chunk].at.prev
         m == Decref(mem, gc.chunk)
     IN mem' = IF prev = NoBuffer THEN m ELSE Decref(m, prev)
  /\ UNCHANGED <<image, buildvars, pushed, released, vtSema, dropped>>

(* ... and what follows it, there and in qxl_garbage_collect_internal.     *)
DestroyImage ==
  /\ gc # NoGc /\ gc.chunk = NoBuffer
  /\ mem' = Decref(Decref(mem, gc.img), gc.cmd)
  /\ gc' = NoGc
  /\ UNCHANGED <<image, buildvars, pushed, released, vtSema, dropped>>

-----------------------------------------------------------------------------
(* qxl_leave_vt: the reset empties the rings.  qxl_enter_vt: another one,  *)
(* all memory is freed, and the surfaces' records are made anew (if there  *)
(* is one to replace; if not, no surface is ever handed out again).        *)
LeaveVtBuffers ==
  /\ NoCommand /\ vtSema
  /\ vtSema' = FALSE /\ pushed' = {} /\ released' = {}
  /\ UNCHANGED <<mem, image, buildvars, gc, dropped>>

EnterVtBuffers ==
  /\ NoCommand /\ ~vtSema
  /\ vtSema' = TRUE /\ dropped' = {}
  /\ mem' = Empty /\ image' = [s \in Imaged |-> NoBuffer]
  /\ UNCHANGED <<buildvars, pushed, released, gc>>

BuffersNext ==
  \/ \E command \in Commands : Begin(command)
  \/ AllocCommand \/ AllocChunk \/ AllocBitmap \/ AllocData \/ SurfaceImage
  \/ Push
  \/ \E c \in Buffers : Release(c) \/ CollectCommand(c) \/ CollectCopy(c)
  \/ DestroyChunk \/ DestroyImage
  \/ LeaveVtBuffers \/ EnterVtBuffers

BuffersSpec == BuffersInit /\ [][BuffersNext]_buffervars

-----------------------------------------------------------------------------
Used == Buffers \ FreeIn(mem)

Targets(b) == {mem[b].at[f] : f \in Fields} \ {NoBuffer}

PointersTo(b) == {p \in Used \X Fields : mem[p[1]].at[p[2]] = b}

(* The commands that nothing points to.                                    *)
Roots == (pushed \cup released \cup dropped \cup {building}) \ {NoBuffer}

(* While it frees an image X looks up by address only chunks that are      *)
(* there: the assertions in qxl_image_destroy.                             *)
WalkFindsChunks ==
  gc # NoGc =>
    /\ mem[gc.img].kind = "bitmap"
    /\ gc.chunk # NoBuffer =>
         /\ mem[gc.chunk].kind = "chunk"
         /\ mem[gc.chunk].at.prev # NoBuffer => mem[mem[gc.chunk].at.prev].kind = "chunk"

(* Every buffer's refcnt is the number of those who hold it: pointers in   *)
(* other buffers, X while it builds, the surface whose image it is, the    *)
(* rings.  Between two collections (a walk drops references from front to  *)
(* back), and while X has the VT: the reset on leaving forgets commands.   *)
CountsAreExact ==
  /\ vtSema /\ gc = NoGc =>
       \A b \in Buffers :
         mem[b].refcnt =
           Cardinality(PointersTo(b)) + Cardinality({i \in DOMAIN held : held[i] = b})
             + Cardinality({s \in Imaged : image[s] = b}) + IF b \in Roots THEN 1 ELSE 0
  /\ WalkFindsChunks

Reached(from) ==
  LET f[n \in 0 .. MaxChunks + 2] ==
        IF n = 0 THEN from ELSE f[n - 1] \cup UNION {Targets(b) : b \in f[n - 1]}
  IN f[MaxChunks + 2]

(* No buffer in use is out of everybody's reach.  Exact counts would not   *)
(* tell: neighbouring chunks point to each other.                          *)
NothingLeaks ==
  vtSema /\ gc = NoGc =>
    Used \subseteq Reached(Roots \cup Range(held)
                             \cup ({image[s] : s \in Imaged} \ {NoBuffer}))

(* As long as the device has a command, nothing it reaches from it is      *)
(* freed, reused or changed, whatever X builds and collects meanwhile.     *)
KeepsDeviceData ==
  \A c \in pushed \cap pushed' : \A b \in Reached({c}) :
    mem'[b].kind = mem[b].kind /\ mem'[b].at = mem[b].at /\ mem[b].kind # "none"

DeviceDataIsStable == [][KeepsDeviceData]_buffervars
=============================================================================
