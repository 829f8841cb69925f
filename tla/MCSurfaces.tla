----------------------------- MODULE MCSurfaces -----------------------------
(***************************************************************************)
(* What the driver keeps about surfaces and buffers, three modules side by *)
(* side: a behaviour is one of SurfaceLifecycle, SurfaceAccess or          *)
(* CommandBuffers, and leaves the variables of the others alone.  Their    *)
(* values are None, or, where a property reads them, those of a driver     *)
(* that has no VT and of a pixmap nobody has access to.                    *)
(***************************************************************************)
EXTENDS SurfaceLifecycle, SurfaceAccess, CommandBuffers

CONSTANT None

VARIABLE part     \* the module that is running

ASSUME SurfacesAssumption ==
  CacheArrayAssumption /\ LifecycleAssumption /\ AccessAssumption /\ BuffersAssumption

surfacesvars == <<part, vars, accessvars, buffervars>>

NoLife ==
  /\ refs = Zero /\ bo = Zero /\ large = {} /\ avail = 0
  /\ free = <<>> /\ live = {} /\ cached = NoneCached
  /\ copies = Zero /\ destroys = Zero /\ device = Zero
  /\ vt = "away" /\ stack = <<>>

NoAccess ==
  LET Blank == [p \in Pixels |-> None] IN
  /\ surface = Blank /\ dev_image = Blank /\ host_image = Blank /\ want = Blank
  /\ access_region = {} /\ access_type = "RO"
  /\ prepared = 0 /\ writable = {} /\ phase = "prepare"

NoBuffers ==
  /\ mem = None /\ image = None /\ todo = None /\ building = None /\ held = None
  /\ tail = None /\ released = None /\ dropped = None
  /\ pushed = {} /\ gc = NoGc /\ vtSema = FALSE

SurfacesInit ==
  \/ part = "life" /\ Init /\ NoAccess /\ NoBuffers
  \/ part = "access" /\ AccessInit /\ NoLife /\ NoBuffers
  \/ part = "buffers" /\ BuffersInit /\ NoLife /\ NoAccess

SurfacesNext ==
  \/ part = "life" /\ Next /\ UNCHANGED <<part, accessvars, buffervars>>
  \/ part = "access" /\ AccessNext /\ UNCHANGED <<part, vars, buffervars>>
  \/ part = "buffers" /\ BuffersNext /\ UNCHANGED <<part, vars, accessvars>>

SurfacesSpec == SurfacesInit /\ [][SurfacesNext]_surfacesvars
=============================================================================
