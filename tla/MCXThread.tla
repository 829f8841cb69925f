------------------------------ MODULE MCXThread -----------------------------
(***************************************************************************)
(* What X's thread does of its own: it draws (UxaDrawing), allocates       *)
(* commands from what a worker that answers within X's sleep gives back    *)
(* (ReleaseRing) and plays audio (Audio).  A behaviour is one of the three *)
(* modules and leaves the variables of the others alone.  Their values are *)
(* those they start with, or Nil.                                          *)
(***************************************************************************)
EXTENDS MCUxaDrawing, ReleaseRing, Audio

VARIABLE part     \* the module that is running

ASSUME XThreadAssumption == ReleaseAssumption /\ AudioAssumption

threadvars == <<part, vars, releasevars, audiovars>>

NoDrawing ==
  /\ offscreen = {} /\ vtSema = TRUE /\ disableFbCount = 0 /\ device = Nil /\ host = Nil
  /\ access_region = [p \in Pixmaps |-> {}] /\ access_type = Nil /\ mapped = {}
  /\ copy_src = Nil /\ pixel = Nil /\ todo = <<>> /\ capable = FALSE
  /\ serving = FALSE /\ wanted = Nil /\ evacuated = Nil

NoRelease ==
  /\ prod = Nil /\ cons = Nil /\ slots = Nil /\ next = Nil /\ size = Nil /\ owner = Nil
  /\ avail = Nil /\ last = Nil /\ numFree = Nil /\ wpc = Nil /\ wflush = Nil
  /\ oom = Nil /\ xpc = "idle" /\ xback = Nil /\ xid = Nil /\ xcount = Nil
  /\ xneed = 0 /\ attempts = 0

ThreadInit ==
  /\ AudioInit
  /\ \/ part = "drawing" /\ Init /\ NoRelease
     \/ part = "release" /\ ReleaseInit /\ NoDrawing
     \/ part = "audio" /\ NoDrawing /\ NoRelease

(* The applications that play something may all be gone for good.          *)
ThreadNext ==
  \/ part = "drawing" /\ Next /\ UNCHANGED <<part, releasevars, audiovars>>
  \/ part = "release" /\ ReleaseNext /\ UNCHANGED <<part, vars, audiovars>>
  \/ part = "audio" /\ AudioNext /\ UNCHANGED <<part, vars, releasevars>>
  \/ part = "audio" /\ UNCHANGED threadvars

(* Each module's own fairness.  As a behaviour stays with its module, what *)
(* is fair to one of two actions, one of each module, is fair to both.     *)
Either(release, audio) ==
  \/ part = "release" /\ release /\ UNCHANGED <<part, vars, audiovars>>
  \/ part = "audio" /\ audio /\ UNCHANGED <<part, vars, releasevars>>

ThreadFairness ==
  /\ WF_threadvars(Either(Collect, Plays))
  /\ WF_threadvars(Either(Allocate, Goes \/ (at = "reading" /\ PlaybackDirChanged)))
  /\ WF_threadvars(Either(PushTest \/ PushProd \/ PushClear, FALSE))
  /\ SF_threadvars(Either(ServeOom, FifoWatch))
  /\ SF_threadvars(Either(FALSE, WallTicker))

ThreadSpec == ThreadInit /\ [][ThreadNext]_threadvars /\ ThreadFairness

-----------------------------------------------------------------------------
(* The properties are the modules' own: Delivered, Mapped and DeviceWaits; *)
(* FruitlessRounds and AllocReturns; CountsAgree, PlaysInOrder,            *)
(* NoneForgotten and Heard.                                                *)
=============================================================================
