------------------------------ MODULE MainLoop -----------------------------
(***************************************************************************)
(* spiceqxl_main_loop.c: the spice server's watches on the event loop of   *)
(* the X server.  With the video driver ABI before 23 watches are a ring   *)
(* and the X server's wakeup handler makes a select of its own; since then *)
(* the X server is told of each descriptor and calls back.                 *)
(*                                                                         *)
(* The spice server, and the driver's own audio, agent and card reader,    *)
(* add, change and remove watches inside callbacks and in timers, of any   *)
(* descriptor and whenever they like, and close descriptors, or keep them, *)
(* once the watch is removed.  Any memory that is free may be allocated    *)
(* next, and any number be given to what is opened.                        *)
(***************************************************************************)
EXTENDS Integers, Sequences, SequencesExt

CONSTANTS
  Fds, Watches, NoWatch,
  Masks             \* events that watches are asked for together

Events == {"READ", "WRITE"}
Closed == {"closed"}      \* in the place of what a descriptor is ready for

(* A watch that is allocated.                                              *)
Watching == [fd : Fds, mask : SUBSET Events, remove : BOOLEAN]

LoopAssumption ==
  /\ Masks \subseteq SUBSET Events
  /\ NoWatch \notin Watches /\ NoWatch \notin Watching

VARIABLES
  abi,            \* "select" or "notify"
  ready,          \* what each descriptor is ready for
  watch,          \* the watches that are allocated, by address
  watches,        \* the ring
  notify,         \* the X server's table of descriptors: a watch and a mask
  rfds, wfds,     \* the result of select
  link, nextLink, \* of RING_FOREACH_SAFE; link is also the watch notified
  xevents,
  at,             \* how far X is in its loop
  opened,         \* history: selected descriptors that are others by now,
  freed,          \*   has the watch that is notified been freed, and
  wanted          \*   was the callback that runs called for

loopvars == <<abi, ready, watch, watches, notify, rfds, wfds, link, nextLink, xevents, at,
          opened, freed, wanted>>
server == <<ready, watch, watches, notify>>
loop == <<rfds, wfds, link, nextLink, xevents>>
history == <<opened, freed, wanted>>

NoNotify == [watch |-> NoWatch, mask |-> {}]

LoopInit ==
  /\ abi \in {"select", "notify"}
  /\ ready = [fd \in Fds |-> Closed]
  /\ watch = [w \in Watches |-> NoWatch]
  /\ watches = <<>>
  /\ notify = [fd \in Fds |-> NoNotify]
  /\ rfds = {} /\ wfds = {} /\ xevents = {}
  /\ link = NoWatch /\ nextLink = NoWatch
  /\ at = "idle"
  /\ opened = {} /\ freed = FALSE /\ wanted = TRUE

Allocated(w) == w # NoWatch /\ watch[w] # NoWatch

Live(w) == Allocated(w) /\ ~watch[w].remove

-----------------------------------------------------------------------------
(* What happens to descriptors: by themselves, and in callbacks and timers *)
(* of X's own thread.                                                      *)
InCallback == at \in {"READ called", "WRITE called"}

Commanded == /\ InCallback \/ at = "idle"
             /\ UNCHANGED <<abi, loop, at, wanted>>

(* Data comes in, or there is room for more.  What comes while X goes      *)
(* through the watches might as well come after that: it looked before.    *)
Arrives ==
  /\ at = "idle"
  /\ \E fd \in Fds, e \in Events :
       /\ ready[fd] # Closed /\ e \notin ready[fd]
       /\ ready' = [ready EXCEPT ![fd] = @ \union {e}]
  /\ UNCHANGED <<abi, watch, watches, notify, loop, at, history>>

(* Whoever runs may read any of them: read_from_fifos reads all fifos.     *)
Drains ==
  /\ Commanded
  /\ \E fd \in Fds : ready[fd] # Closed /\ ready' = [ready EXCEPT ![fd] = @ \ {"READ"}]
  /\ UNCHANGED <<watch, watches, notify, opened, freed>>

Opens ==
  /\ Commanded
  /\ \E fd \in Fds :
       /\ ready[fd] = Closed
       /\ ready' = [ready EXCEPT ![fd] = {}]
       /\ opened' = opened \union ({fd} \intersect (rfds \union wfds))
  /\ UNCHANGED <<watch, watches, notify, freed>>

(* The watch is removed before its descriptor is closed.                   *)
Unwatched(fd) == \A w \in Watches : Live(w) => watch[w].fd # fd

Closes ==
  /\ Commanded
  /\ \E fd \in Fds :
       /\ ready[fd] # Closed /\ Unwatched(fd)
       /\ ready' = [ready EXCEPT ![fd] = Closed]
  /\ UNCHANGED <<watch, watches, notify, opened, freed>>

-----------------------------------------------------------------------------
(* The calls of the interface.                                             *)

(* watch_add and watch_update_mask_internal; without events the new ABI    *)
(* adds nothing.                                                           *)
Watched(w, fd, mask) == [fd |-> fd, mask |-> mask, remove |-> FALSE]

Registered(w, fd, mask) ==
  IF abi = "notify"
  THEN [notify EXCEPT ![fd] = IF mask = {} THEN NoNotify ELSE [watch |-> w, mask |-> mask]]
  ELSE notify

(* No descriptor has two watches.                                          *)
WatchAdd ==
  /\ Commanded
  /\ \E fd \in Fds, w \in Watches, mask \in Masks :
       /\ ready[fd] # Closed /\ Unwatched(fd) /\ ~Allocated(w)
       /\ abi = "notify" => mask # {}
       /\ watch' = [watch EXCEPT ![w] = Watched(w, fd, mask)]
       /\ watches' = IF abi = "select" THEN <<w>> \o watches ELSE watches
       /\ notify' = Registered(w, fd, mask)
  /\ UNCHANGED <<ready, opened, freed>>

WatchUpdateMask ==
  /\ Commanded
  /\ \E w \in Watches, mask \in Masks :
       /\ Live(w)
       /\ watch' = [watch EXCEPT ![w].mask = mask]
       /\ notify' = Registered(w, watch[w].fd, mask)
  /\ UNCHANGED <<ready, watches, opened, freed>>

PlaceIn(ring, w) == CHOOSE i \in DOMAIN ring : ring[i] = w

Place(w) == PlaceIn(watches, w)

(* ring_remove                                                             *)
Without(w) == RemoveAt(watches, Place(w))

WatchRemove_Mutant ==                           \* slip: frees it at once
  /\ Commanded
  /\ \E w \in Watches :
       /\ Live(w)
       /\ watch' = [watch EXCEPT ![w] = NoWatch]
       /\ watches' = IF abi = "select" THEN Without(w) ELSE watches
       /\ notify' = [notify EXCEPT ![watch[w].fd] = NoNotify]
       /\ freed' = (freed \/ (abi = "notify" /\ w = link))
  /\ UNCHANGED <<ready, opened>>

(* With select a watch stays in the ring, and its descriptor selected,     *)
(* until the loop comes past it; since then it is freed.                   *)
WatchRemove ==
  /\ Commanded
  /\ \E w \in Watches :
       /\ Live(w)
       /\ IF abi = "select"
          THEN /\ watch' = [watch EXCEPT ![w].remove = TRUE]
               /\ UNCHANGED <<notify, freed>>
          ELSE /\ watch' = [watch EXCEPT ![w] = NoWatch]
               /\ notify' = [notify EXCEPT ![watch[w].fd] = NoNotify]
               /\ freed' = (freed \/ w = link)
  /\ UNCHANGED <<ready, watches, opened>>

-----------------------------------------------------------------------------
(* The loop with select.                                                   *)

(* set_watch_fds                                                           *)
Selected(e) ==
  {watch[w].fd : w \in {v \in Range(watches) : e \in watch[v].mask}}

NoWriteWatches == \A w \in Range(watches) : Live(w) => "WRITE" \notin watch[w].mask

(* The block handler has X wait for both sets to become readable.  A       *)
(* descriptor that is closed makes either select fail, with EBADF.         *)
Fails == \E fd \in Selected("READ") \union Selected("WRITE") : ready[fd] = Closed

Readable ==
  \E fd \in Selected("READ") \union Selected("WRITE") : "READ" \in ready[fd]

(* xspice_wakeup_handler and select_and_check_watches up to its loop       *)
XspiceWakeup(nfds) ==
  /\ abi = "select" /\ at = "idle"
  /\ nfds # 0 \/ ~NoWriteWatches
  /\ ~Fails
  /\ rfds' = {fd \in Selected("READ") : "READ" \in ready[fd]}
  /\ wfds' = {fd \in Selected("WRITE") : "WRITE" \in ready[fd]}
  /\ rfds' \union wfds' # {}
  /\ link' = Head(watches)
  /\ nextLink' = IF Len(watches) > 1 THEN watches[2] ELSE NoWatch
  /\ at' = "READ"
  /\ UNCHANGED <<abi, server, xevents, history>>

XWakes == \E nfds \in IF Readable THEN {1} ELSE {0, 1} : XspiceWakeup(nfds)

Called(e) == IF e = "READ" THEN "READ called" ELSE "WRITE called"

Calls(w, e) ==
  /\ at' = Called(e)
  /\ wanted' = (Live(w) /\ e \in watch[w].mask /\ watch[w].fd \notin opened)

After(e) == IF e = "READ" THEN "WRITE" ELSE "done"

Asked_Mutant(w, e) == e \in watch[w].mask       \* slip: of removed watches too

Asked(w, e) == ~watch[w].remove /\ e \in watch[w].mask

(* One of the two tests of the loop's body.                                *)
Check(e) ==
  /\ abi = "select" /\ at = e
  /\ IF Asked(link, e) /\ watch[link].fd \in (IF e = "READ" THEN rfds ELSE wfds)
     THEN Calls(link, e)
     ELSE at' = After(e) /\ UNCHANGED wanted
  /\ UNCHANGED <<abi, server, loop, opened, freed>>

(* The end of the body, and on to the next.                                *)
CheckNext_Mutant ==                             \* slip: a removal ends the loop
  /\ abi = "select" /\ at = "done"
  /\ IF watch[link].remove
     THEN /\ watch' = [watch EXCEPT ![link] = NoWatch]
          /\ watches' = Without(link)
     ELSE UNCHANGED <<watch, watches>>
  /\ IF nextLink = NoWatch \/ watch[link].remove
     THEN /\ link' = NoWatch /\ nextLink' = NoWatch
          /\ rfds' = {} /\ wfds' = {} /\ opened' = {} /\ at' = "idle"
     ELSE /\ link' = nextLink
          /\ nextLink' = IF Place(nextLink) < Len(watches) THEN watches[Place(nextLink) + 1] ELSE NoWatch
          /\ at' = "READ"
          /\ UNCHANGED <<rfds, wfds, opened>>
  /\ UNCHANGED <<abi, ready, notify, xevents, freed, wanted>>

CheckNext ==
  /\ abi = "select" /\ at = "done"
  /\ IF watch[link].remove
     THEN /\ watch' = [watch EXCEPT ![link] = NoWatch]
          /\ watches' = Without(link)
     ELSE UNCHANGED <<watch, watches>>
  /\ link' = nextLink
  /\ IF nextLink = NoWatch
     THEN nextLink' = NoWatch /\ rfds' = {} /\ wfds' = {} /\ opened' = {} /\ at' = "idle"
     ELSE /\ nextLink' = IF Place(nextLink) < Len(watches) THEN watches[Place(nextLink) + 1] ELSE NoWatch
          /\ at' = "READ"
          /\ UNCHANGED <<rfds, wfds, opened>>
  /\ UNCHANGED <<abi, ready, notify, xevents, freed, wanted>>

-----------------------------------------------------------------------------
(* With notify: the X server calls watch_fd_notified.                      *)
Notify(fd) ==
  /\ abi = "notify" /\ at = "idle"
  /\ notify[fd] # NoNotify /\ notify[fd].mask \intersect ready[fd] # {}
  /\ link' = notify[fd].watch
  /\ xevents' = notify[fd].mask \intersect ready[fd]
  /\ at' = "READ"
  /\ UNCHANGED <<abi, server, rfds, wfds, nextLink, history>>

(* What it finds in a watch that has been freed can be anything.           *)
WatchFdNotified(e) ==
  /\ abi = "notify" /\ at = e
  /\ \E mask \in IF Allocated(link) THEN {watch[link].mask} ELSE SUBSET Events :
       IF e \in mask \intersect xevents THEN Calls(link, e)
       ELSE at' = After(e) /\ UNCHANGED wanted
  /\ UNCHANGED <<abi, server, loop, opened, freed>>

NotifiedAll ==
  /\ abi = "notify" /\ at = "done"
  /\ at' = "idle" /\ link' = NoWatch /\ xevents' = {}
  /\ opened' = {} /\ freed' = FALSE
  /\ UNCHANGED <<abi, server, rfds, wfds, nextLink, wanted>>

-----------------------------------------------------------------------------
(* A callback has dealt with what its watch was ready for, and returns.    *)
Returns(e) ==
  /\ at = Called(e)
  /\ at' = After(e)
  /\ IF Live(link) THEN ready' = [ready EXCEPT ![watch[link].fd] = @ \ {e}]
     ELSE UNCHANGED ready
  /\ wanted' = TRUE
  /\ UNCHANGED <<abi, watch, watches, notify, loop, opened, freed>>

Body(e) == Check(e) \/ WatchFdNotified(e) \/ Returns(e)

Work == (\E e \in Events : Body(e)) \/ CheckNext \/ NotifiedAll

ServerCalls == Drains \/ Opens \/ Closes \/ WatchAdd \/ WatchUpdateMask \/ WatchRemove

LoopNext == Arrives \/ ServerCalls \/ XWakes \/ (\E fd \in Fds : Notify(fd)) \/ Work

(* X goes round its loop; it wakes up when something can be read, and each *)
(* time tells of every descriptor that has something.  Callbacks return.   *)
LoopFairness ==
  /\ WF_loopvars(Work)
  /\ WF_loopvars(Readable /\ XWakes)
  /\ \A fd \in Fds : SF_loopvars(Notify(fd))

LoopSpec == LoopInit /\ [][LoopNext]_loopvars /\ LoopFairness

-----------------------------------------------------------------------------
(* Properties.                                                             *)

(* A callback is called for a watch that is there and has not been         *)
(* removed, for an event that it asks for and its own descriptor was found *)
(* ready for: also when callbacks before it removed watches, closed        *)
(* descriptors and opened others with the same number.  The one exception  *)
(* is a watch that its own callback has removed, notified of more.         *)
CallsAreWanted == wanted \/ (abi = "notify" /\ freed)

(* What README.xspice says of a client that disconnects, which removes its *)
(* watches in their callbacks: nobody else comes to harm.                  *)
CallsAreAlwaysWanted == wanted

(* RING_FOREACH_SAFE is safe: the watches it goes on with are in the ring  *)
(* whatever callbacks added and removed.                                   *)
LoopIsSafe ==
  abi = "select" /\ at # "idle" =>
    /\ link \in Range(watches) /\ Allocated(link)
    /\ nextLink # NoWatch =>
         nextLink \in Range(watches) /\ Place(nextLink) = Place(link) + 1 /\ Allocated(nextLink)

(* What can be read is read, as long as somebody watches for it and select *)
(* does not fail.                                                          *)
Unread(w) == Live(w) /\ "READ" \in watch[w].mask /\ "READ" \in ready[watch[w].fd]

Served == \A w \in Watches : Unread(w) ~> ~Unread(w) \/ (abi = "select" /\ Fails)

(* What README.xspice says of the loop: it serves the clients' sockets,    *)
(* whichever of them were closed before.                                   *)
AlwaysServed == \A w \in Watches : Unread(w) ~> ~Unread(w)
=============================================================================
