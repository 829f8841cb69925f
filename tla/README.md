# A TLA+ model of the QXL video driver

`xf86-video-qxl` is the X video driver of a QXL device, in a virtual machine or,
as Xspice, with the device emulated inside the X server by the spice library.
This directory models the parts of it in which order and sharing matter: the rings
between X and the device, the return of memory, the buffers of commands, the life of
surfaces, the primary surface, the switch of virtual terminals, the drawing of the UXA
layer with CPU and device, its glyph cache, deferred frames, and in Xspice the main loop and
audio. Each model is checked by TLC on small instances. The safety of the rings, the return of
memory, the surfaces with their cache, CPU access, the switch of terminals, the screen, the glyph
cache, the main loop and audio is also proved, with TLAPS, for every size.

Paths below are relative to the repository, which lies under `src/` in `PROJECT.json`.

## 1. The system

Two threads of control matter. **X** runs the driver: UXA calls into `qxl_uxa.c`, which
draws on surfaces (`qxl_surface.c`), which pushes commands on rings (`qxl_ring.c`) and
allocates them from device memory (`qxl_mem.c`). The **device** takes commands off the
rings, executes them and hands their memory back. In a virtual machine the device is
QEMU; in Xspice it is the spice worker thread, which calls the `QXLInterface` callbacks
in `spiceqxl_display.c`, so both ends of every ring are in this repository.

### Inventory

| Component | State | Operations | Talks to |
|---|---|---|---|
| Command and cursor rings: `qxl_ring.c`, `spiceqxl_display.c` | free-running `prod`, `cons`, `notify_on_prod`, the slots | push with its busy wait; get command; request notification | X -> worker: slots and `NOTIFY_CMD`; worker -> X: `cons` |
| Release ring and allocation: `spiceqxl_display.c`, `qxl_mem.c`, `spiceqxl_io_port.c` | chains of released commands, `last_release`, `num_free_res`; two heaps; `refcnt` of buffers | release, flush, push a chain; collect; allocate, wait for memory, give up | worker -> X: chains; X -> worker: `NOTIFY_OOM` |
| Surface cache: `qxl_surface_ums.c` | `cached_surfaces[64]` with gaps | search, add with eviction, evacuate | surface life cycle |
| Surface life cycle: `qxl_surface_ums.c` | `ref_count`, `bo`, `free_surfaces`, `live_surfaces` | create, copy, kill, unref, destroy, recycle | rings; re-entered from collection |
| VT switch: `qxl_driver.c`, `qxl_surface_ums.c`, `qxl_uxa.c` | list of records `vt_surfaces`, pixmap <-> surface | leave, enter, create and destroy pixmaps | device reset |
| CPU access: `qxl_surface.c` | `host_image`, `dev_image`, `access_region`, `access_type` | prepare, finish, upload, download | `UPDATE_AREA`, rings |
| UXA requests: `uxa/` | what is prepared and mapped; `swappedOut` | core and RENDER requests, accelerated or by fb | driver hooks in `qxl_uxa.c` |
| Glyph cache: `uxa/uxa-glyphs.c` | an atlas per format: table of cells, position for eviction, privates | cache, draw on destination or mask, unrealize | driver hooks |
| Buffers of commands and images: `qxl_mem.c`, `qxl_image.c`, `qxl_surface.c`, `qxl_cursor.c` | `refcnt` of each buffer, pointers between them, `image_bo` of each surface | build, push, collect commands; image create, destroy | rings; VT switch |
| Modes and primary surface: `qxl_driver.c`, `qxl_ums_mode.c`, `qxl_io.c` | virtual size, primary, heads | resize, create, destroy | RandR, VT switch |
| Deferred frames: `dfps.c` | updated region, ticker | draw, tick | primary surface |
| Main loop: `spiceqxl_main_loop.c` | watches, timers | add, update, remove, dispatch | spice server, X's select loop |
| Audio: `spiceqxl_audio.c` | fifos with ring buffers, watches, wall timer | open, read, mix, feed, close | main loop, inotify |
| Smartcard reader: `spiceccid/` | two readers, queue of answers under a mutex | open, close, power, transmit; a thread per reader | pcscd, spice socket |
| Agent, smartcard, inputs, uinput | one client socket, a little parser state each | accept, read, write | main loop |
| KMS mode, options, launcher | ‑ | straight-line code, ioctls | ‑ |

### What is hard

* *Interleaving.* Header fields of the rings are shared without locks; sleeping and
  waking is a handshake over `notify_on_prod`. A chain is published in several stores.
* *Re-entrancy.* Every allocation collects garbage; collecting a copy may drop the last
  reference to a surface; destroying it allocates. A surface can be destroyed and another
  recycled in the middle of creating a third.
* *Limits.* Full rings, an empty free list, no memory, a full cache, the wrap of counters.
* *Lateness.* Device memory lags behind commands; memory comes back when the device likes,
  in bunches; X counts fruitless rounds and exits.
* *Loss.* Leaving the VT resets the device: all its surfaces are gone, and so is all that
  was on the rings.

* *Two painters.* CPU and device draw on the same pixmaps through copies of the pixels, in
  coordinates of windows, drawables and pixmaps, by dozens of requests with fallbacks.
* *Callbacks.* Callbacks of the main loop add and remove watches, theirs among them, while
  the loop walks them; fifos close, fill up and come back in the middle of playback.

`PROJECT.json` lists 40 such hazards at the line where each bites, with the properties that
cover it or the reason none does yet.

### What makes each component correct

* Rings: a bounded FIFO; no lost wakeup; every push returns, every command is consumed.
* Release ring: every command is freed once, after its release; with a prompt worker X's
  fruitless rounds are bounded by what it needs.
* Cache: ordered by age; nothing twice, nothing lost.
* Surfaces: `ref_count` is the number of holders; the device is never asked to create what it
  has or destroy what it has not; ids and memory come back once, after the device is done.
* Buffers: `refcnt` is the number of holders; all come back; what the device may read stays.
* VT switch: pixmaps keep their surface and their pixels; nothing that was destroyed returns.
* CPU access and UXA: what a client drew is what it sees, whoever drew it.
* Glyph cache: no two glyphs on the same cells; each glyph is drawn from its own pixels.
* Primary surface: driver, X, root pixmap and device agree whenever X draws; what the device
  does not show yet is in the region the ticker will send.
* Main loop: callbacks are those of a watch that is there, for what it asks; what can be read is read.
* Audio: counts match slots; samples are played in order; what is written is read.

## 2. Modules

`A <- B` is `A EXTENDS B`, `=>` a refinement.

    MCWakeups  <- QxlRing (=> BoundedChannel), MainLoop;  an instance of QxlRing
    MCSurfaces <- SurfaceLifecycle <- CacheArray
    MCSurfaces <- SurfaceAccess, CommandBuffers
    MCMemory   <- VtSwitch, Screen, ReleaseRing, GlyphCache, SurfaceCache <- CacheArray
                  SurfaceCache => RecentlyUsed
    MCXThread  <- MCUxaDrawing, ReleaseRing, Audio
    MCUxaDrawing <- UxaDrawing <- UxaRender <- UxaCore <- UxaHooks

    QxlRingProofs  <- QxlRing            ReleaseRingProofs    <- ReleaseRing
    TerminalProofs <- Screen, VtSwitch   CommandBuffersProofs <- CommandBuffers
    AudioProofs    <- Audio              GlyphCacheProofs     <- GlyphCache
    MainLoopProofs <- MainLoop           SurfaceProofs <- SurfaceLifecycle, SurfaceCache, SurfaceAccess

Each specification takes its bounds as constants. `MCUxaDrawing` gives those that a `.cfg`
cannot write. `MCWakeups`, `MCSurfaces`, `MCMemory` and `MCXThread` run several specifications
side by side, which stands for nothing but economy: a behaviour picks one (`part`) and leaves
the variables of the others alone. The modules are extended, so that run and theorem speak of
the same definition, and the variables of one that does not run have values of which its
properties hold (no pixmaps, an empty cache, a screen that is down). The one instance is in
`MCWakeups`: `QxlRing` once more, with two rings. The fairness of two modules run side by side is
stated for pairs of actions (`Either`), one of each: as a behaviour never leaves its module, to be
fair to the pair is to be fair to the action of the module that runs.

Operators named `..._Mutant` are slips of the kind
one could make in the definition after them; replacing the one by the other must break the
property that `PROJECT.json` names. They are no part of any specification.

### QxlRing

State: per ring `prod`, `cons`, `notifyOnProd`, `slots`; where X stands in
`qxl_ring_push` (`xpc`: waits for room, has copied, has published); where the worker
stands in a callback (`wpc`); the rings the worker was told to wait for (`waiting`) and the
pending `spice_qxl_wakeup`.

| Action | Code |
|---|---|
| `PushCall`, `PushCopy`, `PushProd`, `PushNotify` | `qxl_ring_push`: busy wait as guard and `memcpy`; `prod++`; doorbell |
| `GetItem`, `GetPop`, `GetNothing` | `interface_get_command`, `interface_get_cursor_command` |
| `ReqTest`, `ReqReadProd`, `ReqArm`, `ReqRecheck` | `SPICE_RING_CONS_WAIT` in `interface_req_cmd_notification`, `interface_req_cursor_notification` |
| `Wakeup` | the spice worker's loop (external) |

Memory is sequentially consistent: the code puts barriers where a thread's stores must not
pass its loads. `worker_running` is left out: while it is unset the rings are not in use.
`delivered` records what was handed over; only the refinement reads it.

`BoundedChannel` is what a client of the rings may rely on: per channel a bounded queue,
`Send`, `Receive`, and fairness of receiving. The mapping reads the queue out of the slots
from `cons` to `prod`; `PushProd` is the send, `GetPop` the receive, all else stutters.

### ReleaseRing

State: the ring; `next` of each command's `release_info`; `owner` (nobody, the device, a
chain); free units; the worker's `last`, `numFree` and place in `qxl_push_free_res`; where
an OOM request stands; X's place in `qxl_allocnf`, `qxl_handle_oom` and
`qxl_garbage_collect` (`xpc`, with `xback` for the caller of the collection).

`owner` is the view of the device and, once released, of the chain; no guard of X's reads
it but `Alloc`'s, for a name that is free. `oom` follows the worker: asked; it flushes and, if it had
nothing to flush, releases some command and flushes again (`starved`, `freed`,
`flushing`). This is what the spice server does on `spice_qxl_oom`, here modelled from the
promises `interface_flush_resources` is written against.

### CacheArray, SurfaceCache, RecentlyUsed

`CacheArray` has the two loops of `surface_add_to_cache` and the search of
`surface_get_from_cache` as functions of the array; `Compact` is the second loop, with the
index and `delta` the code has. Which cached surfaces suit a request (size and depth) is an
arbitrary set. `SurfaceCache` runs them under every sequence of calls; `RecentlyUsed`
is the list of at most `Capacity` entries, youngest first, that they are meant to be. `ListOf`
reads it out of the array: the entries by the number of entries up to theirs, gaps left out.

### SurfaceLifecycle

State: per surface `refs` (`ref_count`), `bo` (`refcnt` of its buffer), whether it is
`large` enough to be cached; the lists; what the device still has to finish (`copies`,
`destroys`) and has been told (`device`); and `stack`, the calls X is in.

A call that allocates pushes a `gc` frame. In it, any outstanding copy or DESTROY may be
found finished, in any order, or other commands; an unref that reaches 0 pushes
`gc` and `destroy` frames on top. So garbage is collected, to any depth, in the middle of
`surface_send_create` at each of its allocations, of an eviction, a kill or a copy. A
frame holds what the C frame holds across the call: the surface, the size asked for, the
last result. `CreateOom` and `CreateListOom` are the labels `retry2` and `retry`.

Memory is a number of units, two for a large surface; there is no fragmentation. All
collections of one `qxl_allocnf` are one. `n_live` is a statistic and left out.

### CommandBuffers

State: `mem` (per buffer its `refcnt`, kind and pointers), `image` (`image_bo` per surface), the
command under construction (`building`, `held`, `tail`, and `todo`, the steps that are left),
the commands the device has and those it released, and the image being freed (`gc`).

| Action | Code |
|---|---|
| `Begin` | the drawing functions of `qxl_surface.c` and `qxl_cursor.c`, each as the sequence of buffers it needs (`Upload`, `CopyFrom`, `Composite`, `SetCursor`, `Plain`) |
| `AllocCommand`, `AllocChunk`, `AllocBitmap`, `AllocData`, `SurfaceImage` | one allocation each, with the relocations and decrefs up to the next |
| `Push` | `qxl_bo_write_command` and the decrefs after it |
| `Release` | the device is done with a command |
| `CollectCommand`, `CollectCopy`, `DestroyChunk`, `DestroyImage` | `qxl_garbage_collect_internal`, `qxl_image_destroy` chunk by chunk |
| `LeaveVtBuffers`, `EnterVtBuffers` | resets and `qxl_mem_free_all` in `qxl_leave_vt`, `qxl_enter_vt` |

Collection happens where the code collects: before an allocation, or between commands. An
allocation waits until a buffer is free; `NBuffers` is at least what the surfaces' images and
the largest command need together, so waiting for ever would mean a leak, and TLC would
report the deadlock. The buffer taken is the lowest free one: free buffers have no state, so any other choice
gives the same behaviour under other names, and this one reuses memory at once.
While X has no VT only the upload of deferred frames draws, into a dropped command.

### VtSwitch

State: `terminal` (whether X has it); `surface` (`get_surface (pixmap)`) and `pixmap` (`surface->pixmap`), the
contents of surfaces and what clients drew (`want`), the lists, the records with their
links, and `head` (`vt_surfaces`). A record is named by the surface it was made from.
`Walk` is what `qxl_surface_cache_replace_all` comes upon, up to the first thing that is
no record: if that is not the end of the list, behaviour is undefined and the run ends.

| Action | Code |
|---|---|
| `CreatePixmap`, `Draw` | `qxl_create_pixmap`, with a surface if X has the terminal and one is free; drawing on the device |
| `DestroyPlain`, `DestroyLive`, `DestroyEvacuated` | `qxl_destroy_pixmap` of a pixmap without a surface, with one, and with a record, which `qxl_surface_kill` takes off the list |
| `Recycle` | a killed surface returns to the free list |
| `EvacuateAll` | `qxl_surface_cache_evacuate_all` in `qxl_leave_vt` |
| `ReplaceEvacuated`, `ReplaceFreed`, `ReplaceNone` | `qxl_surface_cache_replace_all` in `qxl_enter_vt`: all records made surfaces again; the walk comes upon freed memory; there was no record |

### SurfaceAccess

State: what the surface is once every pushed command is executed (`surface`), the memory
behind `dev_image`, `host_image`, the accessed region and its type, and how far the
caller is: it prepares once, or twice as a copy within one pixmap does, draws where it may
write, and finishes as often as it prepared.

Pixels lie in a row, so a box is a run of pixels; 25 boxes become `ManyBoxes`, 512
pixels `Tile`. `Together` bounds the boxes two prepares reach together: with
`Together < ManyBoxes` the second prepare never brings the region to the shortcut.

### UxaHooks, UxaCore, UxaRender, UxaDrawing

A function of UXA is the sequence of hooks it calls and of the drawing between them
(`todo`); a hook may refuse, and then its body is skipped as the code skips it. `UxaHooks` has the steps: `PrepareAccess`,
`FinishAccess`, `CpuDraw`, `PrepareCopy`, `DeviceDraw`, `ReadFirstPixel`. `UxaCore` gives
the sequences for the core requests (`uxa-accel.c`, `uxa-unaccel.c`), `UxaRender` for
composite, solid rectangles and trapezoids (`uxa-render.c`). `UxaDrawing` serves requests one after
the other, knows from the protocol what each should show, and takes the screen away and
brings it back in between.

Pixels lie in a row; windows begin anywhere on their pixmap. What a pixel shows is a term
(old contents of some pixel, ink, a mixture, or `Bad`), so that a pixel fetched from the
wrong place, drawn twice or lost is seen whatever its colour. `host_image` is `Bad` where
it was not downloaded. A damage region is the pixels that are drawn.

### GlyphCache

State: per format `count`, `evict`, the table `slots` and the glyphs' privates (`priv`), whose cells hold their own pixels
(`stored`) and which there was no GC to upload (`unloaded`), and the request being drawn, a glyph a step, with the local
variable `glyph_atlas` and what the driver is prepared for (`source`). Cells are
numbered in Morton order as in the code; `rand()` gives any position of a set.

### Screen

State: `virtual_x`, X's own size, the record of the primary, what the device has, the root
pixmap with the records its bits and its surface are of, the crtcs and the heads the device
was told; with deferred frames the colours of the columns on either side and `updated`.

| Action | Code |
|---|---|
| `ScreenInit`, `CreateScreenResources`, `CloseScreen` | a generation of the server |
| `Resize` | `qxl_xf86crtc_resize`, `qxl_resize_primary` with both refusals |
| `SetModeMajor`, `TurnOff` | crtcs, one at a time |
| `LeaveVt`, `EnterVt` | `qxl_leave_vt`, `qxl_enter_vt` |
| `DfpsSolid`, `DfpsCopy`, `DfpsAccess`, `DfpsTicker` | `dfps.c` |

### MainLoop

Both ABIs: `abi = "select"` with the ring of watches (`watches`), its walk (`link`, `nextLink`) and
the removal it postpones; `abi = "notify"`, where the X server calls `watch_fd_notified`.

| Action | Code |
|---|---|
| `WatchAdd`, `WatchUpdateMask`, `WatchRemove` | the interface, called in a callback or a timer |
| `Opens`, `Closes`, `Drains`, `Arrives` | what the spice server and the audio driver do with descriptors, and what comes in (external) |
| `XspiceWakeup`, `Check`, `CheckNext` | the wakeup handler and `select_and_check_watches`: the select, the tests for reading and writing, the step to the next watch |
| `Notify`, `WatchFdNotified`, `NotifiedAll` | `watch_fd_notified` |
| `Returns` | a callback returns |

Any watch may be added, changed and removed in any callback or timer, wherever in the ring it is. A
descriptor may be closed once its watch is removed, or be kept. A freed watch and a closed
descriptor may be the next to be allocated or opened. What `watch_fd_notified` reads in a watch that was
freed is anything. `opened`, `freed` and `wanted` are history: which selected numbers are other
descriptors by now, whether the watch notified was freed, whether the callback that runs was called for.

### Audio

State: what the applications do with each pipe; the events of inotify and the driver's
buffer of them; the slots with their ring buffers and watches; `closed_fifos`; the buffer
borrowed from the spice server; the wall timer and its type; how far playback is ahead. Each helper of
`spiceqxl_audio.c` is an action or an operator of its name.

## 3. What is checked

| Run | Instance | States | Properties |
|---|---|---|---|
| `Wakeups` | 1 ring, 2 slots, counters wrap at 4, 2 commands; 2 rings of 1 slot, counters wrap at 2; 2 watches, 2 descriptors, 2 ABIs | 169 780 | `TypeOK` `NeverLapped` `ItemIsStable` `NoLostWakeup` `RingsAreChannels` `BothDeliver` `PushesReturn`; `CallsAreWanted` `LoopIsSafe` `Served` |
| `Surfaces` | 3 surfaces, a cache of 2, 6 units, 2 copies each; 4 pixels, 2 colours, shortcut at 2 boxes, tiles of 2; 7 buffers, 3 chunks, 2 commands pending | 732 721 | `RefCountExact` `DeviceProtocol` `MemoryExact` `FollowsLifeCycle`; `UploadIsHarmless` `ShowsWhatWasDrawn`; `CountsAreExact` `NothingLeaks` `DeviceDataIsStable` |
| `Memory` | 3 pixmaps, 3 surfaces, 2 contents; 5 surfaces in a cache of 4; 6 glyphs on 64 cells, 5 requests; screens of 1 to 4 columns of which 3 fit, 3 heads; 3 commands, ring of 2, bunches of 2, 3 units | 574 275 | `BindingExact` `PixelsKept`; `AssertionsHold` `KeepsAgeOrder`; `TablesAgree` `DrawnRight` `OwnMaskIsSafe`; `ScreenAgrees` `MonitorsKnown` `FramesTracked`; `ReleasedOnce` `BuildingIntact` |
| `XThread` | 11 pixmaps, 5 drawables, 6 GCs, 9 pictures, 3 areas; 2 commands of 1 or 2 units, 5 attempts, prompt worker; 2 pipes of 1 period, 2 slots with rings of 2 | 297 070 | `Delivered` `Mapped` `DeviceWaits`; `FruitlessRounds` `AllocReturns`; `CountsAgree` `PlaysInOrder` `NoneForgotten` `Heard` |
| `VtDangling` | as in `Memory` | | `NotRecreated` is violated |
| `VtNoneFree` | as in `Memory` | | `FreeListed` is violated |
| `AccessTwice` | as in `Surfaces`, `Together` = 2 | | `UploadIsHarmless` is violated |
| `DrawingNoRegion` | as in `XThread`, requests without a region anywhere | | `Delivered` is violated |
| `AudioEvents` | as in `XThread`, with room for several events | | `EveryFifoIsOpened` is violated |
| `GlyphOverlap` | as in `Memory`, evictions also in the last tile | | `GlyphsAreStored` is violated |
| `SelectFails` | as in `Wakeups` | | `AlwaysServed` is violated |
| `FreedWatch` | as in `Wakeups` | | `CallsAreAlwaysWanted` is violated |

**Why the bounds are enough.** A ring misbehaves when it is full, empty or wraps; two slots
with counters modulo 4 pass through all of these in every phase, and two distinct commands
show a swap or a stale slot. Two rings are what one doorbell serves. Three commands make
a chain being built, one published and one walked at the same time; bunches of two make a
partial chain. A cache of four has every pattern of gaps on either side of an entry. Three
surfaces give one being created, one evicted and one collected; a cache of two fills and
evicts; six units run out with a third large surface cached or dead. Three records have a first, a middle
and a last. Three chunks have a first, a
middle and a last; a composite may use the one surface as source and as mask, which holds its image
twice; two pending commands and one being built share it three ways. Four pixels hold two boxes with a gap between, and a tile that is cut.
An atlas of four tiles of sixteen cells has three classes of glyphs, one just below the end of
what is given out and one that evicts across classes (positions 6 and 47); requests of three glyphs meet
one that evicts what comes next. Four columns are a screen that fits, one
that does not and boxes with a gap; three heads leave a hole when the middle one goes. A window at
column 1 and one with a pixmap of its own tell the three kinds of coordinates apart; pixmaps of widths
1 to 6 with tiles of 1 and 2 tell where patterns begin. Two watches are one that is called and one
that is removed, in either order. Two slots are one that closes and one that takes its place; a
ring of two periods is empty, half full, full and wraps.

**Deadlock** is checked, but for `Memory`, where X may exit and a run of `VtSwitch`
ends in undefined behaviour. In `XThread` the audio part may stop: the applications may all be gone.

**Fairness.** `QxlRing`: X finishes a push (`WF` of its steps) and the worker a callback;
between callbacks the worker polls each ring it does not wait for and looks at its wakeup,
each again and again (`SF`, since attending to one disables the others for a while). X is
not obliged to push. `ReleaseRing` (in `XThread`): X finishes an allocation and the worker a push it began;
the worker serves an OOM request (`SF`, as other releases come between), but releases
nothing of its own accord. `Prompt` says that it has served the request when X's sleep of
10 ms ends. That is an assumption on speed, which the code makes too: without it X may
count 1000 fruitless rounds and exit, and `Memory`, which does not assume it, allows
that. `MainLoop`: X goes through what it has begun, callbacks return, select wakes when
something can be read (`WF`), and each descriptor is told of again and again (`SF`, as others
come between). `Audio`: the clock goes on and a callback ends (`WF`); X serves watches and
timers again and again (`SF`). No other specification assumes any.

### Restrictions

Where the code goes wrong in a way no listed run shows, a constant or guard keeps the model on
the side where it does not, and names what is left out:

* `Translated = FALSE` (`UxaDrawing`): sources wider than a pixel are repeated only onto drawables
  at column 0 without an offset. Otherwise `uxa_composite` may go on, after a tiled fill that failed,
  with coordinates it has translated already (`uxa-render.c:1611`), and `Delivered` fails.
* `AtOrigin`: requests without a region, GetImage, and CopyArea while X is away use drawables
  at the origin of their pixmap; `DrawingNoRegion` lifts this. (`uxa_get_image` takes
  `pDrawable->y` for x, `uxa-accel.c:1293`, and has its region translated twice;
  `uxa_check_copy_area` prepares boxes of the request as if of the screen.) Clients that read
  while X is away get what fb finds.
* `UxaRender`: source and mask have the same transform (`qxl_surface.c:741` passes on the
  source's for both), sources are not the destination, sources of one pixel are pixmaps.
* `MainLoop`: a descriptor has one watch at most, and is closed only when that has been removed. What comes in
  while X walks the ring is taken to come after the walk, for which X has selected already.
* `CommandBuffers`: while X has no terminal an upload of deferred frames begins only if enough buffers are
  free for the largest command (`FreeIn`, `Peak`). The code begins it anyhow, and would wait for memory that a
  device that was reset does not give back.
* `Screen`: after a resize that was refused `virtual_x` is what was asked for, not what the
  message "leaving old virtual" (`qxl_driver.c:552`) says, and the next generation makes a
  primary of that size without asking whether it fits (`qxl_driver.c:747`). Under such a
  primary a refused resize to fewer columns leaves a root pixmap wider than `virtual_x`, and the
  ticker cuts off what is beyond: `ScreenAgrees` and `FramesTracked` speak of sizes that fit. X leaves the VT when the
  ticker has sent what there was: the ticker is not stopped then.
  With deferred frames the crtcs are left out, and heads are set to `Modes` after the first.
* `Audio`: events have one size; a fifo is created when the one before was found unless
  `Together`. A pipe comes back under its name only when its removal was seen (`Removed`). A fifo that is read before its writer has opened it reads as ended and is closed. One that
  was closed with data left stays in its slot until another fifo is read.
* `GlyphCache`: `Evictions` keeps away from the last tile of the atlas (`LastTileSpared`); `GlyphOverlap`
  lifts this. A glyph too large for the atlas whose picture is in system memory makes the code assert
  (`uxa-glyphs.c:776`, `:991`); a request ends there as `aborted`. Glyphs are drawn where the request has
  them: coordinates are not clamped, and a `prepare_composite` that succeeded for the first glyph of a list does for the rest.

### Findings

* `VtDangling`: a pixmap destroyed while X is away whose record is the first leaves
  `vt_surfaces` pointing to freed memory (`qxl_surface_ums.c:717-735`).
* `VtNoneFree`: leaving the VT with no offscreen surface empties the free list for good
  (`qxl_surface_ums.c:806`, `qxl_driver.c:862`). In `SurfaceLifecycle` this is `vt = "lost"`.
* `AccessTwice`: two accesses of less than 25 boxes each that have 25 together upload
  pixels that were never downloaded (`qxl_surface.c:358-379`).

* `DrawingNoRegion`: an access without a region prepares the wrong part of a window's pixmap
  (`uxa.c:147`), for set_spans, put_image, copy_plane, poly_point and get_spans.
* `AudioEvents`: of two events read together the second is lost (`spiceqxl_audio.c:447`), and a
  fifo is never opened.
* `GlyphOverlap`: a large glyph that evicts into the last tile leaves small cells there free; the next
  small glyph is put in one, under the large one, and its pixels go over those of a glyph that still counts as
  cached (`uxa-glyphs.c:568`).
* `SelectFails`: with the old ABI a watch that was removed stays among those selected until the ring is
  walked (`spiceqxl_main_loop.c:247`). If its descriptor is closed before, the next select fails with
  EBADF, the ring is not walked, and nobody is served until something else gets that number. `read_from_fifos`
  removes and closes so (`spiceqxl_audio.c:303-307`), from a timer too (`:384`).
* `FreedWatch`: with the new ABI a callback for reading that removes its own watch, as `read_from_fifos` does at the end
  of a fifo, returns into `watch_fd_notified`, which reads the mask of the freed watch (`spiceqxl_main_loop.c:354`)
  and may call what it finds there.

The passing run of a module that has a finding checks what holds beside it: `PixelsKept` and
`BindingExact` hold up to the step into undefined behaviour, `UploadIsHarmless` where the
second prepare does not reach the shortcut, `Delivered` where regions are given or windows lie at the
origin, the properties of `Audio` where fifos are found one by one, those of `GlyphCache` where the last
tile is spared. `CallsAreWanted` excepts the watch freed while it is notified, and no other; `Served` asks for no
more than that what can be read is read or select fails.

## 4. What is proved

Eight modules hold proofs. A theorem holds for every value of the constants that the named
assumption admits; TLC evaluates each assumption in the run of the same module. Every inductive
invariant but that of `CommandBuffers`, which asks for functions on all buffers, was checked by TLC on the
run's instance before it was proved.

| Module | Theorem | Property | Under |
|---|---|---|---|
| `QxlRingProofs` | `TypeCorrect` | `TypeOK` | `RingAssumption`: slots divide the width of counters (TLC: `MCWakeups`) |
| | `NeverLappedTheorem` | `NeverLapped` | |
| | `NoLostWakeupTheorem` | `NoLostWakeup` | |
| | `ItemIsStableTheorem` | `ItemIsStable` | |
| | `RingsAreChannelsTheorem` | `RingsAreChannels` (refinement) | |
| `ReleaseRingProofs` | `ReleasedOnceTheorem` | `ReleasedOnce` | `ReleaseAssumption` |
| | `BuildingIntactTheorem` | `BuildingIntact` | |
| | `FruitlessRoundsTheorem` | `FruitlessRounds` | and `Prompt` |
| `SurfaceProofs` | `AssertionsHoldTheorem` | `AssertionsHold` | `CacheAssumption` |
| | `KeepsAgeOrderTheorem` | `KeepsAgeOrder` (refinement) | |
| | `RefCountTheorem` | `RefCountExact` | `ConstantsAssumption` |
| | `DeviceProtocolTheorem` | `DeviceProtocol` | |
| | `MemoryTheorem` | `MemoryExact` | |
| | `LifeCycleTheorem` | `FollowsLifeCycle` (action property) | |
| | `ShowsWhatWasDrawnTheorem` | `ShowsWhatWasDrawn` | `FewTogether` |
| | `UploadIsHarmlessTheorem` | `UploadIsHarmless` | |
| `CommandBuffersProofs` | `CountsAreExactTheorem` | `CountsAreExact` | `BuffersAssumption`: the surfaces' images and the largest command fit |
| | `NothingLeaksTheorem` | `NothingLeaks` | |
| | `DeviceDataIsStableTheorem` | `DeviceDataIsStable` (action property) | |
| `TerminalProofs` | `BindingExactTheorem` | `BindingExact` | `VtAssumption` |
| | `PixelsKeptTheorem` | `PixelsKept` | |
| | `ScreenAgreesTheorem` | `ScreenAgrees` | `ScreenAssumption` |
| | `FramesTrackedTheorem` | `FramesTracked` | |
| | `MonitorsKnownTheorem` | `MonitorsKnown` | |
| `GlyphCacheProofs` | `TablesAgreeTheorem` | `TablesAgree` | `GlyphCacheAssumption`, `LastTileSpared` |
| | `GlyphsAreStoredTheorem` | `GlyphsAreStored` | |
| | `DrawnRightTheorem` | `DrawnRight` | |
| | `OwnMaskIsSafeTheorem` | `OwnMaskIsSafe` | `GlyphCacheAssumption` alone |
| `MainLoopProofs` | `CallsAreWantedTheorem` | `CallsAreWanted` | `LoopAssumption` |
| | `LoopIsSafeTheorem` | `LoopIsSafe` | |
| `AudioProofs` | `CountsAgreeTheorem` | `CountsAgree` | `AudioAssumption` |
| | `NoneForgottenTheorem` | `NoneForgotten` | |
| | `PlaysInOrderTheorem` | `PlaysInOrder` | and `~Together` |

Hypotheses that are more than sizes are the restrictions of section 3, and each is needed: `FewTogether`
(`Together < ManyBoxes`) leaves out what `AccessTwice` shows to go wrong, `~Together` what
`AudioEvents` shows, `LastTileSpared` what `GlyphOverlap` shows. `Prompt` is the assumption on the
worker's speed (Fairness, above). `FruitlessRounds` says that X counts two fruitless rounds at most for each
unit it needs. The bound is tight: with 4 attempts for a request of 2 units TLC finds that X exits. It does not say
that 1000 attempts are enough: an image chunk may have 256 KB, a released command that gives back memory has a few hundred
bytes, and the device chooses what it releases.

Each proof has an inductive invariant (`IInv`, in `SurfaceProofs` also `CacheIInv` and `AccessIInv`), a lemma that it
implies the property, and a lemma per action, with a step for each conjunct the action can disturb.

**`QxlRing`.** `IInv` adds to the properties `CarriesElement` (between call and copy X holds a
command), `AwakeInCallback` (in a callback for a ring the worker does not wait for it) and
`AlarmIsNext`: once the worker has read `prod` to arm the bell, and while it has armed it and not yet
looked again, either nothing was pushed since, so the next push will ring, or something was, so
the last look will find it. `NoLostWakeup` rests on this. `Used` is a difference modulo `Modulus`; the
lemmas on it eliminate the remainders once, and no later step divides. For the refinement,
`PushProd` appends the slot that `PushCopy` filled, `GetPop` takes off the head, which is the item by
`ItemIsStable`, and every other action leaves the queue as it is. The theorem is about the safety part of the channel.

**`ReleaseRing`.** What is chained is a matter of pointers: `Held` says that there are sets `Q` (a
set for each slot of the ring in use), `B` (the chain being built) and `W` (the one X walks), each
of which is a path by `next` from its head to the end, which are apart and together are the commands
owned by a chain. The worker's steps move `B` to a slot, X's move a slot to `W` and its
first element to nobody. `Ring` keeps a slot free for the worker. `Budget` counts memory as pairs of a
command and a unit, so that taking and giving back are a disjoint union. `FruitlessRounds` is an argument about
rounds: a round frees nothing only if the request it relied on was an earlier one's, and an earlier
request is left over only by a round that did free something. So there are at most two rounds for each
unit freed (`Patience`). `Full` adds that a published chain is not empty and a command takes memory.

**`SurfaceCache`.** The loop that closes the gaps is a recursive function. It is unfolded by the
least index at which a claim about it would fail (`LoopCloses`): at index `i` what is to the left
is untouched, the gaps met so far are together at `i`, and nothing is lost, doubled or put
in another order (`Closed`). For the refinement the invariant has an enumeration of the occupied
places; `ListIs` says that `ListOf` reads the array along it, `SameList` that arrays with
the same entries in the same order are one list. Then `Add` is a new head, without the last
entry if the array was full, and `Get` takes out the first that suits.

**`SurfaceLifecycle`.** The stack of nested calls is seen through its outermost call and the set of surfaces
being destroyed (`Nested`): what is called from another call is a collection, its retry or a destruction, and
no surface is destroyed twice. While X has the terminal each surface is in one phase (`PhaseInv`: with
the device, on its way back, being made, free), and its count is the number of its holders, the call
at work included (`HolderInv`). Evacuation drops references in bulk, and `LeavingInv` says what is true
meanwhile: the cache's reference is dropped last. `AwayInv` is the state without the terminal,
`MemoryInv` the sum of units by surfaces. How deep collections nest plays no part.

**`SurfaceAccess`.** `CopyIsTrue`: until the caller draws, `host_image` is the surface in all of the
accessed region; `WritesAreUploaded`: it draws only where the upload will come.
`Uploaded` and `Taken` are shown to be the region itself below the shortcut and its
extents above (`BoxesCover`, `TilesCover`).

**`CommandBuffers`.** `CountsAreExact` speaks of the states between two collections. For those
within, `Links` are the pointers that still stand for a reference: while an image is freed, a chunk that
the walk let go of is pointed to by nothing that counts, though its address is still in memory
(`Stale`). `Counted` is exact in these terms always, so a decref takes away one of the holders it
counts. That the holder is the right one is the business of `Shape`: there is an owner for each part
of a command (`O`), which only buffers of that command point to, and a place for each chunk in its image
(`R`), one more than its predecessor's; pointers `next` and `prev` are each other's inverse. So
the head of an image is found by going to the chunk of least place, which must be the one
`data` points to, and a chunk is at most `MaxChunks` steps from it, the depth to which `Reached` looks.
`Staged` says of the steps of a command that are left which pointers are still to be set (`AddLeft`), and
`HeldFits` that what X holds is what the command under construction points to or will. `Apart`: no
command is in two places. For `DeviceDataIsStable`, what the device may read (`DeviceParts`) is the images of
surfaces and all that a command it has owns, and that is closed under pointers. A step writes to new
buffers, to the command X builds, which the device has not, to its parts, or to what a command owned
that the device has released; an image of a surface is held by its surface. Sums over holders are
cardinalities, and each step adds or takes one element (`OneMore`).

**`VtSwitch`.** `BindingExact` is not inductive: `Pairs` says that pixmaps with a surface and surfaces in
use are matched both ways, by `pixmap` here and by the records' field away. `Linked`: the
records are a doubly linked path, which `head` begins or, once its record is freed, points beside. If
`head` is a record, `Walk` follows the path to its end, so each record is restored once; if it is none
and not the end, the walk fails at once, which is the finding `VtDangling`.

**`Screen`.** The properties speak of states where X draws and are lost by what happens in between.
`Away`: there are surfaces to put back only while the terminal is away. `Asked`: with deferred
frames X's size differs from the driver's only after a resize that did not fit. `Fresh`: between
`qxl_screen_init` and `qxl_create_screen_resources` the primary has the size asked for. `Matched`: while X draws,
root pixmap, record and device are of one primary. `Tracked`: a root pixmap that fits is not wider
than where the ticker cuts off. `Known`, for the heads: every crtc that is on is
among the device's heads, in the order of ids, while X draws, and a generation begins with no heads. What
`qxl_update_monitors_config` tells are the crtcs that are on in order, so a head's place is the
number of those before it, which is shown to be a bijection by counting.

**`GlyphCache`.** The square of a glyph is an aligned interval in the numbering of cells, and two aligned
intervals of powers of four are nested or apart, so what is in the way of a new glyph is either within
its square or the one square around it. `HasSquare`: every cached glyph has a square of its class that is
aligned and was given out, that is, ends before `count`. An eviction keeps this only if the tile it falls in has
been given out to the end, which is where `LastTileSpared` comes in. `DrawInv`: between two glyphs the driver is
prepared for the atlas the loop believes it is, and what there was so far has been drawn. `OwnMaskIsSafe` rests on boxes only: the extents hold all boxes seen so
far, and a glyph apart from the extents is apart from each.

**`MainLoop`.** The descriptor of a watch that was not removed is open (`OpenFds`); the ring has each
allocated watch once, removed ones too (`RingInv`). `SelectInv`: a watch that the walk has still to come to has the
descriptor that was selected, not one opened since under its number. New watches go to the head of
the ring, behind the walk, and only a number whose watch is removed is closed and opened again, so this survives whatever is
removed wherever. `LoopIsSafe` needs only the ring, as what is removed in a callback stays there. The X server's table has
watches that are there, each with its descriptor (`TableInv`); the one it called for is there, unless it was
freed (`NotifiedInv`). `HistoryInv`: the history begins anew with each round.

**`Audio`.** `Working`: while it works the driver knows how much the fullest fifo holds, and keeps a buffer
of the spice server only for data. That is enough for the counts and for `NoneForgotten`. For the order,
`InOrder` says that a cell of a ring buffer holds the sample its distance before `add_to` tells, up to the
next one of its pipe, and `OneSlot` that no pipe is open twice, which is where `~Together` is needed.

### Model-checked only

* Liveness (`BothDeliver`, `PushesReturn`, `Served`, `AllocReturns`, `Heard`): the prover does not
  reason about fairness.
* `UxaDrawing` (`Delivered`, `Mapped`, `DeviceWaits`): what a request does is a sequence built by operators of
  operators, and what a pixel shows is a term; both would need induction over data.

Recursion decides what can be proved: an operator declared `RECURSIVE` cannot be reasoned about at
all, a recursive function can, by the least argument at which it would go wrong. The modules with proofs use
the second kind only.

## 5. Not modelled, and the plan

*Not modelled:*

* third-party code (`mspace.c`, `murmurhash3.c`) and generated data;
* KMS mode: rings, memory and surfaces belong to the kernel there, the code issues ioctls;
* mode tables, options, the launcher, the setup of memory slots: straight-line code;
* agent, smartcard, inputs and uinput channels: pipes with little state of their own;
* of UXA, what qxl does not reach: copies in two directions, gradients, composites in two
  passes, `uxa_acquire_pattern`; and the damage functions of `uxa-damage.c` (most are dead
  code; those in use are assumed to cover what is drawn);
* timers of the main loop, which wrap those of the X server one to one; the arithmetic of
  mixing samples.

*Next, in this order:*

1. *Damage* (`uxa-damage.c`): for the functions that fallbacks use, that the region contains
   every pixel fb draws within the clip.
2. *Smartcard reader* (`spiceccid.c`): an answer belongs to the request it is returned for;
   what the two threads do to a reader's fields.
