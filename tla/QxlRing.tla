------------------------------ MODULE QxlRing -------------------------------
(***************************************************************************)
(* The command and the cursor ring between the X thread (the producer,     *)
(* qxl_ring.c) and the spice worker thread (the consumer, the QXLInterface *)
(* callbacks of spiceqxl_display.c), with the doorbell that wakes a worker *)
(* which went to sleep on two empty rings.                                 *)
(*                                                                         *)
(* Every access to a shared ring header field is a step of its own, so the *)
(* two threads interleave where the C code lets them.  Steps of one thread *)
(* take effect in program order (mem_barrier() after the store of prod,    *)
(* and the barrier inside SPICE_RING_CONS_WAIT).  ioport_write() returns   *)
(* early while worker_running is unset; the flag is set before the rings   *)
(* exist and cleared when the memory under them is unmapped, so it does    *)
(* not appear here.                                                        *)
(***************************************************************************)
EXTENDS Integers, Sequences

CONSTANTS Rings,      \* the command ring and the cursor ring
          Elements,   \* the commands that may be pushed
          NoElement,  \* contents of a slot that was never written
          NumItems,   \* slots per ring, header->num_items = n_elements
          Modulus     \* prod and cons wrap here; 2^32 for uint32_t

RingAssumption ==
  /\ NumItems \in Nat \ {0}
  /\ Modulus \in Nat
  /\ NumItems < Modulus
  /\ Modulus % NumItems = 0        \* idx = prod & (n - 1) survives the wrap
  /\ NoElement \notin Elements

VARIABLES
  prod, cons,               \* ring headers: free-running counters
  notifyOnProd,             \* ring headers: the value of prod to signal at
  slots,                    \* ring->elements
  xpc, xring, xelt,         \* the X thread inside qxl_ring_push
  wpc, wring, witem, warm,  \* the worker inside a QXLInterface callback
  waiting,                  \* rings the worker was told to wait for
  wakeup,                   \* a wakeup is pending for the worker
  delivered                 \* last command handed to the worker, by ring

xvars == <<xpc, xring, xelt>>
wvars == <<wpc, wring, witem, warm, waiting, delivered>>
vars  == <<prod, cons, notifyOnProd, slots, xvars, wvars, wakeup>>

Counter == 0 .. Modulus - 1

(* Operators whose name ends in _Mutant are not part of the model: each is  *)
(* a plausible slip in the definition after it, and a check that replaces   *)
(* the one by the other must see a property fail.                          *)
Inc_Mutant(c) == c + 1                            \* no wrap
Inc(c) == (c + 1) % Modulus
Slot_Mutant(c) == c % ((NumItems + 1) \div 2)      \* mask of half the ring
Slot(c) == c % NumItems
Used(r) == (prod[r] - cons[r]) % Modulus
Empty(r) == prod[r] = cons[r]
Full_Mutant(r) == Used(r) > NumItems              \* full one too late
Full_Early_Mutant(r) == Used(r) = NumItems - 1    \* full one too early
Full(r) == Used(r) = NumItems

-----------------------------------------------------------------------------
(* xspice_init_qxl_ram: SPICE_RING_INIT on each ring.                      *)
Init ==
  /\ prod = [r \in Rings |-> 0]
  /\ cons = [r \in Rings |-> 0]
  /\ notifyOnProd = [r \in Rings |-> 1]
  /\ slots = [r \in Rings |-> [i \in 0 .. NumItems - 1 |-> NoElement]]
  /\ xpc = "idle" /\ xring \in Rings /\ xelt = NoElement
  /\ wpc = "top" /\ wring \in Rings /\ witem = NoElement /\ warm = 0
  /\ waiting = {}
  /\ wakeup = FALSE
  /\ delivered = [r \in Rings |-> NoElement]

-----------------------------------------------------------------------------
(* The X thread: qxl_ring_push.                                            *)

PushCall(r, e) ==
  /\ xpc = "idle"
  /\ xpc' = "room" /\ xring' = r /\ xelt' = e
  /\ UNCHANGED <<prod, cons, notifyOnProd, slots, wvars, wakeup>>

(* The busy wait on a full ring is this guard.  Each turn of it also sets   *)
(* notify_on_cons, which is left out: the only thing the signal at that     *)
(* value of cons reaches is qxl_send_events, whose body is compiled out.    *)
PushCopy ==
  /\ xpc = "room"
  /\ ~Full(xring)
  /\ slots' = [slots EXCEPT ![xring][Slot(prod[xring])] = xelt]
  /\ xpc' = "publish" /\ xelt' = NoElement
  /\ UNCHANGED <<prod, cons, notifyOnProd, xring, wvars, wakeup>>

PushProd ==
  /\ xpc = "publish"
  /\ prod' = [prod EXCEPT ![xring] = Inc(@)]
  /\ xpc' = "notify"
  /\ UNCHANGED <<cons, notifyOnProd, slots, xring, xelt, wvars, wakeup>>

PushNotify_Mutant ==    \* compares the value prod had before the push
  /\ xpc = "notify"
  /\ wakeup' = (wakeup \/ prod[xring] = Inc(notifyOnProd[xring]))
  /\ xpc' = "idle"
  /\ UNCHANGED <<prod, cons, notifyOnProd, slots, xring, xelt, wvars>>

(* QXL_IO_NOTIFY_CMD and QXL_IO_NOTIFY_CURSOR both call spice_qxl_wakeup,  *)
(* which leaves at most one wakeup pending.                                *)
PushNotify ==
  /\ xpc = "notify"
  /\ wakeup' = (wakeup \/ prod[xring] = notifyOnProd[xring])
  /\ xpc' = "idle"
  /\ UNCHANGED <<prod, cons, notifyOnProd, slots, xring, xelt, wvars>>

XStep == PushCopy \/ PushProd \/ PushNotify

-----------------------------------------------------------------------------
(* The worker: interface_get_command, interface_get_cursor_command.        *)

(* SPICE_RING_CONS_ITEM and the copy of the slot into ext->cmd.            *)
GetItem(r) ==
  /\ wpc = "top" /\ r \notin waiting
  /\ ~Empty(r)
  /\ witem' = slots[r][Slot(cons[r])]
  /\ wring' = r /\ wpc' = "pop"
  /\ UNCHANGED <<prod, cons, notifyOnProd, slots, xvars,
                 warm, waiting, wakeup, delivered>>

(* SPICE_RING_POP: the item belongs to the worker once cons has moved.     *)
GetPop ==
  /\ wpc = "pop"
  /\ cons' = [cons EXCEPT ![wring] = Inc(@)]
  /\ delivered' = [delivered EXCEPT ![wring] = witem]
  /\ wpc' = "top" /\ witem' = NoElement
  /\ UNCHANGED <<prod, notifyOnProd, slots, xvars, wring, warm, waiting, wakeup>>

(* get_command returned FALSE; the worker asks to be notified.             *)
GetNothing(r) ==
  /\ wpc = "top" /\ r \notin waiting
  /\ Empty(r)
  /\ wring' = r /\ wpc' = "req"
  /\ UNCHANGED <<prod, cons, notifyOnProd, slots, xvars,
                 witem, warm, waiting, wakeup, delivered>>

(* interface_req_cmd_notification, interface_req_cursor_notification:      *)
(* SPICE_RING_CONS_WAIT, one step per access to the header.                *)
ReqTest ==
  /\ wpc = "req"
  /\ wpc' = IF Empty(wring) THEN "arm" ELSE "top"
  /\ UNCHANGED <<prod, cons, notifyOnProd, slots, xvars,
                 wring, witem, warm, waiting, wakeup, delivered>>

ReqReadProd ==
  /\ wpc = "arm"
  /\ warm' = Inc(prod[wring])
  /\ wpc' = "armed"
  /\ UNCHANGED <<prod, cons, notifyOnProd, slots, xvars,
                 wring, witem, waiting, wakeup, delivered>>

ReqArm ==
  /\ wpc = "armed"
  /\ notifyOnProd' = [notifyOnProd EXCEPT ![wring] = warm]
  /\ wpc' = "recheck" /\ warm' = 0
  /\ UNCHANGED <<prod, cons, slots, xvars, wring, witem, waiting, wakeup, delivered>>

ReqRecheck_Mutant ==    \* goes to sleep without looking again
  /\ wpc = "recheck"
  /\ waiting' = waiting \union {wring}
  /\ wpc' = "top"
  /\ UNCHANGED <<prod, cons, notifyOnProd, slots, xvars,
                 wring, witem, warm, wakeup, delivered>>

ReqRecheck ==
  /\ wpc = "recheck"
  /\ waiting' = IF Empty(wring) THEN waiting \union {wring} ELSE waiting
  /\ wpc' = "top"
  /\ UNCHANGED <<prod, cons, notifyOnProd, slots, xvars,
                 wring, witem, warm, wakeup, delivered>>

(* The worker's own loop: a wakeup makes it poll every ring again.  With   *)
(* waiting = Rings this is the only step it can take.                      *)
Wakeup ==
  /\ wpc = "top" /\ wakeup
  /\ wakeup' = FALSE
  /\ waiting' = {}
  /\ UNCHANGED <<prod, cons, notifyOnProd, slots, xvars,
                 wpc, wring, witem, warm, delivered>>

Poll(r) == GetItem(r) \/ GetNothing(r)

Callback == GetPop \/ ReqTest \/ ReqReadProd \/ ReqArm \/ ReqRecheck

Next ==
  \/ \E r \in Rings, e \in Elements : PushCall(r, e)
  \/ XStep
  \/ \E r \in Rings : Poll(r)
  \/ Callback
  \/ Wakeup

Spec == Init /\ [][Next]_vars

(* Both threads are scheduled: X finishes a push it began, the worker      *)
(* finishes a callback and, between callbacks, polls each ring it does not *)
(* wait for and looks at its wakeup.                                       *)
FairSpec ==
  /\ Spec
  /\ WF_vars(PushCopy) /\ WF_vars(PushProd) /\ WF_vars(PushNotify)
  /\ WF_vars(Callback) /\ SF_vars(Wakeup)
  /\ \A r \in Rings : SF_vars(Poll(r))

-----------------------------------------------------------------------------
TypeOK ==
  /\ prod \in [Rings -> Counter] /\ cons \in [Rings -> Counter]
  /\ notifyOnProd \in [Rings -> Counter]
  /\ slots \in [Rings -> [0 .. NumItems - 1 -> Elements \union {NoElement}]]
  /\ xpc \in {"idle", "room", "publish", "notify"}
  /\ xring \in Rings /\ xelt \in Elements \union {NoElement}
  /\ wpc \in {"top", "pop", "req", "arm", "armed", "recheck"}
  /\ wring \in Rings /\ witem \in Elements \union {NoElement} /\ warm \in Counter
  /\ waiting \subseteq Rings
  /\ wakeup \in BOOLEAN
  /\ delivered \in [Rings -> Elements \union {NoElement}]

(* The producer never laps the consumer, across the wrap of the counters:  *)
(* a push that has passed the full test keeps a slot to itself.            *)
NeverLapped ==
  \A r \in Rings :
    /\ Used(r) <= NumItems
    /\ xpc = "publish" /\ xring = r => Used(r) < NumItems

(* A worker that waits for a ring with a command in it has a wakeup        *)
(* coming: one is pending, or X is about to compare prod and ring the bell.*)
NoLostWakeup ==
  \A r \in waiting :
    \/ Empty(r)
    \/ wakeup
    \/ xpc = "notify" /\ xring = r /\ prod[r] = notifyOnProd[r]

(* A command the worker is copying out is the oldest one in the ring, and  *)
(* X does not touch its slot before cons has moved past it.                *)
ItemIsStable ==
  wpc = "pop" => /\ ~Empty(wring)
                 /\ witem = slots[wring][Slot(cons[wring])]

-----------------------------------------------------------------------------
(* Each ring is a bounded first-in first-out channel; the store of prod     *)
(* sends, the store of cons receives.                                      *)
Pending == [r \in Rings |->
              [i \in 1 .. Used(r) |-> slots[r][Slot(cons[r] + i - 1)]]]

Channel == INSTANCE BoundedChannel
             WITH Channels <- Rings, Capacity <- NumItems, queue <- Pending

(* Nothing pushed is lost, duplicated or reordered on its way.             *)
RingsAreChannels == Channel!Spec

(* With both threads scheduled every pushed command is consumed.           *)
RingsDeliver == Channel!FairSpec

(* The busy wait on a full ring ends: qxl_ring_push always returns.        *)
PushReturns == (xpc = "room") ~> (xpc = "idle")
=============================================================================
