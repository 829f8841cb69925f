------------------------------ MODULE MCWakeups -----------------------------
(***************************************************************************)
(* Who tells whom that there is something to do, QxlRing (X and the worker *)
(* thread) and MainLoop (the spice server in X's thread) side by side: a   *)
(* behaviour is one of either and leaves the variables of the other alone. *)
(* QxlRing is there twice: one ring of two slots and two kinds of command, *)
(* which tell commands apart, and both rings with a slot each, which tell  *)
(* who waits for what, on variables of their own (bell...).                *)
(***************************************************************************)
EXTENDS QxlRing, MainLoop

CONSTANTS BothRings, OneElement     \* of the second instance of QxlRing

VARIABLES
  part,     \* what is running
  bellProd, bellCons, bellNotify, bellSlots, bellXpc, bellXring, bellXelt,
  bellWpc, bellWring, bellWitem, bellWarm, bellWaiting, bellWakeup, bellDelivered

Bell == INSTANCE QxlRing
          WITH Rings <- BothRings, Elements <- OneElement, NumItems <- 1, Modulus <- 2,
               prod <- bellProd, cons <- bellCons, notifyOnProd <- bellNotify,
               slots <- bellSlots, xpc <- bellXpc, xring <- bellXring, xelt <- bellXelt,
               wpc <- bellWpc, wring <- bellWring, witem <- bellWitem, warm <- bellWarm,
               waiting <- bellWaiting, wakeup <- bellWakeup, delivered <- bellDelivered

ASSUME WakeupsAssumption == RingAssumption /\ Bell!RingAssumption /\ LoopAssumption

bellvars == <<bellProd, bellCons, bellNotify, bellSlots, bellXpc, bellXring, bellXelt,
              bellWpc, bellWring, bellWitem, bellWarm, bellWaiting, bellWakeup, bellDelivered>>
wakeupsvars == <<part, vars, bellvars, loopvars>>

(* What is not running is in one state.                                    *)
AnyRing == CHOOSE r \in BothRings : TRUE

WakeupsInit ==
  /\ part \in {"fifo", "bell", "loop"} /\ Init /\ Bell!Init /\ LoopInit
  /\ part # "bell" => bellXring = AnyRing /\ bellWring = AnyRing
  /\ part # "loop" => abi = "select"

WakeupsNext ==
  \/ part = "fifo" /\ Next /\ UNCHANGED <<part, bellvars, loopvars>>
  \/ part = "bell" /\ Bell!Next /\ UNCHANGED <<part, vars, loopvars>>
  \/ part = "loop" /\ LoopNext /\ UNCHANGED <<part, vars, bellvars>>

(* Each module's own fairness.  As a behaviour stays with its module, what *)
(* is fair to one of two actions, one of each module, is fair to both.     *)
Either(bell, watched) ==
  \/ part = "bell" /\ bell /\ UNCHANGED <<part, vars, loopvars>>
  \/ part = "loop" /\ watched /\ UNCHANGED <<part, vars, bellvars>>

Beside == CHOOSE f \in [BothRings -> Fds] : Range(f) = Fds

WakeupsFairness ==
  /\ WF_wakeupsvars(Either(Bell!PushCopy \/ Bell!PushProd \/ Bell!PushNotify, Work))
  /\ WF_wakeupsvars(Either(Bell!Callback, Readable /\ XWakes))
  /\ SF_wakeupsvars(Either(Bell!Wakeup, FALSE))
  /\ \A r \in BothRings : SF_wakeupsvars(Either(Bell!Poll(r), Notify(Beside[r])))

WakeupsSpec == WakeupsInit /\ [][WakeupsNext]_wakeupsvars /\ WakeupsFairness

-----------------------------------------------------------------------------
(* The other properties are the modules' own: TypeOK, NeverLapped,         *)
(* ItemIsStable, NoLostWakeup and RingsAreChannels; CallsAreWanted,        *)
(* LoopIsSafe and Served.                                                  *)

(* With both threads scheduled every pushed command is consumed.           *)
BothDeliver == Bell!RingsDeliver

(* The busy wait on a full ring ends: qxl_ring_push always returns.        *)
PushesReturn == Bell!PushReturns
=============================================================================
