--------------------------- MODULE BoundedChannel ---------------------------
(***************************************************************************)
(* What the command rings promise to their two ends: independent first-in  *)
(* first-out channels of at most Capacity elements each.  QxlRing          *)
(* implements this module, one channel per ring.                           *)
(***************************************************************************)
EXTENDS Naturals, Sequences

CONSTANTS Channels,   \* the channels' names
          Elements,   \* what may be sent
          NoElement,  \* "nothing received yet"
          Capacity    \* how many elements may be waiting in a channel

VARIABLES queue,      \* by channel, what is sent and not received, oldest first
          delivered   \* by channel, the element received last

vars == <<queue, delivered>>

Init == /\ queue = [c \in Channels |-> <<>>]
        /\ delivered = [c \in Channels |-> NoElement]

Send(c, e) == /\ Len(queue[c]) < Capacity
              /\ queue' = [queue EXCEPT ![c] = Append(@, e)]
              /\ UNCHANGED delivered

Receive(c) == /\ queue[c] # <<>>
              /\ delivered' = [delivered EXCEPT ![c] = Head(queue[c])]
              /\ queue' = [queue EXCEPT ![c] = Tail(@)]

Next == \E c \in Channels : Receive(c) \/ \E e \in Elements : Send(c, e)

Spec == Init /\ [][Next]_vars

(* No receiver stops while something is waiting in its channel.            *)
FairSpec == Spec /\ \A c \in Channels : WF_vars(Receive(c))
=============================================================================
