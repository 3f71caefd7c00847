----------------------------- MODULE SendQueue -----------------------------
(***************************************************************************)
(* BasicBoundedSendQueue (send_queue.hpp) as a record and its operations   *)
(* as operators on it.  Transport is the state machine built from them.    *)
(*                                                                         *)
(*   lane[c][p]   peers_[p].control / .data, its items' sizes in order     *)
(*   peers        the keys of peers_                                       *)
(*   active[c]    active_control_peers_ / active_data_peers_               *)
(*   used[c][p]   QueueLane::bytes                                         *)
(*   items[c]     control_items_ / data_items_                             *)
(*   bytes[c]     control_bytes_ / data_bytes_                             *)
(*                                                                         *)
(* A datagram is its size.  A peer that is not in peers has empty lanes.   *)
(***************************************************************************)
EXTENDS Integers, Sequences, FiniteSets, Functions

CONSTANTS
  Peer,               \* destination endpoints
  Size,               \* sizes of the datagrams
  MaxItemsPerPeer,    \* SendQueueClassLimits, one number for each class
  MaxBytesPerPeer,
  MaxItemsGlobal,
  MaxBytesGlobal

Class == {"control", "data"}

ASSUME QueueAssumption ==
  /\ Size \subseteq Nat
  /\ MaxItemsPerPeer \in [Class -> Nat \ {0}]
  /\ MaxBytesPerPeer \in [Class -> Nat \ {0}]
  /\ MaxItemsGlobal \in [Class -> Nat \ {0}]
  /\ MaxBytesGlobal \in [Class -> Nat \ {0}]

NoLanes == [c \in Class |-> [p \in Peer |-> <<>>]]

EmptyQueue ==
  [lane |-> NoLanes, peers |-> {}, active |-> [c \in Class |-> <<>>],
   used |-> [c \in Class |-> [p \in Peer |-> 0]],
   items |-> [c \in Class |-> 0], bytes |-> [c \in Class |-> 0]]

QueueSize(q) == q.items["control"] + q.items["data"]

-----------------------------------------------------------------------------
(* The checks of enqueue, in its order.  Each class is measured against    *)
(* its own limits and counters.                                            *)
EnqueueResult(q, c, p, n) ==
  IF Len(q.lane[c][p]) >= MaxItemsPerPeer[c] THEN "PerPeerItemLimit"
  ELSE IF n > MaxBytesPerPeer[c] - q.used[c][p] THEN "PerPeerByteLimit"
  ELSE IF q.items[c] >= MaxItemsGlobal[c] THEN "GlobalItemLimit"
  ELSE IF n > MaxBytesGlobal[c] - q.bytes[c] THEN "GlobalByteLimit"
  ELSE "Queued"

(* Bug variant of Enqueue: the peer joins the rotation with every datagram.*)
EnqueueAlwaysActive(q, c, p, n) ==
  [lane |-> [q.lane EXCEPT ![c][p] = Append(@, n)],
   peers |-> q.peers \cup {p},
   active |-> [q.active EXCEPT ![c] = Append(@, p)],
   used |-> [q.used EXCEPT ![c][p] = @ + n],
   items |-> [q.items EXCEPT ![c] = @ + 1],
   bytes |-> [q.bytes EXCEPT ![c] = @ + n]]

(* enqueue once the checks have passed: a lane that was empty joins the    *)
(* rotation of its class.                                                  *)
Enqueue(q, c, p, n) ==
  [lane |-> [q.lane EXCEPT ![c][p] = Append(@, n)],
   peers |-> q.peers \cup {p},
   active |-> [q.active EXCEPT ![c] =
                 IF q.lane[c][p] = <<>> THEN Append(@, p) ELSE @],
   used |-> [q.used EXCEPT ![c][p] = @ + n],
   items |-> [q.items EXCEPT ![c] = @ + 1],
   bytes |-> [q.bytes EXCEPT ![c] = @ + n]]

-----------------------------------------------------------------------------
(* Bug variant of PopClass: data goes first.                               *)
PopClassDataFirst(q) == IF q.active["data"] # <<>> THEN "data" ELSE "control"

(* The class that pop() selects.                                           *)
PopClass(q) == IF q.active["control"] # <<>> THEN "control" ELSE "data"

PopPeer(q) == Head(q.active[PopClass(q)])

(* The datagram that pop() returns.                                        *)
Popped(q) ==
  LET c == PopClass(q)
      p == PopPeer(q)
  IN  [class |-> c, peer |-> p, size |-> Head(q.lane[c][p])]

(* pop() finds a peer in a rotation, and that peer has a datagram there.   *)
(* The code's answer to the contrary, nullopt, is never given: QueueExact  *)
(* in Transport.                                                           *)
Pops(q) ==
  /\ q.active[PopClass(q)] # <<>>
  /\ PopPeer(q) \in q.peers
  /\ q.lane[PopClass(q)][PopPeer(q)] # <<>>

(* Bug variant of Rotate: a peer with more stays at the front.             *)
RotateNever(active, more) == IF more THEN active ELSE Tail(active)

(* What is left of a rotation when its head is served: the peer goes to    *)
(* the back if it has more.                                                *)
Rotate(active, more) ==
  IF more THEN Append(Tail(active), Head(active)) ELSE Tail(active)

(* The queue after pop() has returned Popped(q).                           *)
PopState(q) ==
  LET c == PopClass(q)
      p == PopPeer(q)
      n == Head(q.lane[c][p])
      lane == [q.lane EXCEPT ![c][p] = Tail(@)]
  IN  [lane |-> lane,
       peers |-> IF \A d \in Class : lane[d][p] = <<>> THEN q.peers \ {p} ELSE q.peers,
       active |-> [q.active EXCEPT ![c] = Rotate(@, lane[c][p] # <<>>)],
       used |-> [q.used EXCEPT ![c][p] = @ - n],
       items |-> [q.items EXCEPT ![c] = @ - 1],
       bytes |-> [q.bytes EXCEPT ![c] = @ - n]]
=============================================================================
