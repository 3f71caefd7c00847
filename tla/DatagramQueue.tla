--------------------------- MODULE DatagramQueue ---------------------------
(***************************************************************************)
(* What Transport promises its callers about the order of datagrams: one   *)
(* FIFO for each peer and class, a datagram of the data class leaves only  *)
(* when no control datagram is waiting, and closing forgets what was not   *)
(* sent.  Which peer is next, the limits, the counters, the threads and    *)
(* the condition variable are the implementation's.                        *)
(***************************************************************************)
EXTENDS Sequences

CONSTANTS Class, Peer, Size, NoDatagram

VARIABLES
  lane,   \* accepted and not yet taken, by class and peer
  hand,   \* taken and not yet on the wire
  open    \* datagrams are accepted

qvars == <<lane, hand, open>>

Empty == [c \in Class |-> [p \in Peer |-> <<>>]]

QInit == lane = Empty /\ hand = NoDatagram /\ open = FALSE

Accept(c, p, n) ==
  /\ open
  /\ lane' = [lane EXCEPT ![c][p] = Append(@, n)]
  /\ UNCHANGED <<hand, open>>

Take(c, p) ==
  /\ open /\ hand = NoDatagram
  /\ lane[c][p] # <<>>
  /\ c # "control" => \A o \in Peer : lane["control"][o] = <<>>
  /\ hand' = [class |-> c, peer |-> p, size |-> Head(lane[c][p])]
  /\ lane' = [lane EXCEPT ![c][p] = Tail(@)]
  /\ UNCHANGED open

Emit ==
  /\ hand # NoDatagram
  /\ hand' = NoDatagram
  /\ UNCHANGED <<lane, open>>

Reset ==
  /\ lane' = Empty
  /\ open' \in BOOLEAN
  /\ UNCHANGED hand

QNext ==
  \/ \E c \in Class, p \in Peer : Take(c, p) \/ \E n \in Size : Accept(c, p, n)
  \/ Emit
  \/ Reset

QSpec == QInit /\ [][QNext]_qvars
=============================================================================
