----------------------------- MODULE Transport -----------------------------
(***************************************************************************)
(* Transport (transport.cpp): the UDP socket, the send queue behind its    *)
(* mutex and condition variable, the send thread, the receive thread, and  *)
(* the thread that owns it all (Tunnel::start and Tunnel::stop).  Any      *)
(* number of threads up to Callers is inside send().                       *)
(*                                                                         *)
(* A step is one lock section, one wait or one socket call.  A send that   *)
(* is refused, an ICMP error and the hundred-millisecond timeout change    *)
(* nothing and are left to stuttering or to Poll.                          *)
(***************************************************************************)
EXTENDS SendQueue, Sums

CONSTANT Callers      \* threads that call send()

ASSUME CallersAssumption == Callers \in Nat

VARIABLES
  queue,          \* send_queue_
  sock,           \* sock_ # INVALID_SOCKET
  send_running,   \* send_running_
  sender,         \* send_thread_: where it is
  hand,           \* the datagram it has popped
  notes,          \* callers between the unlock and notify_one
  running,        \* running_ of the receive thread
  receiver,       \* recv_thread_: where it is
  owner           \* where the owner is

vars == <<queue, sock, send_running, sender, hand, notes, running, receiver, owner>>
sending == <<queue, send_running, sender, hand, notes>>
receiving == <<running, receiver>>

NoDatagram == [class |-> "none"]

Datagram == [class : Class, peer : Peer, size : Size]

Init ==
  /\ queue = EmptyQueue /\ hand = NoDatagram /\ notes = 0
  /\ sock = FALSE /\ send_running = FALSE /\ running = FALSE
  /\ sender = "none" /\ receiver = "none" /\ owner = "idle"

-----------------------------------------------------------------------------
(* bind.  It has closed what was open before; a bind that fails leaves     *)
(* nothing open.                                                           *)
BindSocket ==
  /\ owner = "idle" /\ ~sock
  /\ sock' = TRUE
  /\ owner' = "bound"
  /\ UNCHANGED <<sending, receiving>>

(* The lock section at its end and the start of the send thread.           *)
BindRun ==
  /\ owner = "bound"
  /\ queue' = EmptyQueue
  /\ send_running' = TRUE
  /\ sender' = "check"
  /\ owner' = "idle"
  /\ UNCHANGED <<sock, hand, notes, receiving>>

(* exchange: a request and its answer on the calling thread, refused while *)
(* the receive thread runs.                                                *)
Exchange ==
  /\ owner = "idle" /\ sock /\ ~running
  /\ owner' = "exchange"
  /\ UNCHANGED <<sock, sending, receiving>>

(* An answer from that destination, an error, or the deadline.             *)
ExchangeEnds ==
  /\ owner = "exchange"
  /\ owner' = "idle"
  /\ UNCHANGED <<sock, sending, receiving>>

StartReceive ==
  /\ owner = "idle" /\ sock /\ ~running
  /\ running' = TRUE
  /\ receiver' = "top"
  /\ owner' = "idle"
  /\ UNCHANGED <<sock, sending>>

(* stop_receive, on its own (Tunnel::stop) or as the start of close.       *)
StopReceive ==
  /\ owner = "idle"
  /\ running' = FALSE
  /\ owner' \in {"join_recv", "close_recv"}
  /\ UNCHANGED <<sock, sending, receiver>>

JoinReceive ==
  /\ owner \in {"join_recv", "close_recv"}
  /\ receiver \in {"none", "exited"}
  /\ receiver' = "none"
  /\ owner' = IF owner = "close_recv" THEN "close_stop" ELSE "idle"
  /\ UNCHANGED <<sock, sending, running>>

(* Bug variant of CloseStop: the queue is left as it is.                   *)
CloseStopKeepsQueue ==
  /\ owner = "close_stop"
  /\ send_running' = FALSE
  /\ owner' = "close_notify"
  /\ UNCHANGED <<queue, sock, sender, hand, notes, receiving>>

(* close: the lock section.                                                *)
CloseStop ==
  /\ owner = "close_stop"
  /\ send_running' = FALSE
  /\ queue' = EmptyQueue
  /\ owner' = "close_notify"
  /\ UNCHANGED <<sock, sender, hand, notes, receiving>>

Woken(s) == IF s = "blocked" THEN "check" ELSE s

CloseNotify ==
  /\ owner = "close_notify"
  /\ sender' = Woken(sender)
  /\ owner' = "close_join"
  /\ UNCHANGED <<queue, sock, send_running, hand, notes, receiving>>

(* Bug variant of CloseJoin: the socket is closed under the send thread.   *)
CloseJoinLater ==
  /\ owner = "close_join"
  /\ owner' = "close_socket"
  /\ UNCHANGED <<sock, sending, receiving>>

CloseJoin ==
  /\ owner = "close_join"
  /\ sender \in {"none", "exited"}
  /\ sender' = "none"
  /\ owner' = "close_socket"
  /\ UNCHANGED <<queue, sock, send_running, hand, notes, receiving>>

CloseSocket ==
  /\ owner = "close_socket"
  /\ sock' = FALSE
  /\ owner' = "idle"
  /\ UNCHANGED <<sending, receiving>>

-----------------------------------------------------------------------------
(* send, once the size and the address family have been accepted: the lock *)
(* section.                                                                *)
Send(c, p, n) ==
  /\ sock /\ send_running
  /\ notes < Callers
  /\ EnqueueResult(queue, c, p, n) = "Queued"
  /\ queue' = Enqueue(queue, c, p, n)
  /\ notes' = notes + 1
  /\ UNCHANGED <<sock, send_running, sender, hand, receiving, owner>>

(* notify_one, after the unlock.                                           *)
Notify ==
  /\ notes > 0
  /\ notes' = notes - 1
  /\ sender' = Woken(sender)
  /\ UNCHANGED <<queue, sock, send_running, hand, receiving, owner>>

(* send_loop holds the mutex: the predicate of the wait, and what follows. *)
SendLoopWait ==
  /\ sender = "check" /\ send_running /\ QueueSize(queue) = 0
  /\ sender' = "blocked"
  /\ UNCHANGED <<queue, sock, send_running, hand, notes, receiving, owner>>

SendLoopExit ==
  /\ sender = "check" /\ ~send_running
  /\ sender' = "exited"
  /\ UNCHANGED <<queue, sock, send_running, hand, notes, receiving, owner>>

SendLoopPop ==
  /\ sender = "check" /\ send_running /\ QueueSize(queue) > 0
  /\ Pops(queue)
  /\ hand' = Popped(queue)
  /\ queue' = PopState(queue)
  /\ sender' = "sending"
  /\ UNCHANGED <<sock, send_running, notes, receiving, owner>>

(* sendto, outside the mutex; an error is logged and the datagram gone.    *)
SendLoopTransmit ==
  /\ sender = "sending"
  /\ hand' = NoDatagram
  /\ sender' = "check"
  /\ UNCHANGED <<queue, sock, send_running, notes, receiving, owner>>

-----------------------------------------------------------------------------
(* Bug variant of ReceiveTop: the flag is not looked at again.             *)
ReceiveTopAlways ==
  /\ receiver = "top"
  /\ receiver' = "recvfrom"
  /\ UNCHANGED <<sock, sending, running, owner>>

(* recv_loop.                                                              *)
ReceiveTop ==
  /\ receiver = "top"
  /\ receiver' = IF running THEN "recvfrom" ELSE "exited"
  /\ UNCHANGED <<sock, sending, running, owner>>

(* A timeout, an ICMP error, an oversized datagram: again.  A datagram:    *)
(* the callback.  Any other error ends the thread and leaves running_ set. *)
Poll ==
  /\ receiver = "recvfrom"
  /\ receiver' \in {"top", "callback", "exited"}
  /\ UNCHANGED <<sock, sending, running, owner>>

CallbackReturns ==
  /\ receiver = "callback"
  /\ receiver' = "top"
  /\ UNCHANGED <<sock, sending, running, owner>>

-----------------------------------------------------------------------------
Closing ==
  \/ JoinReceive \/ CloseStop \/ CloseNotify \/ CloseJoin \/ CloseSocket

Owner ==
  \/ BindSocket \/ BindRun \/ Exchange \/ ExchangeEnds \/ StartReceive
  \/ StopReceive \/ Closing

SendLoop == SendLoopWait \/ SendLoopExit \/ SendLoopPop \/ SendLoopTransmit

ReceiveLoop == ReceiveTop \/ Poll \/ CallbackReturns

Next ==
  \/ Owner \/ SendLoop \/ ReceiveLoop \/ Notify
  \/ \E c \in Class, p \in Peer, n \in Size : Send(c, p, n)

Spec == Init /\ [][Next]_vars

(* The threads are scheduled, recvfrom returns within its timeout and the  *)
(* callback returns.  Nobody has to send or to close.                      *)
Fairness ==
  /\ WF_vars(SendLoop) /\ WF_vars(ReceiveLoop) /\ WF_vars(Notify)
  /\ WF_vars(Closing)

-----------------------------------------------------------------------------
(* Types of the variables.                                                 *)
TypeOK ==
  /\ queue.lane \in [Class -> [Peer -> Seq(Size)]]
  /\ queue.peers \in SUBSET Peer
  /\ queue.active \in [Class -> Seq(Peer)]
  /\ queue.used \in [Class -> [Peer -> Nat]]
  /\ queue.items \in [Class -> Nat] /\ queue.bytes \in [Class -> Nat]
  /\ sock \in BOOLEAN /\ send_running \in BOOLEAN /\ running \in BOOLEAN
  /\ sender \in {"none", "check", "blocked", "sending", "exited"}
  /\ hand \in Datagram \cup {NoDatagram}
  /\ notes \in 0 .. Callers
  /\ receiver \in {"none", "top", "recvfrom", "callback", "exited"}
  /\ owner \in {"idle", "bound", "exchange", "join_recv", "close_recv", "close_stop",
               "close_notify", "close_join", "close_socket"}

(* The bookkeeping of the queue describes its lanes: a peer is in the      *)
(* rotation of a class once if it has a datagram there and not otherwise,  *)
(* it has an entry in peers_ exactly then, and the counters of send()'s    *)
(* limits are the sums they stand for.  pop() therefore always finds a     *)
(* datagram, and no limit minus a counter wraps around.                    *)
QueueExact ==
  /\ TypeOK
  /\ \A c \in Class :
       /\ IsInjective(queue.active[c])
       /\ Range(queue.active[c]) = {p \in Peer : queue.lane[c][p] # <<>>}
       /\ \A p \in Peer :
            /\ queue.used[c][p] = Total(queue.lane[c][p])
            /\ queue.used[c][p] <= MaxBytesPerPeer[c]
       /\ queue.items[c] = Total([p \in Peer |-> Len(queue.lane[c][p])])
       /\ queue.bytes[c] = Total(queue.used[c])
       /\ queue.bytes[c] <= MaxBytesGlobal[c]
  /\ queue.peers = {p \in Peer : \E c \in Class : queue.lane[c][p] # <<>>}

(* sendto, recvfrom and exchange find the socket open, and exchange never  *)
(* competes with the receive thread for the answer.                        *)
SocketUse ==
  /\ sender = "sending" \/ receiver = "recvfrom" \/ owner = "exchange" => sock
  /\ owner = "exchange" => receiver = "none"

(* What a step does to the rotation of class c: it becomes empty, or it    *)
(* keeps its order and, when its head is served, everyone moves up.        *)
Turn(c) ==
  LET a == queue.active[c]
      b == queue'.active[c]
      served == hand = NoDatagram /\ hand' # NoDatagram /\ hand'.class = c
  IN  b = <<>> \/ \A i \in DOMAIN a :
        IF served THEN i > 1 => b[i - 1] = a[i] ELSE b[i] = a[i]

(* "peers within each priority drain round-robin" (send_queue.hpp): when a *)
(* peer is served, every other one in that rotation moves one place up,    *)
(* and nothing a caller does moves anyone.                                 *)
RoundRobin == [][\A c \in Class : Turn(c)]_vars

Abstract == INSTANCE DatagramQueue
              WITH lane <- queue.lane, hand <- hand, open <- send_running

(* The transport implements DatagramQueue.                                 *)
Implements == Abstract!QSpec

(* A control datagram is sent, whatever the other peers and the data class *)
(* enqueue: its peer's lane is drained or cleared, or its turn comes.  No  *)
(* lane stays occupied without that.                                       *)
ControlServed ==
  \A p \in Peer :
    []<>(queue.lane["control"][p] = <<>> \/ (hand # NoDatagram /\ hand.peer = p))

(* stop_receive and close return: no join waits for a thread that nobody   *)
(* wakes, and a call of send() that overlaps close does not undo it.       *)
Closes == owner \in {"join_recv", "close_recv"} ~> owner = "idle"
=============================================================================
