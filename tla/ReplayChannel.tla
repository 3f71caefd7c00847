---------------------------- MODULE ReplayChannel ---------------------------
(***************************************************************************)
(* One direction of one session: the sender numbers its frames with the    *)
(* 64-bit send_seq, the header carries its low 32 bits, the network loses, *)
(* reorders and repeats frames, and the receiver runs decrypt_message.     *)
(* Frame n is the frame encrypted with send_seq = n; it stays on the       *)
(* network for ever, so every order and every repetition is possible.      *)
(***************************************************************************)
EXTENDS ReplayWindow

CONSTANTS
  WIRE_MOD,   \* 2^32: the header's sequence_number field is 32 bits wide
  MaxSent     \* bound on the number of frames encrypted

ASSUME ChannelAssumption == WIRE_MOD \in Nat \ {0} /\ MaxSent \in Nat

VARIABLES
  send_seq,   \* SessionState::send_seq of the sender
  win,        \* recv_last and recv_window of the receiver
  delivered   \* the frames decrypt_message has returned (history)

channelVars == <<send_seq, win, delivered>>

(* hdr.sequence_number = (uint32_t)(send_seq & 0xFFFFFFFF)                 *)
WireSeq(n) == n % WIRE_MOD

ChannelInit ==
  /\ send_seq = 0
  /\ win = EmptyWindow
  /\ delivered = {}

(* encrypt_message: the counter is post-incremented.                       *)
Encrypt ==
  /\ send_seq < MaxSent
  /\ send_seq' = send_seq + 1
  /\ UNCHANGED <<win, delivered>>

(* decrypt_message on frame n: the check, the (successful) authentication, *)
(* the update, the delivery, all under one lock.                           *)
Decrypt(n) ==
  /\ CheckReplay(win, WireSeq(n))
  /\ win' = UpdateReplay(win, WireSeq(n))
  /\ delivered' = delivered \cup {n}
  /\ UNCHANGED send_seq

(* decrypt_message returns nullopt at the check and changes nothing.       *)
Drop(n) ==
  /\ ~CheckReplay(win, WireSeq(n))
  /\ UNCHANGED channelVars

Receive(n) == Decrypt(n) \/ Drop(n)

ChannelNext == Encrypt \/ \E n \in 0 .. send_seq - 1 : Receive(n)

ChannelSpec == ChannelInit /\ [][ChannelNext]_channelVars

-----------------------------------------------------------------------------
(* Types of the variables.                                                 *)
ChannelTypeOK ==
  /\ send_seq \in 0 .. MaxSent
  /\ win \in Window
  /\ delivered \subseteq 0 .. send_seq - 1

(* The sequence numbers, as the wire shows them, of what was delivered.    *)
SeenOnWire == {WireSeq(n) : n \in delivered}

(* The window is exactly the record of the delivered wire numbers: last is *)
(* the greatest of them, and a bit is set iff its number was delivered.    *)
(* check_replay and update_replay (session.cpp) keep it so through every   *)
(* shift, the ones of REPLAY_BITS and more included.                       *)
WindowExact ==
  /\ \A s \in SeenOnWire : s <= win.last
  /\ win.last \in SeenOnWire \cup {0}
  /\ \A b \in 0 .. REPLAY_BITS - 1 : b \in win.bits <=> win.last - b \in SeenOnWire

(* No frame is returned twice by decrypt_message, whatever the network     *)
(* repeats, even after the 32-bit number on the wire has wrapped.          *)
NeverTwice ==
  [][\A n \in delivered : ~Decrypt(n)]_channelVars

(* The window is exact, and so is what it decides: a frame that was        *)
(* delivered is refused, after the wrap too; while the 32-bit number has   *)
(* not wrapped, a frame that is new and less than REPLAY_BITS behind the   *)
(* newest delivered one is accepted, so that reordering within the width   *)
(* of the window costs no packet.                                          *)
ReplayExact ==
  /\ WindowExact
  /\ \A n \in delivered : ~CheckReplay(win, WireSeq(n))
  /\ send_seq <= WIRE_MOD =>
       \A n \in 0 .. send_seq - 1 :
         /\ n \notin delivered
         /\ \A d \in delivered : n + REPLAY_BITS > d
         => CheckReplay(win, WireSeq(n))
=============================================================================
