---------------------------- MODULE ReplayWindow ----------------------------
(***************************************************************************)
(* The sliding replay window of one session: SessionState::recv_last and   *)
(* SessionState::recv_window, with the two operations check_replay and     *)
(* update_replay of session.cpp.                                           *)
(*                                                                         *)
(* The bitset is the set of the positions that are 1.  Position b stands   *)
(* for sequence number last - b, so a left shift adds to every position    *)
(* and drops those that reach REPLAY_BITS.                                 *)
(***************************************************************************)
EXTENDS Integers

CONSTANT REPLAY_BITS    \* width of the bitset, 2048 in the code

ASSUME ReplayBitsAssumption == REPLAY_BITS \in Nat \ {0}

Window == [last : Nat, bits : SUBSET (0 .. REPLAY_BITS - 1)]

EmptyWindow == [last |-> 0, bits |-> {}]

(* check_replay: may a frame with this sequence number still be accepted?  *)
CheckReplay(w, seq) ==
  /\ ~(w.last >= REPLAY_BITS /\ seq <= w.last - REPLAY_BITS)
  /\ \/ seq > w.last
     \/ /\ ~(seq + REPLAY_BITS <= w.last)
        /\ (w.last - seq) \notin w.bits

(* Bug variant of ShiftBits: the shifted positions are not truncated.      *)
ShiftBitsUntruncated(bits, shift) == {b + shift : b \in bits}

(* recv_window <<= shift                                                   *)
ShiftBits(bits, shift) ==
  {b \in shift .. REPLAY_BITS - 1 : b - shift \in bits}

(* Bug variant of UpdateReplay: an off-by-one in the shift.                *)
UpdateReplayOffByOne(w, seq) ==
  IF seq > w.last
  THEN [last |-> seq, bits |-> ShiftBits(w.bits, seq - w.last - 1) \cup {0}]
  ELSE [last |-> w.last, bits |-> w.bits \cup {w.last - seq}]

(* update_replay: record an authenticated frame.                           *)
UpdateReplay(w, seq) ==
  IF seq > w.last
  THEN [last |-> seq,
        bits |-> (IF seq - w.last < REPLAY_BITS
                  THEN ShiftBits(w.bits, seq - w.last)
                  ELSE {}) \cup {0}]
  ELSE [last |-> w.last, bits |-> w.bits \cup {w.last - seq}]
=============================================================================
