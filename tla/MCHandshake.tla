----------------------------- MODULE MCHandshake -----------------------------
(* Handshake for TLC: NodeId 1 is the lower one.                           *)
EXTENDS Handshake

MCKey == Sid \X (0 .. 3)

Setting(sids, configured, patient, sends, data, most) ==
  [sids |-> sids, configured |-> configured, patient |-> patient, sends |-> sends, data |-> data,
   faults |-> most]

(* Both nodes initiate and rekey at will and nothing goes wrong; one       *)
(* handshake with two faults and timers that fire at any time; and one     *)
(* node has the other's endpoint, with one fault.                          *)
MCSettings ==
  {Setting({1, 2, 3}, Node, TRUE, 2, 0, 0), Setting({1}, {1}, FALSE, 2, 1, 2),
   Setting({1, 2, 3}, {1}, TRUE, 2, 0, 1)}
=============================================================================
