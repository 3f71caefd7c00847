----------------------------- MODULE MCServices -----------------------------
(***************************************************************************)
(* Small instances of five parts that share no state: the replay window of *)
(* a session, the admission of handshakes, relaying, the endpoint of a     *)
(* peer, and revocations.  Each behaviour moves one of them, so that TLC   *)
(* explores the sum of the five state spaces and not their product.        *)
(***************************************************************************)
EXTENDS ReplayChannel, Admission, Relay, EndpointPunch, Revocation

VARIABLE part   \* the part that this behaviour is about

vars == <<part, channelVars, admissionVars, relayVars, punchVars, revVars>>

Init ==
  /\ part \in {"channel", "admission", "relay", "endpoint", "revocation"}
  /\ ChannelInit /\ AdmissionInit /\ RelayInit /\ PunchInit /\ RevInit
  /\ part # "endpoint" => where = {rec.endpoint}

Next ==
  \/ part = "channel" /\ ChannelNext /\ UNCHANGED <<part, admissionVars, relayVars, punchVars, revVars>>
  \/ part = "admission" /\ AdmissionNext /\ UNCHANGED <<part, channelVars, relayVars, punchVars, revVars>>
  \/ part = "relay" /\ RelayNext /\ UNCHANGED <<part, channelVars, admissionVars, punchVars, revVars>>
  \/ part = "endpoint" /\ PunchNext /\ UNCHANGED <<part, channelVars, admissionVars, relayVars, revVars>>
  \/ part = "revocation" /\ RevNext /\ UNCHANGED <<part, channelVars, admissionVars, relayVars, punchVars>>

(* In a part that does not move, no fair action is enabled.                *)
Spec == Init /\ [][Next]_vars /\ PunchFairness /\ RevFairness

(* The state of each part has its type.                                    *)
TypeOK == ChannelTypeOK /\ AdmissionTypeOK /\ RelayTypeOK /\ PunchTypeOK /\ RevTypeOK

-----------------------------------------------------------------------------
(* Two sources share the key A, and two frames the same handshake.         *)
MCInitArrival ==
  {[source |-> "a1", init |-> 1], [source |-> "a2", init |-> 1], [source |-> "b", init |-> 2]}
MCSourceKey == [e \in {"a1", "a2", "b"} |-> IF e = "b" THEN "B" ELSE "A"]

(* A full path, a shorter one that shares its relay, and one whose last    *)
(* hop is out of the relay's reach; q does not know t.                     *)
MCRelayPaths ==
  {[source |-> "s", path |-> <<"r", "q", "d">>], [source |-> "t", path |-> <<"r", "q">>],
   [source |-> "s", path |-> <<"r", "d">>]}
MCKnownTo == [n \in RelayNode |-> IF n = "q" THEN RelayNode \ {"t"} ELSE RelayNode]
MCReachableFrom ==
  [n \in RelayNode |-> CASE n \in {"s", "t"} -> {"r"} [] n = "r" -> {"s", "t", "q"}
                         [] n = "q" -> {"r", "d"} [] n = "d" -> {"q"}]

(* <<packets, bytes>>: a burst of two packets of a peer, three of all.     *)
MCPeerRate == <<1, 3000>>
MCPeerBurst == <<2, 3000>>
MCGlobalRate == <<2, 4500>>
MCGlobalBurst == <<3, 4500>>

MCPlaces == {{"a"}, {"a", "b"}}
MCAnnounced == {<<Candidate("b", 300)>>}

(* A line of three nodes; two epochs of one nonce at its two ends.         *)
MCRevNeighbours == [n \in 1 .. 3 |-> {m \in 1 .. 3 : m - n \in {-1, 1}}]
MCIssuable ==
  {<<1, [nonce |-> 1, epoch |-> 1]>>, <<3, [nonce |-> 1, epoch |-> 2]>>, <<1, [nonce |-> 2, epoch |-> 1]>>}
=============================================================================
