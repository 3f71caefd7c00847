-------------------------------- MODULE Mtu ---------------------------------
(***************************************************************************)
(* Sizes in bytes: padding and framing of a session frame, onion layers,   *)
(* and the largest packet that fits the underlay (mtu.hpp, header.hpp).    *)
(***************************************************************************)
EXTENDS Integers

(* is_supported_session_padding_bucket *)
Buckets == {32, 64, 128, 256}

(* OUTER_IPV4_HEADER_SIZE + OUTER_UDP_HEADER_SIZE *)
OuterOverhead == 28

(* NODE_ID_SIZE + RELAY_CONTENT_TYPE_SIZE *)
RelaySourceOverhead == 33

OnionOverhead == 60

OnionMaxHops == 8

MinimumMtu == 576

MaximumMtu == 65535

SessionMaxPayload == 4096

(* Header, nonce, tag, length prefix and the most padding.                 *)
SessionFrameOverhead(b) == 16 + 12 + 16 + 4 + (b - 1)

PaddedSize(payload, b) == ((payload + 4 + b - 1) \div b) * b

(* wire_overhead_for_route_depth, for 1 .. OnionMaxHops and a bucket.      *)
WireOverhead(depth, b) ==
  OuterOverhead + SessionFrameOverhead(b)
    + IF depth > 1 THEN RelaySourceOverhead + depth * OnionOverhead ELSE 0

(* safe_overlay_mtu has a value.                                           *)
MtuDefined(underlay, depth, b) ==
  /\ b \in Buckets /\ depth \in 1 .. OnionMaxHops
  /\ underlay <= MaximumMtu /\ underlay >= WireOverhead(depth, b) + MinimumMtu

SafeOverlayMtu(underlay, depth, b) == underlay - WireOverhead(depth, b)

(* packet_fits_route                                                       *)
FitsRoute(size, underlay, depth, b) ==
  MtuDefined(underlay, depth, b) /\ size <= SafeOverlayMtu(underlay, depth, b)

(* The IP datagram of a session frame, as encrypt_message builds it.       *)
DatagramSize(payload, b) == OuterOverhead + 16 + 12 + 16 + PaddedSize(payload, b)

(* The payload of a relay frame with so many onion layers left.            *)
RelayPayload(size, layers) == RelaySourceOverhead + size + layers * OnionOverhead
=============================================================================
