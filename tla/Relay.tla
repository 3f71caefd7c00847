------------------------------- MODULE Relay --------------------------------
(***************************************************************************)
(* Onion relaying: the relay branch of tx_loop with build_onion, and       *)
(* handle_relay with peel_onion and the RelayForwardLimiter of each node.  *)
(*                                                                         *)
(* An onion is the sequence of its layers, outermost first.  A layer can   *)
(* be opened with the key that the source shares with its hop, and tells   *)
(* the next hop.  A frame carries its path and the nodes that forwarded it *)
(* as history.  Paths come from tables that may be out of date; sessions   *)
(* may end and queues may be full at any time.                             *)
(***************************************************************************)
EXTENDS Mtu, Sequences, FiniteSets

CONSTANTS
  RelayNode,         \* the nodes
  RelayPaths,        \* [source, path] that the sources may use
  KnownTo,           \* for each node, the peers in its PeerManager
  ReachableFrom,     \* for each node, the peers that it has an endpoint of
  RelaySizes,        \* sizes of the packets that the adapters may hand over
  Underlay, Bucket,  \* underlay_mtu and padding_bucket_size
  MaxRelayDepth,     \* max_relay_depth
  PeerRate, PeerBurst, GlobalRate, GlobalBurst,   \* RelayQuotaConfig, <<packets, bytes>>
  MaxQuotaPeers, IdleTtl,
  MaxFlight          \* bound: frames on the wire at once

(* The next hop of the last layer: NodeId zero, which no node has.         *)
NoHop == "zero"

ASSUME RelayAssumption ==
  /\ NoHop \notin RelayNode /\ RelaySizes \subseteq Nat /\ Underlay \in Nat
  /\ \A r \in RelayPaths : r.source \in RelayNode /\ r.path \in Seq(RelayNode) /\ Len(r.path) >= 2
  /\ \A p \in {PeerRate, PeerBurst, GlobalRate, GlobalBurst} : p \in (Nat \ {0}) \X (Nat \ {0})
  /\ {MaxQuotaPeers, IdleTtl, MaxRelayDepth} \subseteq Nat \ {0}
  /\ MtuDefined(Underlay, MaxRelayDepth, Bucket)
  /\ \A i \in 1 .. 2 : IdleTtl * PeerRate[i] >= PeerBurst[i]
  /\ \A i \in 1 .. 2 : IdleTtl * GlobalRate[i] >= GlobalBurst[i]

VARIABLES
  wire,        \* frames on their way
  quota,       \* for each node, its limiter: [global, peers]
  credit,      \* history: for each node, what ideal token buckets would hold
  relayed      \* history: what the last step gave to an adapter

relayVars == <<wire, quota, credit, relayed>>

RelayInit ==
  /\ wire = {}
  /\ quota = [n \in RelayNode |-> [global |-> [tokens |-> GlobalBurst, age |-> 0], peers |-> <<>>]]
  /\ credit = [n \in RelayNode |-> [global |-> GlobalBurst, peers |-> [m \in RelayNode |-> PeerBurst]]]
  /\ relayed = {}

-----------------------------------------------------------------------------
(* build_onion and peel_onion.                                             *)

BuildOnion(source, path) ==
  [i \in DOMAIN path |->
     [key |-> {source, path[i]}, next |-> IF i < Len(path) THEN path[i + 1] ELSE NoHop]]

(* The layer was written by the source for n.                              *)
Opens(n, source, onion) == onion # <<>> /\ Head(onion).key = {source, n}

-----------------------------------------------------------------------------
(* RelayForwardLimiter.                                                    *)

Least(x, y) == IF x < y THEN x ELSE y

(* refill: what a bucket holds now.  Its age is that of updated_at and, in *)
(* the bucket of a peer, of last_seen: they are set together.              *)
Refill(b, rate, burst) ==
  <<Least(burst[1], b.tokens[1] + b.age * rate[1]), Least(burst[2], b.tokens[2] + b.age * rate[2])>>

Enough(tokens, bytes) == tokens[1] >= 1 /\ tokens[2] >= bytes

Spend(tokens, bytes) == <<tokens[1] - 1, tokens[2] - bytes>>

PurgeIdle(ps) == [m \in {x \in DOMAIN ps : ps[x].age < IdleTtl} |-> ps[m]]

(* The peers after a look-up of m that may have purged the idle ones.      *)
LookedUp(ps, m) ==
  IF m \notin DOMAIN ps /\ Cardinality(DOMAIN ps) >= MaxQuotaPeers THEN PurgeIdle(ps) ELSE ps

(* Bug variant of GlobalPays: it pays before the peer's bucket is looked   *)
(* at.                                                                     *)
GlobalPaysFirst(g, admitted, bytes) == Spend(g, bytes)

(* The global bucket pays for what the peer's bucket admits.               *)
GlobalPays(g, admitted, bytes) == IF admitted THEN Spend(g, bytes) ELSE g

(* allow: the verdict and the limiter after it.                            *)
Allow(q, m, bytes) ==
  LET g == Refill(q.global, GlobalRate, GlobalBurst)
      ps == LookedUp(q.peers, m)
      room == m \in DOMAIN ps \/ Cardinality(DOMAIN ps) < MaxQuotaPeers
      p == IF m \in DOMAIN ps THEN Refill(ps[m], PeerRate, PeerBurst) ELSE PeerBurst
      admitted == Enough(p, bytes)
      peersAfter == [x \in DOMAIN ps \cup {m} |->
                       IF x = m THEN [tokens |-> IF admitted THEN Spend(p, bytes) ELSE p, age |-> 0] ELSE ps[x]]
  IN  IF bytes > GlobalBurst[2] \/ bytes > PeerBurst[2]
      THEN [allowed |-> FALSE, q |-> q]
      ELSE IF ~Enough(g, bytes)
      THEN [allowed |-> FALSE, q |-> [q EXCEPT !.global = [tokens |-> g, age |-> 0]]]
      ELSE IF ~room
      THEN [allowed |-> FALSE, q |-> [global |-> [tokens |-> g, age |-> 0], peers |-> ps]]
      ELSE [allowed |-> admitted,
            q |-> [global |-> [tokens |-> GlobalPays(g, admitted, bytes), age |-> 0],
                   peers |-> peersAfter]]

-----------------------------------------------------------------------------
Payload(f) == RelayPayload(f.size, Len(f.onion))

(* The relay branch of tx_loop.                                            *)
RelaySend(r, size) ==
  LET f == [from |-> r.source, to |-> Head(r.path), source |-> r.source, size |-> size,
            onion |-> BuildOnion(r.source, r.path), path |-> r.path, trail |-> <<>>]
  IN  /\ Cardinality(wire) < MaxFlight
      /\ Len(r.path) <= MaxRelayDepth
      /\ FitsRoute(size, Underlay, Len(r.path), Bucket)
      /\ \A i \in DOMAIN r.path : r.path[i] \in KnownTo[r.source]
      /\ PaddedSize(Payload(f), Bucket) <= SessionMaxPayload
      /\ Head(r.path) \in ReachableFrom[r.source]
      /\ wire' = wire \cup {f}
      /\ relayed' = {}
      /\ UNCHANGED <<quota, credit>>

(* A frame is lost, or its session is gone when it arrives.                *)
RelayLose(f) ==
  /\ wire' = wire \ {f} /\ relayed' = {}
  /\ UNCHANGED <<quota, credit>>

Next_hop(f) == Head(f.onion).next

Peelable(f) == f.source \in KnownTo[f.to] /\ Opens(f.to, f.source, f.onion)

IsFinal(f) == Next_hop(f) = NoHop

(* handle_relay drops the frame before it asks for a quota.                *)
RelayDrop(f) ==
  /\ \/ ~Peelable(f)
     \/ Next_hop(f) = f.to
     \/ Next_hop(f) # NoHop /\ Next_hop(f) \notin ReachableFrom[f.to]
  /\ wire' = wire \ {f} /\ relayed' = {}
  /\ UNCHANGED <<quota, credit>>

OverlayMtu == SafeOverlayMtu(Underlay, MaxRelayDepth, Bucket)

(* The layer names no next hop: inject_inner_packet hands the packet to    *)
(* the adapter unless it is longer than the overlay MTU.                   *)
RelayDeliver(f) ==
  /\ Peelable(f) /\ IsFinal(f)
  /\ wire' = wire \ {f}
  /\ relayed' = IF f.size <= OverlayMtu
                  THEN {[node |-> f.to, path |-> f.path, trail |-> f.trail]} ELSE {}
  /\ UNCHANGED <<quota, credit>>

(* Both ideal buckets pay.                                                 *)
Paid(c, m, bytes) ==
  [global |-> Spend(c.global, bytes), peers |-> [c.peers EXCEPT ![m] = Spend(@, bytes)]]

(* The quota of the sender decides, and the inner layers go to the next    *)
(* hop unless encryption or the queue fails.                               *)
RelayForward(f, sent) ==
  LET n == f.to
      bytes == SessionFrameOverhead(Bucket) + RelayPayload(f.size, Len(f.onion) - 1)
      verdict == Allow(quota[n], f.from, bytes)
      fwd == [f EXCEPT !.from = n, !.to = Next_hop(f), !.onion = Tail(@), !.trail = Append(@, n)]
  IN  /\ Peelable(f) /\ ~IsFinal(f)
      /\ Next_hop(f) # n /\ Next_hop(f) \in ReachableFrom[n]
      /\ quota' = [quota EXCEPT ![n] = verdict.q]
      /\ credit' = IF verdict.allowed THEN [credit EXCEPT ![n] = Paid(@, f.from, bytes)] ELSE credit
      /\ wire' = IF verdict.allowed /\ sent THEN (wire \ {f}) \cup {fwd} ELSE wire \ {f}
      /\ relayed' = {}

RelayTick ==
  /\ quota' = [n \in RelayNode |->
       [global |-> [quota[n].global EXCEPT !.age = Least(@ + 1, IdleTtl)],
        peers |-> [m \in DOMAIN quota[n].peers |-> [quota[n].peers[m] EXCEPT !.age = Least(@ + 1, IdleTtl)]]]]
  /\ credit' = [n \in RelayNode |->
       [global |-> Refill([tokens |-> credit[n].global, age |-> 1], GlobalRate, GlobalBurst),
        peers |-> [m \in RelayNode |-> Refill([tokens |-> credit[n].peers[m], age |-> 1], PeerRate, PeerBurst)]]]
  /\ relayed' = {}
  /\ UNCHANGED wire

RelayNext ==
  \/ \E r \in RelayPaths : \E size \in RelaySizes : RelaySend(r, size)
  \/ \E f \in wire : RelayLose(f) \/ RelayDrop(f) \/ RelayDeliver(f) \/ \E sent \in BOOLEAN : RelayForward(f, sent)
  \/ RelayTick

-----------------------------------------------------------------------------
(* Types of the variables.                                                 *)
RelayTypeOK ==
  /\ Cardinality(wire) <= MaxFlight
  /\ \A n \in RelayNode :
       /\ quota[n].global.tokens \in (0 .. GlobalBurst[1]) \X (0 .. GlobalBurst[2])
       /\ Cardinality(DOMAIN quota[n].peers) <= MaxQuotaPeers
       /\ \A m \in DOMAIN quota[n].peers :
            quota[n].peers[m].tokens \in (0 .. PeerBurst[1]) \X (0 .. PeerBurst[2])

(* What the limiter holds for each sender, and for all of them, is exactly *)
(* what ideal token buckets would hold: refilling on use loses nothing, a  *)
(* bucket that was purged and made anew gives nothing away, and a packet   *)
(* that is refused, by whichever scope, costs nothing in either.           *)
QuotaExact ==
  \A n \in RelayNode :
    /\ Refill(quota[n].global, GlobalRate, GlobalBurst) = credit[n].global
    /\ \A m \in RelayNode :
         credit[n].peers[m] = IF m \in DOMAIN quota[n].peers
                              THEN Refill(quota[n].peers[m], PeerRate, PeerBurst) ELSE PeerBurst

(* No frame is longer than the underlay carries, at the source or at any   *)
(* relay, and the quota is never charged less than the frame's length.     *)
FitsUnderlay ==
  \A f \in wire :
    /\ DatagramSize(Payload(f), Bucket) <= Underlay
    /\ DatagramSize(Payload(f), Bucket) <= OuterOverhead + SessionFrameOverhead(Bucket) + Payload(f)

(* A packet reaches an adapter only at the end of the path that its source *)
(* chose, after every relay of the path forwarded it, once and in order.   *)
FollowsPath ==
  \A d \in relayed : d.trail \o <<d.node>> = d.path

(* Relays spend exactly their quota, on frames that fit, along the path    *)
(* that the source chose.                                                  *)
RelaySound == QuotaExact /\ FitsUnderlay /\ FollowsPath
=============================================================================
