----------------------------- MODULE PeerTable -----------------------------
(***************************************************************************)
(* merge_peer_table (peer_table.cpp), which turns what a neighbour         *)
(* advertises into relay candidates, and the part of PeerManager it uses   *)
(* (upsert).  An entry of a peer table is [node, path, offers]: the path   *)
(* is empty when the advertiser knows none, an offer is a record           *)
(* [prefix, seq, lease, metric].  A node and its public key are one value: *)
(* the key of an entry must hash to its node id, so that upsert meets no   *)
(* identity conflict.                                                      *)
(***************************************************************************)
EXTENDS Routing

CONSTANTS
  MaxPeers,     \* capacity of PeerManager
  MaxHops,      \* PEER_TABLE_MAX_PATH_HOPS
  MaxMetric,    \* ROUTE_MAX_METRIC
  LeaseTime,    \* ROUTE_DEFAULT_LEASE
  MaxLease      \* ROUTE_MAX_LEASE

ASSUME PeerTableAssumption == {MaxPeers, MaxHops, MaxMetric, LeaseTime, MaxLease} \subseteq Nat

(* upsert of a node without an endpoint: the peers known afterwards.       *)
Upsert(known, node) ==
  IF node \in known \/ Cardinality(known) >= MaxPeers THEN known ELSE known \cup {node}

(* The relay path through the sender.                                      *)
RelayPath(sender, entry) ==
  <<sender>> \o (IF entry.path = <<>> THEN <<entry.node>> ELSE entry.path)

(* Bug variant of PathUsable: a path may come back to this node.           *)
PathUsableThroughSelf(self, path, node) == LastHop(path) = node /\ LoopFree(path)

PathUsable(self, path, node) ==
  LastHop(path) = node /\ LoopFree(path) /\ self \notin Range(path)

(* Entries that speak of a third node; of the others nothing is taken.     *)
Foreign(self, sender, entry) ==
  entry.node \notin {self, sender} /\ Len(entry.path) <= MaxHops

(* Bug variant of RelayRoute: the lease starts afresh at every hop.        *)
RelayRouteFullLease(sender, entry, offer) ==
  NewRoute(offer.prefix, "Relay", RelayPath(sender, entry), offer.seq, LeaseTime,
           offer.metric + 1)

(* The candidate that an offer of an entry amounts to.                     *)
RelayRoute(sender, entry, offer) ==
  NewRoute(offer.prefix, "Relay", RelayPath(sender, entry), offer.seq, offer.lease,
           offer.metric + 1)

(* Whether the offer can be used at all.                                   *)
Usable(self, sender, entry, offer) ==
  /\ PathUsable(self, RelayPath(sender, entry), entry.node)
  /\ offer.lease > 0 /\ offer.lease <= MaxLease /\ offer.metric < MaxMetric

(* Learned candidates of the same origin and prefix.                       *)
Learned(rs, r) ==
  {rs[i] : i \in {j \in DOMAIN rs : /\ rs[j].type = "Relay" /\ rs[j].prefix = r.prefix
                                    /\ rs[j].destination = r.destination}}

(* What is done with a candidate, given the copy of the table that routes()*)
(* returned.  "add" covers the refresh of the candidate that is there.     *)
Verdict(copy, r) ==
  LET known == Learned(copy, r)
      same == {k \in known : k.next_hop = r.next_hop}
  IN  IF \E k \in known : r.seq < k.seq THEN "stale"
      ELSE IF \E k \in same : k.seq = r.seq /\ (k.path # r.path \/ k.metric # r.metric) THEN "malformed"
      ELSE IF \A k \in known : r.seq > k.seq THEN "newer"
      ELSE "add"

(* An offer merged in one go, when nothing runs in between.                *)
MergedOffer(rs, r) ==
  CASE Verdict(rs, r) = "newer" -> AddRoute(RemoveOlder(rs, r), r)
    [] Verdict(rs, r) = "add" -> AddRoute(rs, r)
    [] OTHER -> rs

(* Whether it counts as installed, and so as news: a refresh does not.     *)
Installs(rs, r) ==
  /\ Verdict(rs, r) \in {"newer", "add"}
  /\ r \in Range(MergedOffer(rs, r))
  /\ \A k \in Learned(rs, r) : k.next_hop = r.next_hop => k.seq # r.seq
=============================================================================
