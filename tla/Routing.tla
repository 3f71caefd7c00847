------------------------------ MODULE Routing ------------------------------
(***************************************************************************)
(* RoutingEngine (routing.cpp): routes_ as a sequence of records and every *)
(* operation, each one lock section, as an operator on it.  RouteProbes    *)
(* and Mesh are built from these operators.                                *)
(*                                                                         *)
(* The times of the code are kept as what is left of them, so that one     *)
(* tick of the clock changes the table (AgeRoutes):                        *)
(*                                                                         *)
(*   lease   until now - validated_at reaches the lease                    *)
(*   due     until now - last_probe_sent_at reaches PATH_PROBE_INTERVAL;   *)
(*           0 also for a route that was never probed                      *)
(*   hold    until probe_hold_down_until                                   *)
(*                                                                         *)
(* The origin of a route is its destination and the advertiser its next    *)
(* hop, as everywhere in the code.  RTTs and failure counts only feed the  *)
(* log.  An address is the set of the prefixes that contain it.            *)
(***************************************************************************)
EXTENDS Integers, Sequences, FiniteSets, FiniteSetsExt

CONSTANTS
  Prefix,          \* canonical prefixes
  Length,          \* their lengths: a function on Prefix
  MaxRoutes,       \* ROUTING_MAX_ROUTES
  MaxCandidates,   \* ROUTING_MAX_CANDIDATES_PER_PREFIX
  ProbeInterval,   \* PATH_PROBE_INTERVAL
  HoldDown         \* ROUTE_PROBE_HOLD_DOWN

ASSUME RoutingAssumption ==
  /\ Length \in [Prefix -> Nat]
  /\ MaxRoutes \in Nat /\ MaxCandidates \in Nat
  /\ ProbeInterval \in Nat \ {0} /\ HoldDown \in Nat \ {0}

LastHop(path) == path[Len(path)]

(* A new candidate as merge_peer_table and install_configured_routes make  *)
(* it: never probed.                                                       *)
NewRoute(prefix, type, path, seq, lease, metric) ==
  [prefix |-> prefix, type |-> type, next_hop |-> Head(path), destination |-> LastHop(path),
   path |-> path, seq |-> seq, lease |-> lease, metric |-> metric,
   due |-> 0, failed |-> FALSE, hold |-> 0]

LoopFree(path) == \A i, j \in DOMAIN path : path[i] = path[j] => i = j

(* learned_route_lease_expired                                             *)
LeaseExpired(r) == r.type = "Relay" /\ r.lease = 0

(* The checks at the beginning of add_route that NewRoute leaves open.     *)
Wellformed(r) ==
  IF r.type = "Relay" THEN Len(r.path) >= 2 /\ LoopFree(r.path)
                      ELSE Len(r.path) = 1

SameCandidate(r, s) ==
  /\ r.prefix = s.prefix /\ r.type = s.type
  /\ r.next_hop = s.next_hop /\ r.destination = s.destination

(* Bug variant of Refreshed: the refresh forgets the suppression.          *)
RefreshedForgets(old, r) == r

(* A candidate that replaces one of the same sequence keeps what the       *)
(* probes have found out.                                                  *)
Refreshed(old, r) ==
  IF r.seq = old.seq
  THEN [r EXCEPT !.due = old.due, !.failed = old.failed, !.hold = old.hold]
  ELSE r

(* add_route: the table afterwards, unchanged when the route is refused.   *)
AddRoute(rs, r) ==
  LET same == {i \in DOMAIN rs : SameCandidate(rs[i], r)}
      alike == {i \in DOMAIN rs : rs[i].prefix = r.prefix}
  IN  IF ~Wellformed(r) THEN rs
      ELSE IF same # {} THEN LET i == Min(same) IN [rs EXCEPT ![i] = Refreshed(@, r)]
      ELSE IF Len(rs) >= MaxRoutes \/ Cardinality(alike) >= MaxCandidates THEN rs
      ELSE Append(rs, r)

(* The n-th of the positions in keep.                                      *)
Place(keep, n) == CHOOSE i \in keep : Cardinality({j \in keep : j <= i}) = n

(* erase_if: the routes at the positions in keep, in their order.          *)
Kept(rs, keep) == [n \in 1 .. Cardinality(keep) |-> rs[Place(keep, n)]]

(* remove_route                                                            *)
RemoveRoute(rs, peer) ==
  Kept(rs, {i \in DOMAIN rs : rs[i].destination # peer /\ rs[i].next_hop # peer})

Older(r, new) ==
  /\ r.type = "Relay" /\ r.destination = new.destination /\ r.prefix = new.prefix
  /\ r.seq < new.seq

(* remove_older_learned_routes                                             *)
RemoveOlder(rs, new) == Kept(rs, {i \in DOMAIN rs : ~Older(rs[i], new)})

(* expire_learned_routes                                                   *)
ExpireLearned(rs) == Kept(rs, {i \in DOMAIN rs : ~LeaseExpired(rs[i])})

-----------------------------------------------------------------------------
(* What a probe is about: PathProbeTarget.                                 *)
TargetOf(r) ==
  [destination |-> r.destination, next_hop |-> r.next_hop, prefix |-> r.prefix, seq |-> r.seq]

(* The first route with that target, as a set of at most one index.        *)
Matching(rs, target) ==
  LET found == {i \in DOMAIN rs : TargetOf(rs[i]) = target}
  IN  IF found = {} THEN {} ELSE {Min(found)}

(* mark_probe_sent                                                         *)
MarkProbeSent(rs, target) ==
  [i \in DOMAIN rs |-> IF i \in Matching(rs, target)
                       THEN [rs[i] EXCEPT !.due = ProbeInterval] ELSE rs[i]]

(* record_probe_success: a suppressed candidate comes back only after its  *)
(* hold-down.                                                              *)
RecordSuccess(rs, target) ==
  [i \in DOMAIN rs |-> IF i \in Matching(rs, target) /\ rs[i].hold = 0
                       THEN [rs[i] EXCEPT !.failed = FALSE] ELSE rs[i]]

(* record_probe_failure                                                    *)
RecordFailure(rs, target) ==
  [i \in DOMAIN rs |-> IF i \in Matching(rs, target)
                       THEN [rs[i] EXCEPT !.failed = TRUE, !.hold = HoldDown] ELSE rs[i]]

-----------------------------------------------------------------------------
(* Bug variant of Beats: the length of the path is ignored.                *)
BeatsAnyRelay(r, best) ==
  \/ Length[r.prefix] > Length[best.prefix]
  \/ /\ Length[r.prefix] = Length[best.prefix]
     /\ r.type = "Direct" /\ best.type = "Relay"

(* The comparison inside find_route.                                       *)
Beats(r, best) ==
  \/ Length[r.prefix] > Length[best.prefix]
  \/ /\ Length[r.prefix] = Length[best.prefix]
     /\ \/ r.type = "Direct" /\ best.type = "Relay"
        \/ r.type = "Relay" /\ best.type = "Relay" /\ Len(r.path) < Len(best.path)

(* One turn of the loop of find_route, for an address of the prefixes in   *)
(* covers: the best route so far is a set of at most one.                  *)
Better(best, r, covers) ==
  IF r.failed \/ r.prefix \notin covers THEN best
  ELSE IF best = {} \/ \E b \in best : Beats(r, b) THEN {r}
  ELSE best

(* The check of the path at the end of find_route.                         *)
Forwardable(r) ==
  r.type = "Relay" =>
    /\ Len(r.path) >= 2 /\ Head(r.path) = r.next_hop /\ LastHop(r.path) = r.destination
    /\ LoopFree(r.path)

(* find_route: one pass over the table.                                    *)
FindRoute(rs, covers) ==
  LET best[n \in 0 .. Len(rs)] == IF n = 0 THEN {} ELSE Better(best[n - 1], rs[n], covers)
  IN  {r \in best[Len(rs)] : Forwardable(r)}

-----------------------------------------------------------------------------
Down(n) == IF n = 0 THEN 0 ELSE n - 1

(* One tick of the clock.                                                  *)
AgeRoutes(rs) ==
  [i \in DOMAIN rs |->
     [rs[i] EXCEPT !.lease = IF rs[i].type = "Relay" THEN Down(@) ELSE @,
                   !.due = Down(@), !.hold = Down(@)]]
=============================================================================
