---------------------------- MODULE RouteProbes ----------------------------
(***************************************************************************)
(* The routing table of one node while two threads work on it: the receive *)
(* thread merges peer tables and takes in the answers to path probes, the  *)
(* maintenance thread drops dead peers and expired leases, times probes    *)
(* out and sends new ones.  Each step is one lock section of RoutingEngine *)
(* or PathProbeTracker, so that either thread may find the table changed   *)
(* since it looked.                                                        *)
(*                                                                         *)
(* A probe goes out along the path of its candidate, and its answer takes  *)
(* the best usable route that the other end has.  Over some next hops      *)
(* probes stay unanswered, be it that nothing gets through or that the     *)
(* other end has no usable route; ProbePair has both ends.  Which next     *)
(* hops these are changes as long as faults are left.  Time advances       *)
(* between the rounds of the maintenance thread.                           *)
(***************************************************************************)
EXTENDS PeerTable

CONSTANTS
  Node, Self,
  Direct,          \* neighbours: configured peers
  OwnPrefix,       \* the configured prefix of each: a function on Direct
  Adverts,         \* entries that neighbours send: [sender, entry], one offer each
  ProbeId,         \* identifiers of probes in use at a time
  MaxPending,      \* PATH_PROBE_MAX_PENDING
  ProbeTimeout,    \* PATH_PROBE_TIMEOUT
  MaxFaults        \* bound: failures of paths, late answers, removals

(* The peers known from the start.                                         *)
NextHops == Direct \cup {a.sender : a \in Adverts}

ASSUME RouteProbesAssumption ==
  /\ Self \in Node /\ Direct \subseteq Node \ {Self} /\ OwnPrefix \in [Direct -> Prefix]
  /\ ProbeId \subseteq Nat /\ {ProbeTimeout, MaxPending, MaxFaults} \subseteq Nat
  /\ \A a \in Adverts :
       /\ {a.sender, a.entry.node} \subseteq Node /\ a.entry.path \in Seq(Node)
       /\ Len(a.entry.offers) = 1
       /\ a.entry.offers[1] \in [prefix : Prefix, seq : Nat \ {0}, lease : Nat, metric : Nat]
  /\ IsFiniteSet(NextHops) /\ Cardinality(NextHops) <= MaxPeers

VARIABLES
  routes,      \* RoutingEngine::routes_
  peers,       \* PeerManager: the nodes known
  probes,      \* PathProbeTracker::pending_: [target, left]
  answers,     \* the probes whose answer is under way
  silent,      \* next hops over which probes stay unanswered
  rx,          \* the receive thread
  mt,          \* the maintenance thread
  faults

vars == <<routes, peers, probes, answers, silent, rx, mt, faults>>

Idle == [pc |-> "idle"]

(* The configured route to a peer: install_configured_routes.              *)
ConfiguredRoute(p) == NewRoute(OwnPrefix[p], "Direct", <<p>>, 1, LeaseTime, 1)

Init ==
  /\ routes = <<>> /\ peers = NextHops
  /\ probes = <<>> /\ answers = {} /\ silent = {}
  /\ rx = Idle /\ mt = Idle /\ faults = 0

-----------------------------------------------------------------------------
(* The receive thread, and the connect thread for configured peers.        *)

(* connect_loop after a handshake with p.                                  *)
Install(p) ==
  /\ p \in Direct
  /\ AddRoute(routes, ConfiguredRoute(p)) # routes
  /\ routes' = AddRoute(routes, ConfiguredRoute(p))
  /\ UNCHANGED <<peers, probes, answers, silent, rx, mt, faults>>

(* merge_peer_table up to the copy of the table: the peer is entered, the  *)
(* candidate judged by what routes() returned.                             *)
MergeCopy(a) ==
  LET e == a.entry
      r == RelayRoute(a.sender, e, e.offers[1])
  IN  /\ rx = Idle
      /\ Foreign(Self, a.sender, e)
      /\ peers' = Upsert(peers, e.node)
      /\ rx' = IF e.node \in peers' /\ Usable(Self, a.sender, e, e.offers[1])
               THEN CASE Verdict(routes, r) = "newer" -> [pc |-> "older", route |-> r]
                      [] Verdict(routes, r) = "add" -> [pc |-> "add", route |-> r]
                      [] OTHER -> Idle
               ELSE Idle
      /\ UNCHANGED <<routes, probes, answers, silent, mt, faults>>

MergeOlder ==
  /\ rx.pc = "older"
  /\ routes' = RemoveOlder(routes, rx.route)
  /\ rx' = [rx EXCEPT !.pc = "add"]
  /\ UNCHANGED <<peers, probes, answers, silent, mt, faults>>

MergeAdd ==
  /\ rx.pc = "add"
  /\ routes' = AddRoute(routes, rx.route)
  /\ rx' = Idle
  /\ UNCHANGED <<peers, probes, answers, silent, mt, faults>>

Cancel(f, id) == [i \in DOMAIN f \ {id} |-> f[i]]

(* acknowledge in handle_path_probe.  The answer names the probe, and the  *)
(* sequence it echoes is that of the probe.                                *)
Acknowledge(id) ==
  /\ rx = Idle /\ id \in answers
  /\ answers' = answers \ {id}
  /\ IF id \in DOMAIN probes /\ probes[id].left > 0
     THEN /\ rx' = [pc |-> "success", target |-> probes[id].target]
          /\ probes' = Cancel(probes, id)
     ELSE UNCHANGED <<rx, probes>>
  /\ UNCHANGED <<routes, peers, silent, mt, faults>>

Success ==
  /\ rx.pc = "success"
  /\ routes' = RecordSuccess(routes, rx.target)
  /\ rx' = Idle
  /\ UNCHANGED <<peers, probes, answers, silent, mt, faults>>

-----------------------------------------------------------------------------
(* A round of the maintenance thread.                                      *)

(* A neighbour has been silent for too long: remove_route.                 *)
RemoveDead(p) ==
  /\ mt.pc = "round" /\ faults < MaxFaults
  /\ RemoveRoute(routes, p) # routes
  /\ routes' = RemoveRoute(routes, p)
  /\ faults' = faults + 1
  /\ UNCHANGED <<peers, probes, answers, silent, rx, mt>>

ExpireRoutes ==
  /\ mt.pc = "round"
  /\ routes' = ExpireLearned(routes)
  /\ mt' = [pc |-> "expire"]
  /\ UNCHANGED <<peers, probes, answers, silent, rx, faults>>

Late == {id \in DOMAIN probes : probes[id].left = 0}

(* PathProbeTracker::expire.                                               *)
ExpireProbes ==
  /\ mt.pc = "expire"
  /\ probes' = [id \in DOMAIN probes \ Late |-> probes[id]]
  /\ mt' = [pc |-> "fail", targets |-> {probes[id].target : id \in Late}]
  /\ UNCHANGED <<routes, peers, answers, silent, rx, faults>>

Failure ==
  /\ mt.pc = "fail"
  /\ \E t \in mt.targets :
       /\ routes' = RecordFailure(routes, t)
       /\ mt' = [mt EXCEPT !.targets = @ \ {t}]
  /\ UNCHANGED <<peers, probes, answers, silent, rx, faults>>

PendingTargets == {probes[id].target : id \in DOMAIN probes}

(* Bug variant of Due: a suppressed candidate is not probed any more.      *)
DueUnlessFailed(r) == ~LeaseExpired(r) /\ ~r.failed /\ r.due = 0

Due(r) == ~LeaseExpired(r) /\ r.hold = 0 /\ r.due = 0

(* The copy that the loop of probe_due_routes goes over.  What it skips    *)
(* for the times in the copy is left out at once.                          *)
CopyRoutes ==
  /\ mt.pc = "fail" /\ mt.targets = {}
  /\ mt' = [pc |-> "loop", copy |-> LET due == Kept(routes, {i \in DOMAIN routes : Due(routes[i])})
                                   IN  [i \in DOMAIN due |-> TargetOf(due[i])]]
  /\ UNCHANGED <<routes, peers, probes, answers, silent, rx, faults>>

(* The loop is over at the end of the copy.                                *)
RoundEnds ==
  /\ mt.pc = "loop" /\ mt.copy = <<>>
  /\ mt' = Idle
  /\ UNCHANGED <<routes, peers, probes, answers, silent, rx, faults>>

(* contains_target and begin.                                              *)
CanBegin(t) == t \notin PendingTargets /\ Cardinality(DOMAIN probes) < MaxPending

SkipRoute ==
  /\ mt.pc = "loop" /\ mt.copy # <<>>
  /\ ~CanBegin(Head(mt.copy))
  /\ mt' = [mt EXCEPT !.copy = Tail(@)]
  /\ UNCHANGED <<routes, peers, probes, answers, silent, rx, faults>>

Begin(f, id, t) ==
  [i \in DOMAIN f \cup {id} |-> IF i = id THEN [target |-> t, left |-> ProbeTimeout] ELSE f[i]]

(* begin under a fresh identifier, then send_path_probe.                   *)
SendProbe ==
  /\ mt.pc = "loop" /\ mt.copy # <<>>
  /\ LET t == Head(mt.copy)
         free == ProbeId \ (DOMAIN probes \cup answers)
         id == Min(free)
     IN  /\ CanBegin(t) /\ free # {}
         /\ probes' = Begin(probes, id, t)
         /\ answers' = IF t.next_hop \in silent THEN answers ELSE answers \cup {id}
         /\ mt' = [pc |-> "sent", copy |-> Tail(mt.copy), id |-> id, target |-> t]
  /\ UNCHANGED <<routes, peers, silent, rx, faults>>

(* send_path_probe fails (no session, no endpoint, a hop unknown) and the  *)
(* probe is cancelled.                                                     *)
SendFails ==
  /\ mt.pc = "loop" /\ mt.copy # <<>> /\ faults < MaxFaults
  /\ CanBegin(Head(mt.copy))
  /\ faults' = faults + 1
  /\ mt' = [mt EXCEPT !.copy = Tail(@)]
  /\ UNCHANGED <<routes, peers, probes, answers, silent, rx>>

(* mark_probe_sent, or cancel when the candidate is gone.                  *)
MarkSent ==
  /\ mt.pc = "sent"
  /\ routes' = MarkProbeSent(routes, mt.target)
  /\ probes' = IF Matching(routes, mt.target) = {} THEN Cancel(probes, mt.id) ELSE probes
  /\ mt' = [pc |-> "loop", copy |-> mt.copy]
  /\ UNCHANGED <<peers, answers, silent, rx, faults>>

-----------------------------------------------------------------------------
(* The environment.                                                        *)

(* A path breaks, or an end loses its usable routes to this node, and it   *)
(* recovers.  The answers under way are lost.                              *)
FallSilent(p) ==
  /\ faults < MaxFaults /\ p \notin silent
  /\ faults' = faults + 1
  /\ silent' = silent \cup {p}
  /\ answers' = {id \in answers : id \in DOMAIN probes => probes[id].target.next_hop # p}
  /\ UNCHANGED <<routes, peers, probes, rx, mt>>

Recover(p) ==
  /\ p \in silent
  /\ silent' = silent \ {p}
  /\ UNCHANGED <<routes, peers, probes, answers, rx, mt, faults>>

(* A second passes and the next round is due.  An answer over a path that  *)
(* works is faster than that, unless a fault delays it.                    *)
Tick ==
  /\ mt = Idle /\ rx = Idle
  /\ answers # {} => faults < MaxFaults
  /\ faults' = IF answers = {} THEN faults ELSE faults + 1
  /\ routes' = AgeRoutes(routes)
  /\ probes' = [id \in DOMAIN probes |-> [probes[id] EXCEPT !.left = Down(@)]]
  /\ mt' = [pc |-> "round"]
  /\ UNCHANGED <<peers, answers, silent, rx>>

ReceiveThread ==
  \/ \E a \in Adverts : MergeCopy(a)
  \/ MergeOlder \/ MergeAdd
  \/ \E id \in ProbeId : Acknowledge(id)
  \/ Success

MaintenanceThread ==
  \/ ExpireRoutes \/ ExpireProbes \/ Failure \/ CopyRoutes
  \/ RoundEnds \/ SkipRoute \/ SendProbe \/ MarkSent

Next ==
  \/ \E p \in Direct : Install(p)
  \/ ReceiveThread \/ MaintenanceThread
  \/ \E p \in Direct : RemoveDead(p)
  \/ SendFails
  \/ \E p \in NextHops : FallSilent(p) \/ Recover(p)
  \/ Tick

-----------------------------------------------------------------------------
Has(t) == Matching(routes, t) # {}

Failed(t) == \E i \in Matching(routes, t) : routes[i].failed

ProbeTargets ==
  {TargetOf(ConfiguredRoute(p)) : p \in Direct}
    \cup {TargetOf(RelayRoute(a.sender, a.entry, a.entry.offers[1])) : a \in Adverts}

(* Types of the variables.                                                 *)
TypeOK ==
  /\ \A i \in DOMAIN routes :
       /\ routes[i].prefix \in Prefix /\ routes[i].type \in {"Direct", "Relay"}
       /\ routes[i].due \in 0 .. ProbeInterval /\ routes[i].hold \in 0 .. HoldDown
       /\ routes[i].failed \in BOOLEAN /\ TargetOf(routes[i]) \in ProbeTargets
  /\ Cardinality(peers) <= MaxPeers
  /\ DOMAIN probes \subseteq ProbeId /\ answers \subseteq ProbeId
  /\ \A id \in DOMAIN probes :
       probes[id].target \in ProbeTargets /\ probes[id].left \in 0 .. ProbeTimeout
  /\ silent \subseteq NextHops /\ faults \in 0 .. MaxFaults
  /\ rx.pc \in {"idle", "older", "add", "success"}
  /\ mt.pc \in {"idle", "round", "expire", "fail", "loop", "sent"}

(* The table never holds two learned candidates of one origin and prefix   *)
(* with different sequences: a newer advertisement ends the older ones of  *)
(* every neighbour, and an older one is refused, although the decision is  *)
(* taken on a copy of the table.                                           *)
OneSequence ==
  \A i \in DOMAIN routes : routes[i].type = "Relay" =>
    \A r \in Learned(routes, routes[i]) : r.seq = routes[i].seq

(* Every path in the table can be walked: it leads from the next hop to    *)
(* the destination, visits no node twice and does not come back here; a    *)
(* candidate is listed once; the limits hold; learned candidates of one    *)
(* prefix have one sequence.                                               *)
TableSound ==
  /\ TypeOK /\ OneSequence
  /\ Len(routes) <= MaxRoutes
  /\ \A i \in DOMAIN routes :
       /\ LET p == routes[i].path
          IN  /\ Head(p) = routes[i].next_hop /\ LastHop(p) = routes[i].destination
              /\ LoopFree(p) /\ Self \notin Range(p)
       /\ \A j \in DOMAIN routes : SameCandidate(routes[i], routes[j]) => i = j
       /\ Cardinality({j \in DOMAIN routes : routes[j].prefix = routes[i].prefix})
            <= MaxCandidates

(* find_route returns a best candidate whatever the order of the table:    *)
(* not suppressed, of the longest prefix, direct if there is a direct one, *)
(* otherwise with the fewest hops; and nothing only if there is nothing.   *)
BestRoute ==
  \A covers \in SUBSET Prefix :
    LET usable == {r \in Range(routes) : ~r.failed /\ r.prefix \in covers}
        found == FindRoute(routes, covers)
        Rank(r) == <<Length[r.prefix], IF r.type = "Direct" THEN 1 ELSE 0,
                     IF r.type = "Direct" THEN 0 ELSE 0 - Len(r.path)>>
        NotAbove(x, y) == \/ x[1] < y[1]
                          \/ x[1] = y[1] /\ (x[2] < y[2] \/ (x[2] = y[2] /\ x[3] <= y[3]))
    IN  /\ found \subseteq usable
        /\ found = {} => usable = {}
        /\ \A f \in found, r \in usable : NotAbove(Rank(r), Rank(f))

(* A suppressed candidate that stays in the table with its sequence comes  *)
(* back into use only after its hold-down: no refresh by a peer table and  *)
(* no late or repeated answer ends the suppression early.                  *)
HoldDownKept ==
  [][\A t \in ProbeTargets :
       \A i \in Matching(routes, t) :
         routes[i].failed /\ routes[i].hold > 0 /\ Matching(routes, t)' # {} =>
           Failed(t)']_vars

(* Suppression follows the probes: a candidate that stays in the table     *)
(* and whose probes stay unanswered is suppressed in the end and stays so, *)
(* and one whose probes are answered is in use in the end, because probing *)
(* goes on after the hold-down and one answer in time ends it.             *)
SuppressionFollowsPath ==
  \A t \in ProbeTargets :
    /\ <>[](Has(t) /\ t.next_hop \in silent) => <>[]Failed(t)
    /\ <>[](Has(t) /\ t.next_hop \notin silent) => <>[]~Failed(t)
=============================================================================
