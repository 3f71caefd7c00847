-------------------------------- MODULE Mesh --------------------------------
(***************************************************************************)
(* Several nodes that gossip their peer tables: gossip_loop, connect_loop, *)
(* announce_peer_table, send_peer_table and handle_peer_table of each,     *)
(* over Routing, PeerTable and Gossip.  Each node owns one prefix, named   *)
(* like the node, and advertises it with sequence 1, as every node does.   *)
(*                                                                         *)
(* A unit of time is a gossip interval.  In each, every node announces its *)
(* table to its neighbours once, in any order; every FullRounds-th         *)
(* announcement is full.  While its session is up, a connect_loop sends a  *)
(* full table to its peer and an announcement to the others twice a        *)
(* second; here this happens together with the announcements of the        *)
(* gossip_loop, so that what a node sends to the peers it has configured   *)
(* is always full.  A datagram is merged when it is sent or is lost.       *)
(* Links fail and come back, and the two ends notice on their own.         *)
(*                                                                         *)
(* What is said of one node does not affect what is said of another as     *)
(* long as the tables are not full, so a behaviour follows the routes to   *)
(* one of the nodes only (origin).                                         *)
(***************************************************************************)
EXTENDS PeerTable, Gossip

CONSTANTS
  Configured,   \* <<n, m>>: m is among the peers that n has configured
  Fragile,      \* for each node that is followed, the links that may fail
  FullRounds,   \* GOSSIP_FULL_RESYNC_ROUNDS
  Offsets,      \* how far the nodes may be apart in their rounds
  MaxLosses,    \* bound: datagrams lost
  MaxCuts       \* bound: links that fail

ASSUME MeshAssumption ==
  /\ Configured \subseteq Node \X Node
  /\ FullRounds \in Nat \ {0} /\ MaxLosses \in Nat /\ MaxCuts \in Nat
  /\ Offsets \subseteq [Node -> 0 .. FullRounds - 1]
  /\ DOMAIN Fragile \subseteq Node /\ Prefix = Node

VARIABLES
  origin,      \* the node whose prefix is followed
  up,          \* links that carry datagrams
  sessions,    \* for each node, the neighbours it has a session with
  routes,      \* for each node, RoutingEngine::routes_
  known,       \* for each node, the peers in PeerManager
  tracker,     \* for each node, its GossipDeltaTracker
  todo,        \* for each node, the recipients of the announcement under way
  full,        \* the nodes whose full announcement is under way
  round,       \* for each node, gossip_round_ modulo FullRounds
  losses, cuts,
  absent       \* for each node, the time since it had a direct route to it

vars == <<origin, up, sessions, routes, known, tracker, todo, full, round, losses, cuts, absent>>

(* There is a session between two nodes if one has configured the other.   *)
Links == {{c[1], c[2]} : c \in Configured}

Neighbours(n) == {m \in Node : {n, m} \in Links /\ m # n}

DirectRoute(m) == NewRoute(m, "Direct", <<m>>, 1, LeaseTime, 1)

(* install_configured_routes of n for those of the peers ms that it has    *)
(* configured.                                                             *)
InstallRoutes(rs, n, ms) ==
  FoldLeft(LAMBDA acc, m : AddRoute(acc, DirectRoute(m)), rs,
           SetToSortSeq({m \in ms \cap {origin} : <<n, m>> \in Configured}, <))

(* All sessions with configured peers are up, nothing is learned yet.      *)
Init ==
  /\ origin \in DOMAIN Fragile
  /\ up = Links
  /\ sessions = [n \in Node |-> Neighbours(n)]
  /\ routes = [n \in Node |-> InstallRoutes(<<>>, n, Neighbours(n))]
  /\ known = sessions
  /\ tracker = [n \in Node |-> NoGossip]
  /\ todo = [n \in Node |-> {}] /\ full = {}
  /\ round \in Offsets
  /\ losses = 0 /\ cuts = 0
  /\ absent = [n \in Node |-> 0]

-----------------------------------------------------------------------------
(* build_advertised_peers.                                                 *)

Before(x, y) == x.lease < y.lease \/ (x.lease = y.lease /\ x.metric < y.metric)

(* The prefixes of an entry after canonicalize: sorted, without repeats.   *)
Offers(rs) ==
  SetToSortSeq({[prefix |-> r.prefix, seq |-> r.seq, lease |-> r.lease, metric |-> r.metric] :
                  r \in Range(rs)}, Before)

(* The entry of a peer: the offers of all routes to it and the path of the *)
(* first.  The code counts the time gone in whole seconds, so that a lease *)
(* may gain a fraction of a second at each hop; a unit here is far longer. *)
EntryOf(rs, p) ==
  LET to == SelectSeq(rs, LAMBDA r : r.destination = p /\ ~LeaseExpired(r))
  IN  [node |-> p, path |-> IF to = <<>> THEN <<>> ELSE Head(to).path, offers |-> Offers(to)]

SelfEntry(n) ==
  [node |-> n, path |-> <<>>,
   offers |-> <<[prefix |-> n, seq |-> 1, lease |-> LeaseTime, metric |-> 0]>>]

AdvertisedPeers(n) ==
  [p \in (known[n] \cup {n}) \cap {origin} |-> IF p = n THEN SelfEntry(n) ELSE EntryOf(routes[n], p)]

-----------------------------------------------------------------------------
(* merge_peer_table at node m, entry by entry and offer by offer: the      *)
(* state is [routes, known, changed].                                      *)

MergeOffer(m, n, e, st, offer) ==
  LET r == RelayRoute(n, e, offer)
  IN  IF Usable(m, n, e, offer)
      THEN [st EXCEPT !.routes = MergedOffer(@, r), !.changed = @ \/ Installs(st.routes, r)]
      ELSE st

MergeEntry(m, n, st, e) ==
  LET peers == Upsert(st.known, e.node)
  IN  IF ~Foreign(m, n, e) \/ e.node \notin peers THEN st
      ELSE FoldLeft(LAMBDA s, o : MergeOffer(m, n, e, s, o),
                    [st EXCEPT !.known = peers, !.changed = @ \/ e.node \notin st.known],
                    e.offers)

(* handle_peer_table for the entries of the datagrams that arrived.        *)
MergeTable(m, n, entries) ==
  FoldLeft(LAMBDA st, e : MergeEntry(m, n, st, e),
           [routes |-> routes[m], known |-> known[m], changed |-> FALSE], entries)

(* The entries that m gets of the batches sent to it.                      *)
Arrived(n, m, t, batches, lost) ==
  LET got == SelectSeq([b \in DOMAIN batches |-> b], LAMBDA b : <<m, b>> \notin lost)
      nodes == FlattenSeq([i \in DOMAIN got |-> batches[got[i]]])
  IN  IF {n, m} \in up /\ n \in sessions[m]
      THEN [i \in DOMAIN nodes |-> t.current[nodes[i]]] ELSE <<>>

-----------------------------------------------------------------------------
(* Bug variant of FullNow: nothing but deltas is sent.                     *)
FullNowNever(n, m) == FALSE

(* What n sends to m is a full table: the announcement of this interval is *)
(* a full one, or comes from the connect_loop for m.                       *)
FullNow(n, m) == n \in full \/ <<n, m>> \in Configured

(* announce_peer_table of n: send_peer_table to each recipient.  A         *)
(* datagram is committed once it is queued, then lost or merged; news are  *)
(* passed on to the other neighbours of the receiver.                      *)
Announce(n) ==
  /\ todo[n] # {}
  /\ LET t == Observe(tracker[n], AdvertisedPeers(n))
         sent == [m \in todo[n] |-> Batches(Updates(t, m, FullNow(n, m)))]
         datagrams == UNION {{<<m, b>> : b \in DOMAIN sent[m]} : m \in todo[n]}
     IN  \E lost \in {S \in SUBSET datagrams : losses + Cardinality(S) <= MaxLosses} :
         \E merged \in {[m \in todo[n] |-> MergeTable(m, n, Arrived(n, m, t, sent[m], lost))]} :
           /\ losses' = losses + Cardinality(lost)
           /\ tracker' = [tracker EXCEPT ![n] = Committed(t, todo[n])]
           /\ routes' = [m \in Node |-> IF m \in todo[n] THEN merged[m].routes ELSE routes[m]]
           /\ known' = [m \in Node |-> IF m \in todo[n] THEN merged[m].known ELSE known[m]]
           /\ todo' = [m \in Node |->
                IF m = n THEN {}
                ELSE IF m \in todo[n] /\ merged[m].changed
                     THEN todo[m] \cup (sessions[m] \ {n}) ELSE todo[m]]
           /\ full' = full \ {n}
  /\ UNCHANGED <<origin, up, sessions, round, cuts, absent>>

(* No announcement is under way.                                           *)
Quiet == \A n \in Node : todo[n] = {}

(* gossip_round_, of which only the position in the cycle is told apart.   *)
NextRound(n) == (round[n] + 1) % FullRounds

(* A gossip interval is over at every node: leases run, the maintenance    *)
(* thread has expired what ran out, and everyone announces again.          *)
Tick ==
  /\ Quiet
  /\ routes' = [n \in Node |-> ExpireLearned(AgeRoutes(routes[n]))]
  /\ todo' = sessions
  /\ full' = {n \in Node : NextRound(n) = 0}
  /\ round' = [n \in Node |-> NextRound(n)]
  /\ absent' = [c \in Node |->
       IF \E n \in Node : \E i \in DOMAIN routes[n] : routes[n][i] = DirectRoute(c)
       THEN 0 ELSE IF absent[c] = LeaseTime THEN LeaseTime ELSE absent[c] + 1]
  /\ UNCHANGED <<origin, up, sessions, known, tracker, losses, cuts>>

-----------------------------------------------------------------------------
(* Links and sessions change between two announcements; during one it is   *)
(* the loss of datagrams.                                                  *)
Cut(l) ==
  /\ Quiet /\ cuts < MaxCuts /\ l \in up \cap Fragile[origin]
  /\ up' = up \ {l} /\ cuts' = cuts + 1
  /\ UNCHANGED <<origin, sessions, routes, known, tracker, todo, full, round, losses, absent>>

Mend(l) ==
  /\ Quiet /\ l \in Links \ up
  /\ up' = up \cup {l}
  /\ UNCHANGED <<origin, sessions, routes, known, tracker, todo, full, round, losses, cuts, absent>>

(* The maintenance thread of n finds its peer m silent for too long.  This *)
(* happens on the node with the higher NodeId only: the other one takes    *)
(* its failed rekeys for signs of life (PeerLifecycle).                    *)
Forget(n, m) ==
  /\ Quiet /\ m < n /\ m \in sessions[n] /\ {n, m} \notin up
  /\ sessions' = [sessions EXCEPT ![n] = @ \ {m}]
  /\ routes' = [routes EXCEPT ![n] = RemoveRoute(@, m)]
  /\ UNCHANGED <<origin, up, known, tracker, todo, full, round, losses, cuts, absent>>

(* n has configured m and lost its session, or is the one to rekey a       *)
(* session whose other end is gone.                                        *)
Initiates(n, m) ==
  \/ <<n, m>> \in Configured /\ m \notin sessions[n]
  \/ n < m /\ m \in sessions[n] /\ n \notin sessions[m]

(* A handshake that n initiates.  The connect_loops of those that have     *)
(* configured the other install their routes and announce their tables.    *)
Establish(n, m) ==
  /\ Quiet /\ {n, m} \in up /\ Initiates(n, m)
  /\ sessions' = [sessions EXCEPT ![n] = @ \cup {m}, ![m] = @ \cup {n}]
  /\ routes' = [routes EXCEPT ![n] = InstallRoutes(@, n, {m}), ![m] = InstallRoutes(@, m, {n})]
  /\ LET between == Configured \cap {<<n, m>>, <<m, n>>}
     IN  /\ todo' = [x \in Node |-> IF \E c \in between : c[1] = x THEN sessions'[x] ELSE {}]
         /\ absent' = [x \in Node |-> IF \E c \in between : c[2] = x THEN 0 ELSE absent[x]]
  /\ UNCHANGED <<origin, up, known, tracker, full, round, losses, cuts>>

Next ==
  \/ \E n \in Node : Announce(n)
  \/ Tick
  \/ \E l \in Links : Cut(l) \/ Mend(l)
  \/ \E n \in Node : \E m \in Neighbours(n) : Forget(n, m) \/ Establish(n, m)

Spec == Init /\ [][Next]_vars

Fairness ==
  /\ []<>Quiet
  /\ WF_vars(Tick)
  /\ SF_vars(\E n \in Node : \E m \in Neighbours(n) : Forget(n, m))
  /\ SF_vars(\E n \in Node : \E m \in Neighbours(n) : Establish(n, m))

FairSpec == Spec /\ Fairness

-----------------------------------------------------------------------------
(* Types of the variables.                                                 *)
TypeOK ==
  /\ origin \in DOMAIN Fragile
  /\ up \subseteq Links
  /\ sessions \in [Node -> SUBSET Node] /\ known \in [Node -> SUBSET Node]
  /\ todo \in [Node -> SUBSET Node] /\ full \subseteq Node
  /\ round \in [Node -> 0 .. FullRounds - 1]
  /\ losses \in 0 .. MaxLosses /\ cuts \in 0 .. MaxCuts
  /\ absent \in [Node -> 0 .. LeaseTime]
  /\ \A n \in Node : \A m \in Node : tracker[n].clean[m] \subseteq DOMAIN tracker[n].current
  /\ \A n \in Node : \A i \in DOMAIN routes[n] :
       LET r == routes[n][i]
       IN  /\ {r.next_hop, r.destination} \subseteq Node /\ r.prefix = r.destination
           /\ r.lease \in 0 .. LeaseTime /\ r.metric \in 1 .. MaxMetric

(* What the nodes say of a node that no one reaches directly any more is   *)
(* forgotten on time: no exchange among them makes a lease longer, however *)
(* they repeat each other.                                                 *)
NoEcho ==
  \A n \in Node : \A i \in DOMAIN routes[n] :
    routes[n][i].type = "Relay" =>
      routes[n][i].lease <= LeaseTime - absent[routes[n][i].destination]

(* Paths are loop-free, start at a neighbour and follow configured links.  *)
PathsFollowLinks ==
  \A n \in Node : \A i \in DOMAIN routes[n] :
    LET p == <<n>> \o routes[n][i].path
    IN  LoopFree(p) /\ \A k \in 1 .. Len(p) - 1 : {p[k], p[k + 1]} \in Links

(* What the nodes have learned from each other stays true of the mesh: no  *)
(* path that does not exist, no route kept alive by its own echo.          *)
LearnedSound == TypeOK /\ NoEcho /\ PathsFollowLinks

(* The nodes joined with n by links that work: in every set that contains  *)
(* n and is closed under them.                                             *)
Reach(n) ==
  {m \in Node : \A S \in SUBSET Node :
     n \in S /\ (\A l \in up : l \cap S # {} => l \subseteq S) => m \in S}

(* n has configured a node of a higher NodeId and has not noticed that the *)
(* link is down: it keeps its direct route, and the others what they learn *)
(* of it.                                                                  *)
Unnoticed(n, m) == n < m /\ <<n, m>> \in Configured /\ m \in sessions[n]

(* Every node has a route to each node it is connected with, and all its   *)
(* routes go over links that work, to a last one that may be unnoticed.    *)
Settled ==
  \A n \in Node :
    /\ \A c \in (Reach(n) \cap {origin}) \ {n} : FindRoute(routes[n], {c}) # {}
    /\ \A i \in DOMAIN routes[n] :
         LET p == <<n>> \o routes[n][i].path
         IN  \A k \in 1 .. Len(p) - 1 :
               {p[k], p[k + 1]} \in up \/ (k = Len(p) - 1 /\ Unnoticed(p[k], p[k + 1]))

(* When losses and failures have ended, every node comes to have a route   *)
(* to each node it is connected with, over links that work, and none to    *)
(* any other, for good: the full tables repair lost deltas, and leases     *)
(* clear what is out of date.  A direct route that the lower NodeId does   *)
(* not give up is left to the probes, which are not part of this module.   *)
Converges == <>[]Settled
=============================================================================
