---------------------------- MODULE EndpointPunch ---------------------------
(***************************************************************************)
(* Where a node believes one established, configured peer to be: the       *)
(* endpoint in the peer record, the candidates that the peer announced,    *)
(* authenticated UDP punching (EndpointPunchTracker), LAN presence, which  *)
(* may say anything, and the handshakes of connect_loop and rekey_peer.    *)
(* The peer moves, and datagrams are lost and delayed.                     *)
(*                                                                         *)
(* At most one transaction is pending for an endpoint, so pending_ is a    *)
(* function on endpoints; a challenge or response is live as long as its   *)
(* random id is the one that pending_ holds.                               *)
(*                                                                         *)
(* A handler or a maintenance round is one step.  Ages stop growing where  *)
(* the code no longer tells them apart.                                    *)
(***************************************************************************)
EXTENDS Integers, Sequences, FiniteSets

CONSTANTS
  Address,          \* endpoints
  Places,           \* sets of endpoints at which the peer may be reached
  Announced,        \* candidate lists that the peer may announce
  MaxCandidateCount,\* ENDPOINT_CANDIDATE_MAX_COUNT
  MaxPunches, PunchTimeout,   \* EndpointPunchTracker
  PunchGap,         \* seconds between two rounds, ENDPOINT_BINDING_REFRESH_MS
  MaxWire, MaxMoves \* bounds: datagrams on the wire, moves of the peer

NoAddress == "none"

ASSUME PunchAssumption ==
  /\ {MaxCandidateCount, MaxPunches, PunchTimeout, PunchGap} \subseteq Nat \ {0}
  /\ NoAddress \notin Address /\ \A p \in Places : p # {} /\ p \subseteq Address

VARIABLES
  rec,        \* the Peer record: [endpoint, path, candidates]
  pending,    \* EndpointPunchTracker::pending_: the endpoints challenged, with the age
  attempt,    \* age of the last punch round with the peer, at most PunchGap
  refresh,    \* age of its last binding refresh, at most PunchGap
  presence,   \* the endpoint in the peer's last presence, or NoAddress
  trial,      \* the endpoint that a handshake_peer under way copied, or NoAddress
  net,        \* datagrams on their way
  where,      \* endpoints at which the peer is
  moves,
  been,       \* history: endpoints at which the peer has been
  asked       \* history: for each endpoint, age of the last challenge sent to it

punchVars == <<rec, pending, attempt, refresh, presence, trial, net, where, moves, been, asked>>

Candidate(e, priority) == [endpoint |-> e, priority |-> priority]

(* The session is new; the endpoint is the configured one, wherever the    *)
(* peer may be.                                                            *)
PunchInit ==
  /\ where \in Places /\ been = where /\ moves = 0
  /\ rec \in [endpoint : Address, path : {"Direct"}, candidates : {<<>>}]
  /\ pending = <<>>
  /\ attempt = PunchGap /\ refresh = PunchGap
  /\ presence = NoAddress /\ trial = NoAddress
  /\ net = {}
  /\ asked = [e \in Address |-> PunchTimeout]

-----------------------------------------------------------------------------
(* merge_endpoint_candidate: a candidate of the same endpoint is replaced, *)
(* else the new one is added, in the place of the lowest if there is no    *)
(* room; then a stable sort by priority.                                   *)
MergeCandidate(list, c) ==
  LET same == {i \in DOMAIN list : list[i].endpoint = c.endpoint}
      lowest == CHOOSE i \in DOMAIN list :
                  /\ \A j \in DOMAIN list : list[i].priority <= list[j].priority
                  /\ \A j \in 1 .. i - 1 : list[j].priority > list[i].priority
      merged == IF same # {} THEN [list EXCEPT ![CHOOSE i \in same : TRUE] = c]
                ELSE IF Len(list) < MaxCandidateCount THEN Append(list, c)
                ELSE [list EXCEPT ![lowest] = c]
      Above(i, j) == merged[i].priority > merged[j].priority
                       \/ (merged[i].priority = merged[j].priority /\ i < j)
      Ranked(i) == CHOOSE j \in DOMAIN merged : Cardinality({k \in DOMAIN merged : Above(k, j)}) = i - 1
  IN  [i \in DOMAIN merged |-> merged[Ranked(i)]]

(* Bug variant of MarkSeen: the endpoint in use is kept.                   *)
MarkSeenKeeps(r, e) == [r EXCEPT !.path = IF @ = "Unknown" THEN "Direct" ELSE @]

(* PeerManager::mark_seen with the sender's endpoint.                      *)
MarkSeen(r, e) ==
  [r EXCEPT !.endpoint = e, !.path = IF r.endpoint # e \/ @ = "Unknown" THEN "Direct" ELSE @]

(* PeerManager::update_endpoint.                                           *)
UpdateEndpoint(r, e) == [r EXCEPT !.endpoint = e, !.path = IF r.endpoint # e THEN "Unknown" ELSE @]

(* refresh_endpoints_from_discovery, for the last presence p.              *)
RefreshFromDiscovery(r, p) == IF p \in {NoAddress, r.endpoint} THEN r ELSE UpdateEndpoint(r, p)

-----------------------------------------------------------------------------
(* begin_endpoint_punching.                                                *)

(* The endpoints of a round: the candidates and the endpoint in use.       *)
Targets(r) ==
  LET listed == [i \in DOMAIN r.candidates |-> r.candidates[i].endpoint]
  IN  IF \E i \in DOMAIN listed : listed[i] = r.endpoint THEN listed ELSE Append(listed, r.endpoint)

(* The transactions of the endpoints in es are no longer the pending ones. *)
Stale(n, es) == {IF d.to \in es THEN [d EXCEPT !.live = FALSE] ELSE d : d \in n}

Datagram(kind, from, to, list) == [kind |-> kind, from |-> from, to |-> to, list |-> list, live |-> TRUE]

(* The targets that get a transaction, in their order and as long as there *)
(* is room: those not pending yet.  Where no random id can be drawn or the *)
(* challenge cannot be sent, begin is undone: only sendable ones count.    *)
Begun(targets, pend, sendable) ==
  LET fresh == {i \in DOMAIN targets : /\ targets[i] \in sendable \ DOMAIN pend
                                       /\ \A j \in 1 .. i - 1 : targets[j] # targets[i]}
      Before(i) == Cardinality({j \in fresh : j < i})
  IN  {targets[i] : i \in {k \in fresh : Cardinality(DOMAIN pend) + Before(k) < MaxPunches}}

(* A round with the record r, from the pending transactions pend and the   *)
(* wire n, unless the last one is too recent.  Some challenges may be lost *)
(* at once, which also keeps to the bound on the wire.                     *)
Punch(r, pend, n) ==
  \/ attempt < PunchGap /\ pending' = pend /\ net' = n /\ UNCHANGED <<attempt, asked>>
  \/ /\ attempt = PunchGap /\ attempt' = 0
     /\ \E sendable \in SUBSET Address :
          LET begun == Begun(Targets(r), pend, sendable)
          IN  /\ pending' = [e \in DOMAIN pend \cup begun |-> IF e \in begun THEN 0 ELSE pend[e]]
              /\ asked' = [e \in Address |-> IF e \in begun THEN 0 ELSE asked[e]]
              /\ \E out \in SUBSET begun :
                   /\ Cardinality(n) + Cardinality(out) <= MaxWire
                   /\ net' = n \cup {Datagram("challenge", NoAddress, e, <<>>) : e \in out}

-----------------------------------------------------------------------------
(* The peer and the network.                                               *)

PeerUnchanged == UNCHANGED <<rec, pending, attempt, refresh, asked>>

PeerMoves(p) ==
  /\ moves < MaxMoves /\ p # where
  /\ where' = p /\ been' = been \cup p /\ moves' = moves + 1
  /\ PeerUnchanged /\ UNCHANGED <<presence, trial, net>>

(* The peer sends a frame of its session, or its candidates.               *)
PeerSends(d) ==
  /\ d.from \in where /\ Cardinality(net) < MaxWire
  /\ net' = net \cup {d}
  /\ PeerUnchanged /\ UNCHANGED <<presence, trial, where, moves, been>>

(* The peer gets a challenge and answers it, maybe from another endpoint.  *)
PeerAnswers(d, e) ==
  /\ d.kind = "challenge" /\ {d.to, e} \subseteq where
  /\ net' = (net \ {d}) \cup {[d EXCEPT !.kind = "response", !.from = e]}
  /\ PeerUnchanged /\ UNCHANGED <<presence, trial, where, moves, been>>

Loses(d) ==
  /\ net' = net \ {d}
  /\ PeerUnchanged /\ UNCHANGED <<presence, trial, where, moves, been>>

(* A presence of the peer is heard on the LAN: on_presence.  Nothing shows *)
(* that the peer sent it.                                                  *)
OnPresence(e) ==
  /\ presence' = e
  /\ PeerUnchanged /\ UNCHANGED <<trial, net, where, moves, been>>

Away == UNCHANGED <<presence, trial, where, moves, been>>

-----------------------------------------------------------------------------
(* The receive thread.                                                     *)

(* Data, keep-alives and the other frames that name the sender.            *)
TakeFrame(d) ==
  /\ d.kind = "frame"
  /\ rec' = MarkSeen(rec, d.from)
  /\ net' = net \ {d}
  /\ UNCHANGED <<pending, attempt, refresh, asked>> /\ Away

(* The same for a frame that arrives as soon as it is sent.                *)
FrameArrives(e) ==
  /\ e \in where
  /\ rec' = MarkSeen(rec, e)
  /\ UNCHANGED <<pending, attempt, refresh, net, asked>> /\ Away

(* set_endpoint_candidates: the endpoint in use is left alone.             *)
TakenOver(r, list) == [r EXCEPT !.candidates = list]

(* handle_endpoint_candidates_frame about the peer itself.                 *)
TakeCandidates(d) ==
  LET r == TakenOver(rec, MergeCandidate(d.list, Candidate(d.from, 400)))
  IN  /\ d.kind = "candidates"
      /\ rec' = r
      /\ Punch(r, pending, net \ {d})
      /\ UNCHANGED refresh /\ Away

(* Bug variant of Acknowledges: the deadline is left to expire.            *)
AcknowledgesLate(d) == d.live /\ d.to \in DOMAIN pending /\ d.from = d.to

(* EndpointPunchTracker::acknowledge.                                      *)
Acknowledges(d) ==
  /\ d.live /\ d.to \in DOMAIN pending
  /\ d.from = d.to
  /\ pending[d.to] < PunchTimeout

Without(p, es) == [e \in DOMAIN p \ es |-> p[e]]

(* handle_endpoint_punch_frame with a response.                            *)
TakeResponse(d) ==
  /\ d.kind = "response"
  /\ IF Acknowledges(d)
     THEN /\ pending' = Without(pending, {d.to})
          /\ rec' = [rec EXCEPT !.endpoint = d.from, !.path = "HolePunched"]
          /\ net' = Stale(net \ {d}, {d.to})
     ELSE UNCHANGED <<pending, rec>> /\ net' = net \ {d}
  /\ UNCHANGED <<attempt, refresh, asked>> /\ Away

-----------------------------------------------------------------------------
(* handshake_peer, in a connect_loop or as a rekey: the endpoint is copied *)
(* when it begins and marked as seen when it has succeeded, for which it   *)
(* is enough that there is a session in the end.                           *)
AttemptBegins ==
  /\ trial = NoAddress /\ trial' = rec.endpoint
  /\ PeerUnchanged /\ UNCHANGED <<presence, net, where, moves, been>>

AttemptEnds(r) ==
  /\ trial # NoAddress /\ trial' = NoAddress
  /\ rec' = r
  /\ UNCHANGED <<pending, attempt, refresh, asked, presence, net, where, moves, been>>

AttemptSucceeds == AttemptEnds(MarkSeen(rec, trial))

AttemptFails == AttemptEnds(rec)

-----------------------------------------------------------------------------
(* The maintenance thread: expire, refresh_endpoint_bindings and, last,    *)
(* refresh_endpoints_from_discovery.                                       *)
Maintain ==
  LET late == {e \in DOMAIN pending : pending[e] >= PunchTimeout}
      live == Without(pending, late)
      known == Stale(net, late)
  IN  /\ rec' = RefreshFromDiscovery(rec, presence)
      /\ IF refresh < PunchGap
         THEN pending' = live /\ net' = known /\ UNCHANGED <<attempt, refresh, asked>>
         ELSE Punch(rec, live, known) /\ refresh' = 0
      /\ Away

(* Time passes; a maintenance round takes place in every unit.             *)
Aged(age, max) == IF age = max THEN max ELSE age + 1

PunchTick ==
  /\ pending' = [e \in DOMAIN pending |-> Aged(pending[e], PunchTimeout)]
  /\ attempt' = Aged(attempt, PunchGap) /\ refresh' = Aged(refresh, PunchGap)
  /\ asked' = [e \in Address |-> Aged(asked[e], PunchTimeout)]
  /\ UNCHANGED <<rec, net>> /\ Away

FrameFrom(e) == Datagram("frame", e, NoAddress, <<>>)

PeerDatagrams ==
  {FrameFrom(e) : e \in Address}
    \cup {Datagram("candidates", e, NoAddress, l) : e \in Address, l \in Announced}

PunchNext ==
  \/ \E p \in Places : PeerMoves(p)
  \/ \E d \in PeerDatagrams : PeerSends(d)
  \/ \E d \in net :
       \/ \E e \in Address : PeerAnswers(d, e)
       \/ Loses(d) \/ TakeFrame(d) \/ TakeCandidates(d) \/ TakeResponse(d)
  \/ \E e \in Address : FrameArrives(e) \/ OnPresence(e)
  \/ AttemptBegins \/ AttemptSucceeds \/ AttemptFails
  \/ Maintain
  \/ PunchTick

(* A handshake ends within seconds, and until the next one, which is due   *)
(* minutes later, frames of the peer arrive, its gossip at the least.      *)
PunchFairness ==
  /\ WF_punchVars(AttemptSucceeds \/ AttemptFails)
  /\ SF_punchVars(trial = NoAddress /\ \E e \in Address : FrameArrives(e))

-----------------------------------------------------------------------------
(* Lists are sorted, without repeats and within their bound.               *)
Listed(l) ==
  /\ Len(l) <= MaxCandidateCount
  /\ \A i, j \in DOMAIN l : i < j => l[i].endpoint # l[j].endpoint /\ l[i].priority >= l[j].priority

(* Types of the variables.                                                 *)
PunchTypeOK ==
  /\ rec.endpoint \in Address /\ rec.path \in {"Unknown", "Direct", "HolePunched"}
  /\ Listed(rec.candidates)
  /\ DOMAIN pending \subseteq Address /\ Cardinality(DOMAIN pending) <= MaxPunches
  /\ attempt \in 0 .. PunchGap /\ refresh \in 0 .. PunchGap
  /\ {presence, trial} \subseteq Address \cup {NoAddress}

(* A step that changes the endpoint in use takes one from which the peer   *)
(* has sent, that of the last presence, without a claim to a path, or the  *)
(* one with which a handshake began.                                       *)
MoveJustified ==
  \/ rec'.endpoint \in been
  \/ rec'.endpoint = presence /\ rec'.path = "Unknown"
  \/ rec'.endpoint = trial /\ rec'.path = "Direct"

(* A nominated endpoint is one from which the peer has sent, within the    *)
(* timeout after a challenge to it.                                        *)
NominationJustified == rec'.endpoint \in been /\ asked[rec'.endpoint] < PunchTimeout

ProvedStep ==
  /\ rec'.endpoint # rec.endpoint => MoveJustified
  /\ rec'.path = "HolePunched" /\ <<rec.endpoint, rec.path>> # <<rec'.endpoint, rec'.path>>
       => NominationJustified

(* Candidates and reports never put an endpoint in use before the peer     *)
(* answered from it, a presence does so only with the path unknown, and    *)
(* one is nominated only by an answer within the timeout after a challenge *)
(* to it, even if maintenance has yet to expire it.                        *)
EndpointProved == [][ProvedStep]_punchVars

(* When the peer has stopped moving and its presence is not out of date,   *)
(* the endpoint in use becomes one at which it is, for good.               *)
Settles == <>[](presence \in where \cup {NoAddress}) => <>[](rec.endpoint \in where)
=============================================================================
