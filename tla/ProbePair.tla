------------------------------ MODULE ProbePair ------------------------------
(***************************************************************************)
(* Two nodes that are configured peers of each other and have no other way *)
(* to each other, and the probes by which each of them watches its path:   *)
(* probe_due_routes on one end, handle_path_probe on both.  The tables are *)
(* those of Routing; a round of the maintenance thread is one step, as     *)
(* nothing here depends on what the receive thread does in between.        *)
(*                                                                         *)
(* The link between them fails and comes back.  The session survives: it   *)
(* ends after 180 s of silence, a probe is lost after a few seconds.       *)
(***************************************************************************)
EXTENDS Routing

CONSTANTS
  ProbeTimeout,    \* PATH_PROBE_TIMEOUT
  MaxOutages       \* bound: failures of the link

(* The nodes are the two prefixes they own, which are equally long.        *)
SameLength == [p \in Prefix |-> 1]

Other(n) == CHOOSE m \in Prefix : m # n

VARIABLES
  routes,     \* RoutingEngine::routes_ of each
  pending,    \* PathProbeTracker::pending_ of each: what is left of its timeout, or None
  wire,       \* datagrams under way: [kind, to]
  works,      \* the link carries datagrams
  outages

pairVars == <<routes, pending, wire, works, outages>>

None == -1

(* install_configured_routes, which every round of connect_loop repeats:   *)
(* the route stays as it is.                                               *)
Installed(n) == NewRoute(Other(n), "Direct", <<Other(n)>>, 1, 1, 1)

Target(n) == TargetOf(Installed(n))

PairInit ==
  /\ routes = [n \in Prefix |-> <<Installed(n)>>]
  /\ pending = [n \in Prefix |-> None]
  /\ wire = {} /\ works = TRUE /\ outages = 0

Sent(kind, to) == IF works THEN wire \cup {[kind |-> kind, to |-> to]} ELSE wire

(* The probe has timed out: record_probe_failure.                          *)
TimeOut(n) ==
  /\ pending[n] = 0
  /\ pending' = [pending EXCEPT ![n] = None]
  /\ routes' = [routes EXCEPT ![n] = RecordFailure(@, Target(n))]
  /\ UNCHANGED <<wire, works, outages>>

CanProbe(n) == pending[n] = None /\ routes[n][1].hold = 0 /\ routes[n][1].due = 0

(* probe_due_routes                                                        *)
Probe(n) ==
  /\ CanProbe(n)
  /\ pending' = [pending EXCEPT ![n] = ProbeTimeout]
  /\ routes' = [routes EXCEPT ![n] = MarkProbeSent(@, Target(n))]
  /\ wire' = Sent("challenge", Other(n))
  /\ UNCHANGED <<works, outages>>

(* The routes on which handle_path_probe may answer a challenge.           *)
AnswerRoutes(n) ==
  {i \in DOMAIN routes[n] : ~LeaseExpired(routes[n][i]) /\ ~routes[n][i].failed}

Challenged(n) ==
  /\ [kind |-> "challenge", to |-> n] \in wire
  /\ wire' = (IF AnswerRoutes(n) = {} THEN wire ELSE Sent("response", Other(n)))
               \ {[kind |-> "challenge", to |-> n]}
  /\ UNCHANGED <<routes, pending, works, outages>>

(* A response: acknowledge, and record_probe_success.                      *)
Answered(n) ==
  /\ [kind |-> "response", to |-> n] \in wire
  /\ wire' = wire \ {[kind |-> "response", to |-> n]}
  /\ IF pending[n] > 0
     THEN /\ pending' = [pending EXCEPT ![n] = None]
          /\ routes' = [routes EXCEPT ![n] = RecordSuccess(@, Target(n))]
     ELSE UNCHANGED <<pending, routes>>
  /\ UNCHANGED <<works, outages>>

(* The link fails, with what is under way, and comes back.                 *)
Fail ==
  /\ works /\ outages < MaxOutages
  /\ works' = FALSE /\ wire' = {} /\ outages' = outages + 1
  /\ UNCHANGED <<routes, pending>>

Mend ==
  /\ ~works
  /\ works' = TRUE
  /\ UNCHANGED <<routes, pending, wire, outages>>

(* A second: datagrams take less, and both nodes have made their rounds.   *)
PairTick ==
  /\ wire = {} /\ \A n \in Prefix : pending[n] # 0 /\ ~CanProbe(n)
  /\ routes' = [n \in Prefix |-> AgeRoutes(routes[n])]
  /\ pending' = [n \in Prefix |-> IF pending[n] = None THEN None ELSE Down(pending[n])]
  /\ UNCHANGED <<wire, works, outages>>

NodeStep(n) == TimeOut(n) \/ Probe(n) \/ Challenged(n) \/ Answered(n)

PairNext == (\E n \in Prefix : NodeStep(n)) \/ Fail \/ Mend \/ PairTick

(* Both nodes run, datagrams that are not lost arrive, time passes, and an *)
(* outage ends.                                                            *)
PairSpec ==
  /\ PairInit /\ [][PairNext]_pairVars
  /\ \A n \in Prefix : WF_pairVars(NodeStep(n))
  /\ WF_pairVars(PairTick) /\ WF_pairVars(Mend)

-----------------------------------------------------------------------------
(* SECURITY.md: "Probing resumes after a 30-second hold-down, and only a   *)
(* later successful response restores eligibility ... the direct path is   *)
(* retried after hold-down."  Over a link that works for good the response *)
(* comes and the route is in use again.  Does not hold: see README, "Where *)
(* code and text differ".                                                  *)
WorkingPathReturns == \A n \in Prefix : <>[]works => []<>(~routes[n][1].failed)
=============================================================================
