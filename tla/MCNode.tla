------------------------------- MODULE MCNode -------------------------------
(***************************************************************************)
(* Small instances of two parts of a node that share no state: its routing *)
(* table with the probing of paths, and the starting and stopping of its   *)
(* threads.  Each behaviour moves one of them.                             *)
(***************************************************************************)
EXTENDS RouteProbes, Shutdown

VARIABLE moving   \* the part that this behaviour is about

nodeVars == <<moving, vars, shutVars>>

NodeInit == moving \in {"routes", "threads"} /\ Init /\ ShutInit

NodeNext ==
  \/ moving = "routes" /\ Next /\ UNCHANGED <<moving, shutVars>>
  \/ moving = "threads" /\ ShutNext /\ UNCHANGED <<moving, vars>>

RoutesMove == moving = "routes"

(* Both threads of RouteProbes run, answers under way arrive, time passes. *)
RouteFairness ==
  /\ WF_vars(RoutesMove /\ MaintenanceThread) /\ SF_vars(RoutesMove /\ Tick)
  /\ WF_vars(RoutesMove /\ (MergeOlder \/ MergeAdd \/ Success))
  /\ SF_vars(RoutesMove /\ \E id \in ProbeId : Acknowledge(id))

(* Before the first start no fair action of Shutdown is enabled.           *)
NodeSpec == NodeInit /\ [][NodeNext]_nodeVars /\ RouteFairness /\ ShutFairness

-----------------------------------------------------------------------------
(* Node 0 with the neighbours 1 and 2; node 3 is configured and is also    *)
(* advertised by both neighbours.                                          *)
MCLength == [p \in Prefix |-> IF p = "narrow" THEN 2 ELSE 1]

MCOwnPrefix == [p \in Direct |-> "narrow"]

Entry(sender, node, path, prefix, seq) ==
  [sender |-> sender,
   entry |-> [node |-> node, path |-> path,
             offers |-> <<[prefix |-> prefix, seq |-> seq, lease |-> LeaseTime, metric |-> 1]>>]]

(* One path comes back through node 0, and there is no room for node 4.    *)
MCAdverts ==
  {Entry(1, 3, <<>>, "narrow", 1), Entry(1, 3, <<>>, "narrow", 2),
   Entry(2, 3, <<1, 3>>, "narrow", 1), Entry(2, 3, <<0, 3>>, "wide", 1),
   Entry(1, 4, <<>>, "wide", 1)}
=============================================================================
