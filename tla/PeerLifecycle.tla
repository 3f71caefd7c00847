---------------------------- MODULE PeerLifecycle ----------------------------
(***************************************************************************)
(* One node and one configured peer: the peer's record in PeerManager, its *)
(* session, its configured route, and the three threads of the tunnel that *)
(* change them, each taking the locks of the three tables one at a time:   *)
(*                                                                         *)
(*   conn    connect_loop and the handshake_peer it calls                  *)
(*   maint   maintenance_loop: dead detection, then rekey_due              *)
(*   rx      the receive thread: session frames, INIT, RESP                *)
(*                                                                         *)
(*   lower   this node has the lower NodeId and drives the rekeys; never    *)
(*           changes                                                       *)
(*   peer    [state, seen]: PeerState and the time since last_seen         *)
(*   up, age a session is established, and for how long                    *)
(*   route   install_configured_routes has run since remove_route          *)
(*   hs      [done, by, pending]: pending_handshakes_[peer], by: whose     *)
(*           session id it has, and whether the SessionManager holds the   *)
(*           pending initiator of that id                                  *)
(*   tried   the time since rekey_attempts_[peer]                          *)
(*   alive   the peer runs and can be reached                              *)
(*   silence the time since the peer was last heard (a history variable)   *)
(*   late    the session is from a RESP that came when the peer was on     *)
(*           record as dead (another)                                      *)
(*   ran     the threads that have woken up since time last passed         *)
(*                                                                         *)
(* A unit of time is long against a maintenance round (1 s) and against    *)
(* the steps between two waits; ages stop growing once no comparison can   *)
(* tell them apart.  Who wins a collision of two initiations is the        *)
(* subject of Handshake: here an INIT or a RESP is taken or it is not.     *)
(* The node knows an endpoint of the peer, so that handshake_peer always   *)
(* initiates; Handshake has the branch that waits for an INIT.             *)
(***************************************************************************)
EXTENDS Naturals

CONSTANTS
  DeadTimeout,     \* the dead timeout, 180 s
  RekeyInterval    \* REKEY_INTERVAL_MS, 120 s

ASSUME LifecycleAssumption ==
  DeadTimeout \in Nat \ {0} /\ RekeyInterval \in Nat \ {0}

VARIABLES
  lower, peer, up, age, route, hs, tried, alive, silence, late, ran, conn, maint, rx

peerVars ==
  <<lower, peer, up, age, route, hs, tried, alive, silence, late, ran, conn, maint, rx>>
session == <<up, age, late>>
world == <<alive, silence>>

MaxSilence == DeadTimeout + 2

Grow(x, bound) == IF x < bound THEN x + 1 ELSE bound

-----------------------------------------------------------------------------
(* PeerManager, on the record of one peer.                                 *)

MarkSeen(p) == [state |-> "Established", seen |-> 0]

MarkConnecting(p) == [p EXCEPT !.state = "Connecting"]

MarkDead(p) == [p EXCEPT !.state = "Dead"]

(* update_endpoint also counts as a sign of life.                          *)
UpdateEndpoint(p) == [p EXCEPT !.seen = 0]

(* Bug variant of Stale: a peer that is being connected is passed over.    *)
StaleEstablished(p) == p.state = "Established" /\ p.seen >= DeadTimeout

(* stale_peers                                                             *)
Stale(p) == p.state # "Dead" /\ p.seen >= DeadTimeout

PeerInit ==
  /\ lower \in BOOLEAN
  /\ peer = [state |-> "Unknown", seen |-> 0]
  /\ up = FALSE /\ age = 0
  /\ route = FALSE
  /\ hs = [done |-> FALSE, by |-> "none", pending |-> FALSE]
  /\ tried = RekeyInterval
  /\ alive \in BOOLEAN
  /\ silence = 0 /\ late = FALSE
  /\ ran = {}
  /\ conn = "top" /\ maint = "idle" /\ rx = "idle"

(* A new session is installed.                                             *)
Establish == up' = TRUE /\ age' = 0

(* SessionManager::remove_session: the session and the pending initiator.  *)
RemoveSession ==
  /\ up' = FALSE /\ age' = 0 /\ late' = FALSE
  /\ hs' = [hs EXCEPT !.pending = FALSE]

(* handshake_peer of thread t in three lock sections: mark_connecting, an  *)
(* entry with a new session id, and create_handshake_init for that id,     *)
(* which is of use as long as no one else has replaced the entry.          *)
ReserveEntry(t) == hs' = [done |-> FALSE, by |-> t, pending |-> FALSE]

CreateInit(t) == hs' = [hs EXCEPT !.pending = @ \/ hs.by = t]

(* create_handshake_init fails (pending capacity, the id taken by now, no  *)
(* random numbers): the entry is erased.                                   *)
EraseEntry == hs' = [done |-> FALSE, by |-> "none", pending |-> FALSE]

(* The test after the wait: done, or a session, be it the old one.         *)
HandshakeSucceeded == hs.done \/ up

-----------------------------------------------------------------------------
(* connect_loop                                                            *)

ConnectCheck ==
  /\ conn = "top"
  /\ conn' = IF up THEN "install" ELSE "enter"
  /\ UNCHANGED <<peer, session, route, hs, tried, world, ran, maint, rx>>

(* install_configured_routes, then the peer table goes out.                *)
ConnectInstall ==
  /\ conn = "install"
  /\ route' = TRUE
  /\ conn' = "wait"
  /\ UNCHANGED <<peer, session, hs, tried, world, ran, maint, rx>>

(* Bug variant of ConnectWaited: only the loss of the session ends it.     *)
ConnectWaitsForLoss ==
  /\ conn = "wait" /\ ~up
  /\ conn' = "top"
  /\ ran' = ran \cup {"conn"}
  /\ UNCHANGED <<peer, session, route, hs, tried, world, maint, rx>>

(* The wait of 500 ms is over, or the session is down.                     *)
ConnectWaited ==
  /\ conn = "wait"
  /\ conn' = "top"
  /\ ran' = ran \cup {"conn"}
  /\ UNCHANGED <<peer, session, route, hs, tried, world, maint, rx>>

(* handshake_peer finds a session after all, or starts.                    *)
ConnectHandshake ==
  /\ conn = "enter"
  /\ conn' = IF up THEN "installNew" ELSE "begin"
  /\ UNCHANGED <<peer, session, route, hs, tried, world, ran, maint, rx>>

ConnectMarkConnecting ==
  /\ conn = "begin"
  /\ peer' = MarkConnecting(peer)
  /\ conn' = "reserve"
  /\ UNCHANGED <<session, route, hs, tried, world, ran, maint, rx>>

ConnectReserve ==
  /\ conn = "reserve"
  /\ ReserveEntry("conn")
  /\ conn' = "create"
  /\ UNCHANGED <<peer, session, route, tried, world, ran, maint, rx>>

ConnectCreate ==
  /\ conn = "create"
  /\ CreateInit("conn")
  /\ conn' = "try"
  /\ UNCHANGED <<peer, session, route, tried, world, ran, maint, rx>>

(* No session id could be reserved, or no INIT created.                    *)
ConnectGivesUp ==
  /\ conn \in {"reserve", "create"}
  /\ IF conn = "create" THEN EraseEntry ELSE UNCHANGED hs
  /\ conn' = "backoff"
  /\ UNCHANGED <<peer, session, route, tried, world, ran, maint, rx>>

(* The handshake is done or its ten attempts are used up.                  *)
ConnectTried ==
  /\ conn = "try"
  /\ conn' = IF HandshakeSucceeded THEN "mark" ELSE "backoff"
  /\ UNCHANGED <<peer, session, route, hs, tried, world, ran, maint, rx>>

ConnectMarkSeen ==
  /\ conn = "mark"
  /\ peer' = MarkSeen(peer)
  /\ conn' = "installNew"
  /\ UNCHANGED <<session, route, hs, tried, world, ran, maint, rx>>

ConnectInstallNew ==
  /\ conn = "installNew"
  /\ route' = TRUE
  /\ conn' = "top"
  /\ UNCHANGED <<peer, session, hs, tried, world, ran, maint, rx>>

ConnectBackoff ==
  /\ conn = "backoff"
  /\ conn' = "top"
  /\ ran' = ran \cup {"conn"}
  /\ UNCHANGED <<peer, session, route, hs, tried, world, maint, rx>>

Connect ==
  \/ ConnectCheck \/ ConnectInstall \/ ConnectWaited \/ ConnectHandshake
  \/ ConnectMarkConnecting \/ ConnectReserve \/ ConnectCreate \/ ConnectTried
  \/ ConnectMarkSeen \/ ConnectInstallNew \/ ConnectBackoff

-----------------------------------------------------------------------------
(* maintenance_loop: one round from "idle" to "idle".                      *)

MaintRound ==
  /\ maint = "idle"
  /\ maint' = IF Stale(peer) THEN "stale" ELSE "check"
  /\ UNCHANGED <<peer, session, route, hs, tried, world, ran, conn, rx>>

MaintMarkDead ==
  /\ maint = "stale"
  /\ peer' = MarkDead(peer)
  /\ maint' = "marked"
  /\ UNCHANGED <<session, route, hs, tried, world, ran, conn, rx>>

(* Bug variant of MaintRemoveSession: the session stays.                   *)
MaintKeepSession ==
  /\ maint = "marked"
  /\ maint' = "removed"
  /\ UNCHANGED <<peer, session, hs, route, tried, world, ran, conn, rx>>

MaintRemoveSession ==
  /\ maint = "marked"
  /\ RemoveSession
  /\ maint' = "removed"
  /\ UNCHANGED <<peer, route, tried, world, ran, conn, rx>>

MaintRemoveRoute ==
  /\ maint = "removed"
  /\ route' = FALSE
  /\ maint' = "check"
  /\ UNCHANGED <<peer, session, hs, tried, world, ran, conn, rx>>

(* rekey_due                                                               *)
RekeyIsDue ==
  /\ lower /\ peer.state = "Established"
  /\ up /\ age >= RekeyInterval
  /\ tried >= RekeyInterval

MaintCheckRekey ==
  /\ maint = "check"
  /\ IF RekeyIsDue THEN maint' = "rekey" /\ tried' = 0 /\ UNCHANGED ran
     ELSE maint' = "idle" /\ ran' = ran \cup {"maint"} /\ UNCHANGED tried
  /\ UNCHANGED <<peer, session, route, hs, world, conn, rx>>

(* rekey_peer: handshake_peer(force).                                      *)
MaintRekey ==
  /\ maint = "rekey"
  /\ peer' = MarkConnecting(peer)
  /\ maint' = "reserve"
  /\ UNCHANGED <<session, route, hs, tried, world, ran, conn, rx>>

MaintReserve ==
  /\ maint = "reserve"
  /\ ReserveEntry("maint")
  /\ maint' = "create"
  /\ UNCHANGED <<peer, session, route, tried, world, ran, conn, rx>>

MaintCreate ==
  /\ maint = "create"
  /\ CreateInit("maint")
  /\ maint' = "rekeying"
  /\ UNCHANGED <<peer, session, route, tried, world, ran, conn, rx>>

MaintGivesUp ==
  /\ maint \in {"reserve", "create"}
  /\ IF maint = "create" THEN EraseEntry ELSE UNCHANGED hs
  /\ maint' = "idle" /\ ran' = ran \cup {"maint"}
  /\ UNCHANGED <<peer, session, route, tried, world, conn, rx>>

MaintRekeyed ==
  /\ maint = "rekeying"
  /\ IF HandshakeSucceeded THEN maint' = "mark" /\ UNCHANGED ran
     ELSE maint' = "idle" /\ ran' = ran \cup {"maint"}
  /\ UNCHANGED <<peer, session, route, hs, tried, world, conn, rx>>

MaintMarkSeen ==
  /\ maint = "mark"
  /\ peer' = MarkSeen(peer)
  /\ maint' = "idle" /\ ran' = ran \cup {"maint"}
  /\ UNCHANGED <<session, route, hs, tried, world, conn, rx>>

(* refresh_endpoints_from_discovery: the peer announced a new endpoint.    *)
(* A presence is not authenticated; here it is the peer's own.             *)
MaintDiscovered ==
  /\ maint = "check" /\ alive
  /\ peer' = UpdateEndpoint(peer)
  /\ silence' = 0
  /\ UNCHANGED <<session, route, hs, tried, alive, ran, conn, maint, rx>>

(* purge_incomplete_handshakes: 15 s after its start.                      *)
MaintPurge ==
  /\ maint = "check"
  /\ hs.pending /\ (hs.by = "conn" => conn # "try")
  /\ hs' = [hs EXCEPT !.pending = FALSE]
  /\ UNCHANGED <<peer, session, route, tried, world, ran, conn, maint, rx>>

Maintain ==
  \/ MaintRound \/ MaintMarkDead \/ MaintRemoveSession \/ MaintRemoveRoute
  \/ MaintCheckRekey \/ MaintRekey \/ MaintReserve \/ MaintCreate \/ MaintRekeyed
  \/ MaintMarkSeen

-----------------------------------------------------------------------------
(* The receive thread.                                                     *)

(* A session frame decrypts ...                                            *)
ReceiveFrame ==
  /\ rx = "idle" /\ alive /\ up
  /\ silence' = 0
  /\ rx' = "decrypted"
  /\ UNCHANGED <<peer, session, route, hs, tried, alive, ran, conn, maint>>

(* ... and its session is looked up again to find the peer.                *)
LookupFrame ==
  /\ rx = "decrypted"
  /\ rx' = IF up THEN "found" ELSE "idle"
  /\ UNCHANGED <<peer, session, route, hs, tried, world, ran, conn, maint>>

MarkFrameSeen ==
  /\ rx = "found"
  /\ peer' = MarkSeen(peer)
  /\ rx' = "idle"
  /\ UNCHANGED <<session, route, hs, tried, world, ran, conn, maint>>

(* An INIT of the peer is admitted and its session installed.              *)
ReceiveInit ==
  /\ rx = "idle" /\ alive
  /\ Establish /\ late' = FALSE
  /\ silence' = 0
  /\ rx' = "installed"
  /\ UNCHANGED <<peer, route, hs, tried, alive, ran, conn, maint>>

AnswerInit ==
  /\ rx = "installed"
  /\ peer' = MarkSeen(peer)
  /\ rx' = "answered"
  /\ UNCHANGED <<session, route, hs, tried, world, ran, conn, maint>>

(* The RESP does not fit its queue.                                        *)
AnswerFails ==
  /\ rx = "installed"
  /\ RemoveSession
  /\ rx' = "idle"
  /\ UNCHANGED <<peer, route, tried, world, ran, conn, maint>>

(* The entry is replaced by one with the id of the INIT.                   *)
InitDone ==
  /\ rx = "answered"
  /\ hs' = [done |-> TRUE, by |-> "peer", pending |-> FALSE]
  /\ rx' = "idle"
  /\ UNCHANGED <<peer, session, route, tried, world, ran, conn, maint>>

(* A RESP finds its pending initiator, also when nobody waits any more.    *)
ReceiveResp ==
  /\ rx = "idle" /\ alive
  /\ hs.pending
  /\ Establish /\ late' = (peer.state = "Dead")
  /\ hs' = [hs EXCEPT !.done = TRUE, !.pending = FALSE]
  /\ silence' = 0
  /\ UNCHANGED <<peer, route, tried, alive, ran, conn, maint, rx>>

(* It loses against a session that the peer with the lower NodeId has      *)
(* initiated.                                                              *)
RefuseResp ==
  /\ rx = "idle" /\ alive /\ ~lower
  /\ hs.pending /\ up
  /\ hs' = [hs EXCEPT !.pending = FALSE]
  /\ UNCHANGED <<peer, session, route, tried, world, ran, conn, maint, rx>>

Receive ==
  \/ LookupFrame \/ MarkFrameSeen \/ AnswerInit \/ InitDone

Arrival == ReceiveFrame \/ ReceiveInit \/ ReceiveResp \/ RefuseResp \/ AnswerFails

-----------------------------------------------------------------------------
(* Time passes only while every thread waits: the receive thread for a     *)
(* datagram, the others in a sleep.  Their sleeps and the ten seconds of a *)
(* handshake are shorter than a unit.                                      *)
PeerTick ==
  /\ rx = "idle"
  /\ conn \in {"wait", "backoff"}
  /\ maint = "idle"
  /\ ran = {"conn", "maint"}
  /\ ran' = {}
  /\ peer' = [peer EXCEPT !.seen = Grow(@, DeadTimeout)]
  /\ age' = IF up THEN Grow(age, RekeyInterval) ELSE 0
  /\ tried' = Grow(tried, RekeyInterval)
  /\ silence' = Grow(silence, MaxSilence)
  /\ UNCHANGED <<up, late, route, hs, alive, conn, maint, rx>>

(* The peer stops or is cut off, and comes back.                           *)
Vanish == alive /\ alive' = FALSE
          /\ UNCHANGED <<peer, session, route, hs, tried, silence, ran, conn, maint, rx>>

Return == ~alive /\ alive' = TRUE
          /\ UNCHANGED <<peer, session, route, hs, tried, silence, ran, conn, maint, rx>>

PeerNext ==
  /\ \/ Connect \/ ConnectGivesUp \/ Maintain \/ MaintGivesUp \/ MaintDiscovered \/ MaintPurge
     \/ Receive \/ Arrival
     \/ PeerTick \/ Vanish \/ Return
  /\ UNCHANGED lower

PeerSpec == PeerInit /\ [][PeerNext]_peerVars

-----------------------------------------------------------------------------
PeerRecord ==
  [state : {"Unknown", "Connecting", "Established", "Dead"}, seen : 0 .. DeadTimeout]
HandshakeEntry ==
  [done : BOOLEAN, by : {"none", "conn", "maint", "peer"}, pending : BOOLEAN]

(* Types of the variables.                                                 *)
PeerTypeOK ==
  /\ lower \in BOOLEAN
  /\ peer \in PeerRecord
  /\ up \in BOOLEAN /\ age \in 0 .. RekeyInterval /\ (~up => age = 0)
  /\ route \in BOOLEAN
  /\ hs \in HandshakeEntry
  /\ tried \in 0 .. RekeyInterval
  /\ alive \in BOOLEAN /\ late \in BOOLEAN /\ silence \in 0 .. MaxSilence
  /\ ran \subseteq {"conn", "maint"}
  /\ conn \in {"top", "install", "wait", "enter", "begin", "reserve", "create", "try",
               "mark", "installNew", "backoff"}
  /\ maint \in {"idle", "stale", "marked", "removed", "check", "rekey",
                "reserve", "create", "rekeying", "mark"}
  /\ rx \in {"idle", "decrypted", "found", "installed", "answered"}

(* No thread is between two steps that belong together.                    *)
PeerQuiet == rx = "idle" /\ maint = "idle" /\ conn \in {"top", "wait", "backoff"}

(* maintenance_loop takes away the session of a peer that it declares      *)
(* dead, and whatever frames, INITs and handshakes run between its three   *)
(* steps, they leave a peer with a session on record as alive.  There is   *)
(* one exception: create_handshake_init after remove_session, and a RESP,  *)
(* which does not call mark_seen, after the attempt has given up.          *)
DeadSessionIsLate == PeerQuiet /\ peer.state = "Dead" /\ up => late

(* README: "Dead timeout at 180s removes the session and all routes".  A   *)
(* peer that was not heard for longer than the timeout has no session.     *)
SilentPeerRemoved == up => silence <= DeadTimeout

(* On the node with the higher NodeId a silent peer ages past the timeout  *)
(* and loses its session, whatever handshake_peer, late frames and INITs   *)
(* do to last_seen, unless it is on record as dead: stale_peers passes     *)
(* over the session that such a peer got from a late RESP.                 *)
HigherRemovesSilent == ~lower /\ peer.state # "Dead" => SilentPeerRemoved

(* The threads run and time passes.  What arrives is up to the network,    *)
(* but the RESP of a peer that is there arrives during an attempt now and  *)
(* then: it takes a round trip, and maintenance_loop, which can drop the   *)
(* attempt's initiator before that, comes by once a second.                *)
PeerFairness ==
  /\ WF_peerVars(Connect /\ UNCHANGED lower)
  /\ WF_peerVars(Maintain /\ UNCHANGED lower)
  /\ WF_peerVars(Receive /\ UNCHANGED lower)
  /\ WF_peerVars(PeerTick /\ UNCHANGED lower)
  /\ SF_peerVars(conn = "try" /\ ReceiveResp /\ UNCHANGED lower)

PeerFairSpec == PeerSpec /\ PeerFairness

(* The network or a resource lets the node down: ten seconds of INITs of   *)
(* which the initiator is kept bring no RESP, there is no room for an      *)
(* initiator or in the send queue, or there are no random numbers.         *)
LetDown ==
  \/ conn = "try" /\ hs.pending /\ conn' = "backoff"
  \/ AnswerFails \/ ConnectGivesUp \/ MaintGivesUp

(* README: "Configured peers are re-joined automatically on reconnect,     *)
(* routes reinstalled": once the peer is there and nothing lets the node   *)
(* down, session and route are back.  Attempts may still fail because      *)
(* maintenance_loop takes the peer for dead and drops their initiator, or  *)
(* succeed and lose their session to it: no interleaving of this node's    *)
(* own threads keeps the two apart for ever.                               *)
Rejoined == <>[]alive /\ <>[][~LetDown]_peerVars => []<>(up /\ route)
=============================================================================
