---------------------------- MODULE TunnelProofs ----------------------------
(***************************************************************************)
(* Proofs about what the threads of a Tunnel do to each other: a           *)
(* configured peer between its connect, maintenance and receive threads,   *)
(* and start and stop; relaying within its quotas; and the credential file *)
(* that processes share.  Each section is about one module, for every      *)
(* value of its constants.                                                 *)
(***************************************************************************)
EXTENDS PeerLifecycle, Shutdown, Relay, IdentityStore, FiniteSetTheorems, WellFoundedInduction, TLAPS

(* Most leaves are steps of logic and sets, for Zenon; those that need     *)
(* arithmetic, or more of functions and records, name SMT.                 *)
USE Zenon

-----------------------------------------------------------------------------
(* PeerLifecycle: one configured peer.                                     *)

(* A dead peer has no session but a late one, unless maintenance_loop is   *)
(* about to remove it or an INIT has just been taken, whose handler will   *)
(* call mark_seen or remove_session.                                       *)
DeadInv ==
  peer.state = "Dead" /\ up => late \/ maint = "marked" \/ rx = "installed"

(* Whoever is about to call mark_seen has heard the peer since time last   *)
(* passed: the receive thread while it handles a frame, connect_loop once  *)
(* its handshake is done or a session has come up during it.               *)
HeardInv ==
  /\ rx # "idle" => silence = 0
  /\ conn = "mark" => silence = 0
  /\ conn \in {"begin", "reserve", "create", "try"} /\ up => silence = 0
  /\ conn \in {"create", "try"} /\ hs.done => silence = 0

(* On the node with the higher NodeId last_seen is no younger than the     *)
(* peer's last sign of life, and once maintenance_loop has looked at a     *)
(* peer that has reached the timeout and is not dead, its session is one   *)
(* that was established since.                                             *)
HigherInv ==
  ~lower =>
    /\ maint \notin {"rekey", "reserve", "create", "rekeying", "mark"}
    /\ peer.seen < DeadTimeout => silence <= peer.seen
    /\ maint \in {"removed", "check"} \/ "maint" \in ran =>
         (up /\ peer.state # "Dead" /\ peer.seen = DeadTimeout => silence = 0)
    /\ up /\ peer.state # "Dead" => silence <= DeadTimeout

IInv == PeerTypeOK /\ DeadInv /\ HeardInv /\ HigherInv

(* The operations on the record of a peer keep its type.                   *)
LEMMA RecordType ==
  ASSUME peer \in PeerRecord
  PROVE  /\ peer.seen \in 0 .. DeadTimeout
         /\ MarkConnecting(peer) \in PeerRecord /\ MarkDead(peer) \in PeerRecord
         /\ MarkConnecting(peer).seen = peer.seen /\ MarkDead(peer).seen = peer.seen
         /\ MarkConnecting(peer).state = "Connecting" /\ MarkDead(peer).state = "Dead"
         /\ MarkSeen(peer) \in PeerRecord
         /\ MarkSeen(peer).state = "Established" /\ MarkSeen(peer).seen = 0
         /\ UpdateEndpoint(peer) \in PeerRecord
         /\ UpdateEndpoint(peer).state = peer.state /\ UpdateEndpoint(peer).seen = 0
BY LifecycleAssumption, SMT DEF PeerRecord, MarkConnecting, MarkDead, MarkSeen, UpdateEndpoint

(* What becomes of the entry in pending_handshakes_ and of the pending     *)
(* initiator.                                                              *)
LEMMA EntryType ==
  ASSUME hs \in HandshakeEntry
  PROVE  /\ \A t \in {"conn", "maint"} : ReserveEntry(t) => hs' \in HandshakeEntry /\ hs'.done = FALSE
         /\ \A t \in {"conn", "maint"} : CreateInit(t) => hs' \in HandshakeEntry /\ hs'.done = hs.done
         /\ EraseEntry => hs' \in HandshakeEntry /\ hs'.done = FALSE
         /\ hs' = [hs EXCEPT !.pending = FALSE] => hs' \in HandshakeEntry /\ hs'.done = hs.done
         /\ hs' = [hs EXCEPT !.done = TRUE, !.pending = FALSE] => hs' \in HandshakeEntry
         /\ hs' = [done |-> TRUE, by |-> "peer", pending |-> FALSE] => hs' \in HandshakeEntry
<1>1. \A t \in {"conn", "maint"} : ReserveEntry(t) => hs' \in HandshakeEntry /\ hs'.done = FALSE
  BY SMT DEF ReserveEntry, HandshakeEntry
<1>2. ASSUME NEW t \in {"conn", "maint"}, CreateInit(t)
      PROVE  hs' \in HandshakeEntry /\ hs'.done = hs.done
  <2>1. (hs.pending \/ hs.by = t) \in BOOLEAN
    BY DEF HandshakeEntry
  <2> QED
    BY <1>2, <2>1 DEF CreateInit, HandshakeEntry
<1>3. EraseEntry => hs' \in HandshakeEntry /\ hs'.done = FALSE
  BY SMT DEF EraseEntry, HandshakeEntry
<1>4. ASSUME hs' = [hs EXCEPT !.pending = FALSE]
      PROVE  hs' \in HandshakeEntry /\ hs'.done = hs.done
  BY <1>4 DEF HandshakeEntry
<1>5. ASSUME hs' = [hs EXCEPT !.done = TRUE, !.pending = FALSE]
      PROVE  hs' \in HandshakeEntry
  BY <1>5 DEF HandshakeEntry
<1>6. hs' = [done |-> TRUE, by |-> "peer", pending |-> FALSE] => hs' \in HandshakeEntry
  BY SMT DEF HandshakeEntry
<1> QED
  BY <1>1, <1>2, <1>3, <1>4, <1>5, <1>6

(* A node starts without session, and with a record of an unknown peer.    *)
LEMMA InitIInv == PeerInit => IInv
<1> SUFFICES ASSUME PeerInit PROVE IInv
  OBVIOUS
<1>1. hs \in HandshakeEntry /\ hs.done = FALSE
  BY DEF PeerInit, HandshakeEntry
<1>2. peer \in PeerRecord /\ peer.state = "Unknown" /\ peer.seen = 0
  BY LifecycleAssumption, SMT DEF PeerInit, PeerRecord
<1>3. {lower, up, route, alive, late} \subseteq BOOLEAN
  BY DEF PeerInit
<1>4. PeerTypeOK
  BY <1>1, <1>2, <1>3, LifecycleAssumption, SMT DEF PeerInit, PeerTypeOK, MaxSilence
<1> QED
  BY <1>1, <1>2, <1>4, LifecycleAssumption, SMT DEF PeerInit, IInv, DeadInv, HeardInv, HigherInv

(* Every step of connect_loop keeps the invariant.                         *)
LEMMA ConnectInv == IInv /\ (Connect \/ ConnectGivesUp) /\ UNCHANGED lower => IInv'
<1> SUFFICES ASSUME IInv, Connect \/ ConnectGivesUp, UNCHANGED lower PROVE IInv'
  OBVIOUS
<1> USE LifecycleAssumption, RecordType, EntryType
    DEF IInv, PeerTypeOK, DeadInv, HeardInv, HigherInv, MaxSilence, session, world
<1>1. CASE ConnectCheck
  BY <1>1, SMT DEF ConnectCheck
<1>2. CASE ConnectInstall
  BY <1>2, SMT DEF ConnectInstall
<1>3. CASE ConnectWaited
  BY <1>3, SMT DEF ConnectWaited
<1>4. CASE ConnectHandshake
  BY <1>4, SMT DEF ConnectHandshake
<1>5. CASE ConnectTried
  BY <1>5, SMT DEF ConnectTried, HandshakeSucceeded
<1>6. CASE ConnectMarkSeen
  BY <1>6, SMT DEF ConnectMarkSeen, MarkSeen
<1>7. CASE ConnectInstallNew
  BY <1>7, SMT DEF ConnectInstallNew
<1>8. CASE ConnectBackoff
  BY <1>8, SMT DEF ConnectBackoff
<1>9. CASE ConnectMarkConnecting
  BY <1>9, SMT DEF ConnectMarkConnecting
<1>10. CASE ConnectReserve
  <2>1. hs' \in HandshakeEntry /\ hs'.done = FALSE
    BY <1>10 DEF ConnectReserve
  <2> QED
    BY <1>10, <2>1, SMT DEF ConnectReserve
<1>11. CASE ConnectCreate
  <2>1. hs' \in HandshakeEntry /\ hs'.done = hs.done
    BY <1>11 DEF ConnectCreate
  <2> QED
    BY <1>11, <2>1, SMT DEF ConnectCreate
<1>12. CASE ConnectGivesUp
  <2>1. hs' \in HandshakeEntry
    BY <1>12 DEF ConnectGivesUp
  <2>2. conn' = "backoff" /\ UNCHANGED <<lower, peer, up, age, late, route, tried, alive, silence, ran, maint, rx>>
    BY <1>12 DEF ConnectGivesUp
  <2> QED
    BY <2>1, <2>2, SMT
<1> QED
  BY <1>1, <1>2, <1>3, <1>4, <1>5, <1>6, <1>7, <1>8, <1>9, <1>10, <1>11, <1>12 DEF Connect

(* Every step of maintenance_loop keeps the invariant.                     *)
LEMMA MaintainInv ==
  IInv /\ (Maintain \/ MaintGivesUp \/ MaintDiscovered \/ MaintPurge) /\ UNCHANGED lower => IInv'
<1> SUFFICES ASSUME IInv, Maintain \/ MaintGivesUp \/ MaintDiscovered \/ MaintPurge, UNCHANGED lower
             PROVE  IInv'
  OBVIOUS
<1> USE LifecycleAssumption, RecordType, EntryType
    DEF IInv, PeerTypeOK, DeadInv, HeardInv, HigherInv, MaxSilence, session, world
<1>1. CASE MaintRound
  BY <1>1, SMT DEF MaintRound, Stale
<1>2. CASE MaintMarkDead
  BY <1>2, SMT DEF MaintMarkDead, MarkDead
<1>3. CASE MaintRemoveSession
  <2>1. up' \in BOOLEAN /\ ~up' /\ age' = 0 /\ late' \in BOOLEAN /\ hs' \in HandshakeEntry /\ hs'.done = hs.done
    BY <1>3 DEF MaintRemoveSession, RemoveSession
  <2>2. maint = "marked" /\ maint' = "removed" /\ UNCHANGED <<lower, peer, route, tried, alive, silence, ran, conn, rx>>
    BY <1>3 DEF MaintRemoveSession
  <2> QED
    BY <2>1, <2>2, SMT
<1>4. CASE MaintRemoveRoute
  <2>1. route' \in BOOLEAN
    BY <1>4 DEF MaintRemoveRoute
  <2> QED
    BY <1>4, <2>1, SMT DEF MaintRemoveRoute
<1>5. CASE MaintCheckRekey
  BY <1>5, SMT DEF MaintCheckRekey, RekeyIsDue
<1>6. CASE MaintRekey
  BY <1>6, SMT DEF MaintRekey
<1>7. CASE MaintRekeyed
  BY <1>7, SMT DEF MaintRekeyed, HandshakeSucceeded
<1>8. CASE MaintMarkSeen
  BY <1>8, SMT DEF MaintMarkSeen, MarkSeen
<1>9. CASE MaintDiscovered
  BY <1>9, SMT DEF MaintDiscovered, UpdateEndpoint
<1>10. CASE MaintPurge
  BY <1>10, SMT DEF MaintPurge
<1>11. CASE MaintReserve
  <2>1. hs' \in HandshakeEntry /\ hs'.done = FALSE
    BY <1>11 DEF MaintReserve
  <2> QED
    BY <1>11, <2>1, SMT DEF MaintReserve
<1>12. CASE MaintCreate
  <2>1. hs' \in HandshakeEntry /\ hs'.done = hs.done
    BY <1>12 DEF MaintCreate
  <2> QED
    BY <1>12, <2>1, SMT DEF MaintCreate
<1>13. CASE MaintGivesUp
  <2>1. hs' \in HandshakeEntry /\ (hs'.done => hs.done)
    BY <1>13 DEF MaintGivesUp
  <2>2. /\ maint \in {"reserve", "create"} /\ maint' = "idle" /\ ran' = ran \cup {"maint"}
        /\ UNCHANGED <<lower, peer, up, age, late, route, tried, alive, silence, conn, rx>>
    BY <1>13 DEF MaintGivesUp
  <2> QED
    BY <2>1, <2>2, SMT
<1> QED
  BY <1>1, <1>2, <1>3, <1>4, <1>5, <1>6, <1>7, <1>8, <1>9, <1>10, <1>11, <1>12, <1>13 DEF Maintain

(* Every step of the receive thread keeps the invariant.                   *)
LEMMA ReceiveInv == IInv /\ (Receive \/ Arrival) /\ UNCHANGED lower => IInv'
<1> SUFFICES ASSUME IInv, Receive \/ Arrival, UNCHANGED lower PROVE IInv'
  OBVIOUS
<1> USE LifecycleAssumption, RecordType, EntryType
    DEF IInv, PeerTypeOK, DeadInv, HeardInv, HigherInv, MaxSilence, session, world
<1>1. CASE ReceiveFrame
  BY <1>1, SMT DEF ReceiveFrame
<1>2. CASE LookupFrame
  BY <1>2, SMT DEF LookupFrame
<1>3. CASE MarkFrameSeen
  BY <1>3, SMT DEF MarkFrameSeen, MarkSeen
<1>4. CASE ReceiveInit
  <2>1. /\ late' \in BOOLEAN /\ up' = TRUE /\ age' = 0 /\ silence' = 0 /\ rx' = "installed"
        /\ UNCHANGED <<lower, peer, route, hs, tried, alive, ran, conn, maint>>
    BY <1>4 DEF ReceiveInit, Establish
  <2> QED
    BY <2>1, SMT
<1>5. CASE AnswerInit
  BY <1>5, SMT DEF AnswerInit, MarkSeen
<1>6. CASE AnswerFails
  <2>1. up' \in BOOLEAN /\ ~up' /\ age' = 0 /\ late' \in BOOLEAN /\ hs' \in HandshakeEntry /\ hs'.done = hs.done
    BY <1>6 DEF AnswerFails, RemoveSession
  <2>2. rx = "installed" /\ rx' = "idle" /\ UNCHANGED <<lower, peer, route, tried, alive, silence, ran, conn, maint>>
    BY <1>6 DEF AnswerFails
  <2> QED
    BY <2>1, <2>2, SMT
<1>7. CASE InitDone
  BY <1>7, SMT DEF InitDone
<1>8. CASE ReceiveResp
  <2>1. late' \in BOOLEAN /\ (peer.state = "Dead" => late') /\ hs' \in HandshakeEntry
    BY <1>8 DEF ReceiveResp
  <2>2. /\ rx = "idle" /\ up' = TRUE /\ age' = 0 /\ silence' = 0
        /\ UNCHANGED <<lower, peer, route, tried, alive, ran, conn, maint, rx>>
    BY <1>8 DEF ReceiveResp, Establish
  <2> QED
    BY <2>1, <2>2, SMT
<1>9. CASE RefuseResp
  BY <1>9, SMT DEF RefuseResp
<1> QED
  BY <1>1, <1>2, <1>3, <1>4, <1>5, <1>6, <1>7, <1>8, <1>9 DEF Receive, Arrival

(* Time and the peer's comings and goings keep the invariant: before time  *)
(* passes maintenance_loop has completed a round.                          *)
LEMMA WorldInv == IInv /\ (PeerTick \/ Vanish \/ Return) /\ UNCHANGED lower => IInv'
<1> SUFFICES ASSUME IInv, PeerTick \/ Vanish \/ Return, UNCHANGED lower PROVE IInv'
  OBVIOUS
<1> USE LifecycleAssumption, RecordType, EntryType
    DEF IInv, PeerTypeOK, DeadInv, HeardInv, HigherInv, MaxSilence, session, world
<1>1. CASE PeerTick
  <2>1. /\ rx = "idle" /\ conn \in {"wait", "backoff"} /\ maint = "idle"
        /\ "maint" \in ran /\ ran' = {}
        /\ UNCHANGED <<lower, up, late, route, hs, alive, conn, maint, rx>>
    BY <1>1 DEF PeerTick
  <2>2. /\ peer' \in PeerRecord /\ peer'.state = peer.state
        /\ peer'.seen = Grow(peer.seen, DeadTimeout)
    BY <1>1, SMT DEF PeerTick, PeerRecord, Grow
  <2>3. /\ age' \in 0 .. RekeyInterval /\ (~up => age' = 0)
        /\ tried' \in 0 .. RekeyInterval
        /\ silence' = Grow(silence, MaxSilence)
    BY <1>1, SMT DEF PeerTick, Grow
  <2> QED
    BY <2>1, <2>2, <2>3, SMT DEF Grow
<1>2. CASE Vanish
  <2>1. alive' \in BOOLEAN /\ UNCHANGED <<lower, peer, up, age, late, route, hs, tried, silence, ran, conn, maint, rx>>
    BY <1>2 DEF Vanish
  <2> QED
    BY <2>1, SMT
<1>3. CASE Return
  BY <1>3, SMT DEF Return
<1> QED
  BY <1>1, <1>2, <1>3

LEMMA AlwaysIInv == PeerSpec => []IInv
<1>1. IInv /\ [PeerNext]_peerVars => IInv'
  <2>1. IInv /\ PeerNext => IInv'
    BY ConnectInv, MaintainInv, ReceiveInv, WorldInv DEF PeerNext
  <2>2. IInv /\ UNCHANGED peerVars => IInv'
    BY SMT DEF IInv, PeerTypeOK, DeadInv, HeardInv, HigherInv, peerVars
  <2> QED
    BY <2>1, <2>2
<1> QED
  BY <1>1, InitIInv, PTL DEF PeerSpec

(* The record of a peer, its session and the threads keep their types.     *)
THEOREM TypeCorrect == PeerSpec => []PeerTypeOK
<1>1. IInv => PeerTypeOK
  BY DEF IInv
<1> QED
  BY <1>1, AlwaysIInv, PTL

(* A peer on record as dead has no session but one from a late RESP.       *)
THEOREM DeadLosesSession == PeerSpec => []DeadSessionIsLate
<1>1. IInv => DeadSessionIsLate
  BY DEF IInv, DeadInv, DeadSessionIsLate, PeerQuiet
<1> QED
  BY <1>1, AlwaysIInv, PTL

(* On the node with the higher NodeId a session ends when its peer has     *)
(* been silent for the dead timeout, unless the peer is on record as dead. *)
THEOREM SilenceEndsSession == PeerSpec => []HigherRemovesSilent
<1>1. IInv => HigherRemovesSilent
  BY DEF IInv, HigherInv, HigherRemovesSilent, SilentPeerRemoved
<1> QED
  BY <1>1, AlwaysIInv, PTL

-----------------------------------------------------------------------------
(* Shutdown: start and stop.                                               *)

(* What stop() closes.                                                     *)
Both == {"socket", "adapter"}

(* Where stop() joins a thread.                                            *)
Place(w) ==
  IF w = "rx" THEN 4 ELSE IF w = "tx" THEN 5 ELSE IF w = "gossip" THEN 6
  ELSE IF w = "maintenance" THEN 7 ELSE 8

(* Not in the body of its loop, nor on the way into a wait.                *)
Resting(w) == thread[w] \in {"none", "top"}

(* There is no Tunnel, or one that has started nothing yet.                *)
NoTunnel == (AtPrompt /\ cli.then # "running") \/ cli.pc \in {"quit", "start"}

(* No thread is in its loop yet.                                           *)
Before == NoTunnel \/ cli.pc \in {"receive", "run"}

(* How far a stop() has come shows in the flags and the threads.           *)
StopInv ==
  \A s \in Stopper :
    /\ at[s] > 1 => ~running
    /\ at[s] > 3 => ~receiving
    /\ \A w \in Worker : at[s] > Place(w) => Resting(w)

(* What the REPL thread has joined and closed stays so, because it is also *)
(* the thread that starts things.                                          *)
ReplInv ==
  /\ cli.pc = "stop" <=> at["repl"] # 0
  /\ cli.pc = "stop" => cli.then \in {"prompt", "start", "quit"} /\ cli.passes > 0
  /\ \A w \in Worker : at["repl"] > Place(w) => thread[w] = "none"
  /\ at["repl"] > 10 => "socket" \notin open
  /\ at["repl"] > 11 => "adapter" \notin open

(* Once something is closed no thread can get into its loop again.         *)
ClosedInv ==
  open # Both => ~running /\ ~receiving /\ \A w \in Worker : Resting(w)

(* What start() finds and what it has set up so far.                       *)
StartInv ==
  /\ Before => ~running /\ at["teardown"] = 0
  /\ cli.pc = "receive" =>
       open = Both /\ ~receiving /\ ~transfers /\ thread = NoThreads
  /\ cli.pc = "run" => open = Both

(* The inductive invariant.                                                *)
SInv == ShutTypeOK /\ NothingLeft /\ StopInv /\ ReplInv /\ ClosedInv /\ StartInv

(* The steps of stop() and their order.                                    *)
LEMMA StepPlaces ==
  ASSUME ShutTypeOK, NEW s \in Stopper
  PROVE  /\ at[s] \in 0 .. 12
         /\ Step(s) = "flag" <=> at[s] = 1
         /\ Step(s) = "notify" <=> at[s] = 2
         /\ Step(s) = "stop_rx" <=> at[s] = 3
         /\ Step(s) = "drop" <=> at[s] = 9
         /\ Step(s) = "close" <=> at[s] = 10
         /\ Step(s) = "adapter" <=> at[s] = 11
         /\ Step(s) = "clear" <=> at[s] = 12
         /\ \A w \in Worker : Step(s) = w <=> at[s] = Place(w)
<1>1. at[s] \in 0 .. 12
  BY DEF ShutTypeOK, Steps
<1>2. at[s] = 0 \/ at[s] = 1 \/ at[s] = 2 \/ at[s] = 3 \/ at[s] = 4 \/ at[s] = 5 \/ at[s] = 6
      \/ at[s] = 7 \/ at[s] = 8 \/ at[s] = 9 \/ at[s] = 10 \/ at[s] = 11
      \/ at[s] = 12
  BY <1>1, SMT
<1>3. \A w \in Worker : w \in {"rx", "tx", "gossip", "maintenance", "connect"}
  BY DEF Worker
<1> QED BY <1>1, <1>2, <1>3, SMT DEF Step, Steps, Place

(* At the first prompt there is no Tunnel.                                 *)
LEMMA ShutInitInv == ShutInit => SInv
<1> SUFFICES ASSUME ShutInit PROVE SInv
  OBVIOUS
<1>1. cli.pc = "prompt" /\ cli.then = "prompt" /\ cli.passes = 0
  BY DEF ShutInit, Prompt
<1>2. at["repl"] = 0 /\ at["teardown"] = 0 /\ \A s \in Stopper : at[s] = 0
  BY DEF ShutInit, Stopper
<1>3. \A w \in Worker : thread[w] = "none"
  BY DEF ShutInit, NoThreads
<1>4. ShutTypeOK
  <2>1. cli \in [pc : {"prompt"}, then : {"prompt"}, passes : {0}] /\ Len(Spawned) = 4
    BY DEF ShutInit, Prompt, Spawned
  <2>2. thread \in [Worker -> {"none"}] /\ at \in [Stopper -> {0}] /\ Len(Steps) = 12
    BY DEF ShutInit, NoThreads, Steps
  <2>3. {is_creator, running, receiving, transfers, wrecked} \subseteq BOOLEAN /\ open = {}
    BY DEF ShutInit
  <2> QED BY <2>1, <2>2, <2>3, SMT DEF ShutTypeOK
<1>5. \A w \in Worker : Place(w) \in Nat
  BY DEF Place
<1>6. NothingLeft /\ StopInv /\ ReplInv
  BY <1>1, <1>2, <1>3, <1>5, SMT DEF ShutInit, NothingLeft, StopInv, ReplInv
<1>7. ClosedInv /\ StartInv
  BY <1>1, <1>2, <1>3 DEF ShutInit, ClosedInv, StartInv, Resting
<1> QED BY <1>4, <1>6, <1>7 DEF SInv

(* A step of a command or of start(), after which the flags, the threads   *)
(* and what is open are as the invariant wants them.                       *)
LEMMA CommandInv == ASSUME SInv, Command PROVE SInv'
<1>1. \A w \in Worker : Place(w) \in 4 .. 8
  BY SMT DEF Place
<1>2. ShutTypeOK
  BY DEF SInv
<1>3. ASSUME NEW n \in {1, 2}, NEW then \in {"prompt", "start", "quit"}, HasTunnel,
             StopThen(n, then)
      PROVE  SInv'
  <2>1. /\ cli'.pc = "stop" /\ cli'.then = then /\ cli'.passes = n
        /\ cli' \in [pc : {"stop"}, then : {"prompt", "start", "quit"}, passes : {1, 2}]
    BY <1>3 DEF StopThen
  <2>2. /\ at'["repl"] = 1 /\ at'["teardown"] = at["teardown"]
        /\ at' \in [Stopper -> 0 .. Len(Steps)]
    BY <1>2, <1>3, SMT DEF StopThen, ShutTypeOK, Stopper, Steps
  <2>3. UNCHANGED <<is_creator, running, receiving, open, transfers, thread, wrecked>>
    BY <1>3 DEF StopThen
  <2>4. ShutTypeOK'
    BY <1>2, <2>1, <2>2, <2>3, SMT DEF ShutTypeOK, Spawned
  <2>5. StopInv'
    BY <1>1, <2>2, <2>3, SMT DEF SInv, StopInv, Stopper, Resting
  <2>6. ReplInv'
    BY <1>1, <2>1, <2>2, SMT DEF ReplInv
  <2>7. ClosedInv' /\ StartInv' /\ NothingLeft'
    BY <2>1, <2>3 DEF SInv, ClosedInv, StartInv, NothingLeft, Before, NoTunnel, AtPrompt, Resting
  <2> QED BY <2>4, <2>5, <2>6, <2>7 DEF SInv
<1>4. ASSUME NEW pc \in {"quit", "start"}, NEW then, AtPrompt, cli.then # "running",
             cli'.pc = pc, cli'.then = then, cli' \in [pc : {"quit", "start"},
               then : {"prompt", "start", "quit"}, passes : 0 .. Len(Spawned)],
             UNCHANGED <<is_creator, running, receiving, open, transfers, thread, at, wrecked>>
      PROVE  SInv'
  <2>1. ShutTypeOK'
    BY <1>2, <1>4 DEF ShutTypeOK
  <2>2. NothingLeft' /\ StartInv'
    BY <1>4 DEF SInv, NothingLeft, StartInv, Before, NoTunnel, AtPrompt, NoThreads
  <2>3. StopInv' /\ ClosedInv'
    BY <1>4 DEF SInv, StopInv, ClosedInv, Resting
  <2>4. ReplInv'
    BY <1>4 DEF SInv, ReplInv, AtPrompt
  <2> QED BY <2>1, <2>2, <2>3, <2>4 DEF SInv
<1>5. CASE Leave \/ Delete \/ Quit \/ ConfigAgain
  BY <1>3, <1>5 DEF Leave, Delete, Quit, ConfigAgain
<1>6. CASE QuitIdle
  <2>1. /\ cli'.pc = "quit" /\ cli'.then = cli.then
        /\ cli' \in [pc : {"quit", "start"}, then : {"prompt", "start", "quit"},
                     passes : 0 .. Len(Spawned)]
    BY <1>2, <1>6 DEF QuitIdle, ShutTypeOK
  <2> QED BY <1>4, <1>6, <2>1 DEF QuitIdle
<1>7. CASE Config
  <2>1. /\ cli'.pc = "start" /\ cli'.then = "start"
        /\ cli' \in [pc : {"quit", "start"}, then : {"prompt", "start", "quit"},
                     passes : 0 .. Len(Spawned)]
    BY <1>7, SMT DEF Config, Spawned
  <2> QED BY <1>4, <1>7, <2>1 DEF Config
<1> QED BY <1>5, <1>6, <1>7 DEF Command

(* start() spawns its threads one after the other.                         *)
LEMMA StartingInv == ASSUME SInv, Starting PROVE SInv'
<1>1. \A w \in Worker : Place(w) \in 4 .. 8
  BY SMT DEF Place
<1>2. ShutTypeOK
  BY DEF SInv
<1>3. CASE StartFails
  <2>1. cli'.pc = "prompt" /\ cli'.then = "prompt" /\ cli.pc = "start"
        /\ UNCHANGED <<is_creator, running, receiving, open, transfers, thread, at, wrecked>>
    BY <1>3 DEF StartFails, Prompt
  <2>2. ShutTypeOK'
    BY <1>2, <1>3, <2>1, SMT DEF ShutTypeOK, StartFails, Prompt, Spawned
  <2>3. NothingLeft' /\ StartInv'
    BY <2>1 DEF SInv, NothingLeft, StartInv, Before, NoTunnel, AtPrompt, NoThreads
  <2>4. StopInv' /\ ClosedInv' /\ ReplInv'
    BY <2>1 DEF SInv, StopInv, ClosedInv, ReplInv, Resting
  <2> QED BY <2>2, <2>3, <2>4 DEF SInv
<1>4. CASE StartOpens
  <2>1. cli'.pc = "receive" /\ cli.pc = "start" /\ open' = Both
        /\ UNCHANGED <<running, receiving, transfers, thread, at, wrecked>>
    BY <1>2, <1>4 DEF StartOpens, ShutTypeOK, Both
  <2>2. ShutTypeOK'
    BY <1>2, <1>4, <2>1 DEF ShutTypeOK, StartOpens
  <2>3. NothingLeft' /\ StartInv'
    BY <2>1 DEF SInv, NothingLeft, StartInv, Before, NoTunnel, AtPrompt, NoThreads
  <2>4. StopInv' /\ ClosedInv'
    BY <2>1 DEF SInv, StopInv, ClosedInv, Resting
  <2>5. ReplInv'
    <3>1. at["repl"] = 0
      BY <2>1 DEF SInv, ReplInv
    <3> QED BY <1>1, <2>1, <3>1, SMT DEF ReplInv
  <2> QED BY <2>2, <2>3, <2>4, <2>5 DEF SInv
<1>5. CASE StartReceive
  <2>1. /\ cli'.pc = "run" /\ cli.pc = "receive" /\ receiving'
        /\ thread' = [thread EXCEPT !["rx"] = "top"]
        /\ UNCHANGED <<running, open, transfers, at, wrecked>>
    BY <1>2, <1>5 DEF StartReceive, ShutTypeOK
  <2>2. ShutTypeOK'
    BY <1>2, <1>5, <2>1 DEF ShutTypeOK, StartReceive
  <2>3. at["repl"] = 0 /\ at["teardown"] = 0 /\ \A s \in Stopper : at[s] = 0
    BY <2>1 DEF SInv, ReplInv, StartInv, Before, Stopper
  <2>4. NothingLeft' /\ StartInv' /\ ClosedInv'
    BY <2>1 DEF SInv, NothingLeft, StartInv, Before, NoTunnel, AtPrompt, ClosedInv
  <2>5. StopInv' /\ ReplInv'
    BY <1>1, <2>1, <2>3, SMT DEF StopInv, ReplInv
  <2> QED BY <2>2, <2>4, <2>5 DEF SInv
<1>6. CASE StartRunning
  <2>1. /\ cli'.pc = "spawn" /\ cli.pc = "run" /\ running'
        /\ UNCHANGED <<receiving, open, transfers, thread, at, wrecked>>
    BY <1>2, <1>6 DEF StartRunning, ShutTypeOK
  <2>2. ShutTypeOK'
    BY <1>2, <1>6, <2>1 DEF ShutTypeOK, StartRunning
  <2>3. at["repl"] = 0 /\ at["teardown"] = 0 /\ \A s \in Stopper : at[s] = 0
    BY <2>1 DEF SInv, ReplInv, StartInv, Before, Stopper
  <2>4. NothingLeft' /\ StartInv' /\ ClosedInv'
    BY <2>1 DEF SInv, NothingLeft, StartInv, Before, NoTunnel, AtPrompt, ClosedInv
  <2>5. StopInv' /\ ReplInv'
    BY <1>1, <2>1, <2>3, SMT DEF StopInv, ReplInv
  <2> QED BY <2>2, <2>4, <2>5 DEF SInv
<1>7. CASE Spawn
  <2> DEFINE new == Spawned[cli.passes + 1]
  <2>1. cli.passes \in 0 .. 3
    BY <1>2, <1>7, SMT DEF Spawn, ShutTypeOK, Spawned
  <2>2. new \in Worker
    <3>1. cli.passes = 0 \/ cli.passes = 1 \/ cli.passes = 2 \/ cli.passes = 3
      BY <2>1, SMT
    <3> QED BY <3>1, SMT DEF Spawned, Worker
  <2>3. /\ cli'.pc = "spawn" /\ cli.pc = "spawn" /\ thread' = [thread EXCEPT ![new] = "top"]
        /\ UNCHANGED <<is_creator, running, receiving, open, transfers, at, wrecked>>
    BY <1>2, <1>7 DEF Spawn, ShutTypeOK
  <2>4. ShutTypeOK'
    BY <1>2, <1>7, <2>1, <2>2, <2>3, SMT DEF ShutTypeOK, Spawn, Spawned
  <2>5. /\ DOMAIN thread = Worker
        /\ \A w \in Worker : Resting(w) => Resting(w)'
    BY <1>2, <2>2, <2>3 DEF ShutTypeOK, Resting
  <2> HIDE DEF new
  <2>6. NothingLeft' /\ StartInv'
    BY <2>3 DEF NothingLeft, StartInv, Before, NoTunnel, AtPrompt
  <2>7. StopInv' /\ ClosedInv'
    BY <2>3, <2>5 DEF SInv, StopInv, ClosedInv
  <2>8. ReplInv'
    <3>1. at["repl"] = 0
      BY <2>3 DEF SInv, ReplInv
    <3> QED BY <1>1, <2>3, <3>1, SMT DEF ReplInv
  <2> QED BY <2>4, <2>6, <2>7, <2>8 DEF SInv
<1>8. CASE Started
  <2>1. /\ cli'.pc = "prompt" /\ cli'.then = "running" /\ cli.pc = "spawn"
        /\ UNCHANGED <<is_creator, running, receiving, open, transfers, thread, at, wrecked>>
    BY <1>8 DEF Started
  <2>2. ShutTypeOK'
    BY <1>2, <1>8, <2>1, SMT DEF ShutTypeOK, Started, Spawned
  <2>3. NothingLeft' /\ StartInv'
    BY <2>1 DEF NothingLeft, StartInv, Before, NoTunnel, AtPrompt
  <2>4. StopInv' /\ ClosedInv' /\ ReplInv'
    BY <2>1 DEF SInv, StopInv, ClosedInv, ReplInv, Resting
  <2> QED BY <2>2, <2>3, <2>4 DEF SInv
<1> QED BY <1>3, <1>4, <1>5, <1>6, <1>7, <1>8 DEF Starting

(* A step of one of the five kinds of threads in its loop.                 *)
LEMMA WorkInv == ASSUME SInv, NEW w \in Worker, Work(w) PROVE SInv'
<1>1. ShutTypeOK /\ \A v \in Worker : Place(v) \in 4 .. 8
  BY SMT DEF SInv, Place
<1>2. UNCHANGED <<cli, is_creator, running, receiving, open, transfers, at, wrecked>>
  BY DEF Work, Enter, Again, Evaluate, Block, TimesOut, Moves
<1>3. PICK to \in {"top", "busy", "evaluated", "blocked"} :
        thread' = [thread EXCEPT ![w] = to]
  BY DEF Work, Enter, Again, Evaluate, Block, TimesOut, Moves
<1>4. thread[w] # "none"
  BY DEF Work, Enter, Again, Evaluate, Block, TimesOut, Moves
<1>5. Resting(w) => (IF w = "rx" THEN receiving ELSE running)
  BY DEF Work, Enter, Again, Evaluate, Block, TimesOut, Moves, Going, Resting, CvWaiter
<1>6. /\ DOMAIN thread = Worker
      /\ \A v \in Worker : v # w => thread'[v] = thread[v]
  BY <1>1, <1>3 DEF ShutTypeOK
<1>7. ShutTypeOK'
  BY <1>1, <1>2, <1>3 DEF ShutTypeOK
<1>8. NothingLeft'
  BY <1>2, <1>4 DEF SInv, NothingLeft, AtPrompt, NoThreads
<1>9. StopInv'
  <2> SUFFICES ASSUME NEW s \in Stopper PROVE \A v \in Worker : at[s] > Place(v) => Resting(v)'
    BY <1>2 DEF SInv, StopInv
  <2>1. at[s] \in Nat
    BY <1>1, SMT DEF ShutTypeOK, Steps
  <2>2. at[s] > Place(w) => ~Resting(w)
    <3>1. at[s] > Place(w) => (IF w = "rx" THEN at[s] > 3 ELSE at[s] > 1)
      BY <1>1, <2>1, SMT
    <3> QED BY <1>5, <3>1 DEF SInv, StopInv
  <2>3. ~(at[s] > Place(w))
    BY <2>2 DEF SInv, StopInv
  <2> QED BY <1>6, <2>3 DEF SInv, StopInv, Resting
<1>10. ReplInv'
  BY <1>2, <1>4, <1>6 DEF SInv, ReplInv
<1>11. ClosedInv'
  <2>1. open = Both
    BY <1>5 DEF SInv, ClosedInv
  <2> QED BY <1>2, <2>1 DEF ClosedInv
<1>12. StartInv'
  BY <1>2, <1>4 DEF SInv, StartInv, Before, NoTunnel, AtPrompt, NoThreads
<1> QED BY <1>7, <1>8, <1>9, <1>10, <1>11, <1>12 DEF SInv

(* A frame comes in; it may be the teardown that detaches a stop().        *)
LEMMA ReceiverInv == ASSUME SInv, Incoming \/ Teardown PROVE SInv'
<1>1. ShutTypeOK /\ \A v \in Worker : Place(v) \in 4 .. 8
  BY SMT DEF SInv, Place
<1>2. thread["rx"] = "busy" /\ thread # NoThreads
  BY DEF Incoming, Teardown, NoThreads, Worker
<1>3. CASE Incoming
  <2>1. /\ transfers'
        /\ UNCHANGED <<cli, is_creator, running, receiving, open, thread, at, wrecked>>
    BY <1>3 DEF Incoming
  <2>2. ShutTypeOK' /\ StopInv' /\ ReplInv' /\ ClosedInv'
    BY <1>1, <2>1 DEF SInv, ShutTypeOK, StopInv, ReplInv, ClosedInv, Resting
  <2>3. NothingLeft' /\ StartInv'
    BY <1>2, <2>1 DEF SInv, NothingLeft, StartInv, Before, NoTunnel, AtPrompt
  <2> QED BY <2>2, <2>3 DEF SInv
<1>4. CASE Teardown
  <2>1. /\ running /\ at'["repl"] = at["repl"] /\ at'["teardown"] = 1
        /\ at' \in [Stopper -> 0 .. Len(Steps)]
        /\ UNCHANGED <<cli, is_creator, running, receiving, open, transfers, thread, wrecked>>
    BY <1>1, <1>4, SMT DEF Teardown, ShutTypeOK, Stopper, Steps
  <2>2. ShutTypeOK'
    BY <1>1, <2>1 DEF ShutTypeOK
  <2>3. StopInv'
    BY <1>1, <2>1, SMT DEF SInv, StopInv, Stopper, Resting
  <2>4. ReplInv' /\ ClosedInv'
    BY <2>1 DEF SInv, ReplInv, ClosedInv, Resting
  <2>5. NothingLeft' /\ StartInv'
    BY <1>2, <2>1 DEF SInv, NothingLeft, StartInv, Before, NoTunnel, AtPrompt
  <2> QED BY <2>2, <2>3, <2>4, <2>5 DEF SInv
<1> QED BY <1>3, <1>4

(* A step of stop() that moves on to the next one.                         *)
LEMMA AdvanceInv ==
  ASSUME SInv, NEW s \in Stopper, Advance(s), at[s] \in 1 .. 11,
         ShutTypeOK /\ running' \in BOOLEAN /\ receiving' \in BOOLEAN /\ open' \subseteq open,
         thread' \in [Worker -> {"none", "top", "busy", "evaluated", "blocked"}],
         UNCHANGED <<cli, is_creator, transfers, wrecked>>,
         running' => running, receiving' => receiving,
         \A w \in Worker : /\ thread[w] = "none" => thread'[w] = "none"
                           /\ Resting(w) => Resting(w)',
         at[s] = 1 => ~running', at[s] = 3 => ~receiving',
         \A w \in Worker : at[s] = Place(w) => thread'[w] = "none",
         at[s] = 10 => "socket" \notin open', at[s] = 11 => "adapter" \notin open',
         at[s] < 9 => open' = open
  PROVE  SInv'
<1>1. \A v \in Worker : Place(v) \in 4 .. 8
  BY SMT DEF Place
<1>2. /\ at' \in [Stopper -> 0 .. 12] /\ at'[s] = at[s] + 1 /\ at[s] \in Nat
      /\ \A t \in Stopper : t # s => at'[t] = at[t]
      /\ at \in [Stopper -> 0 .. 12] /\ Stopper = {"repl", "teardown"}
  BY SMT DEF Advance, ShutTypeOK, Stopper, Steps
<1>3. cli.pc # "stop" => s # "repl"
  BY <1>2, SMT DEF SInv, ReplInv
<1>4. ~Before
  <2>1. CASE s = "repl"
    BY <2>1, <1>2, SMT DEF SInv, ReplInv, Before, NoTunnel, AtPrompt
  <2>2. CASE s = "teardown"
    BY <2>2, <1>2, SMT DEF SInv, StartInv
  <2> QED BY <2>1, <2>2, <1>2
<1>5. ShutTypeOK'
  <2>1. Len(Steps) = 12
    BY DEF Steps
  <2> QED BY <1>2, <2>1 DEF ShutTypeOK
<1>6. NothingLeft' /\ StartInv'
  BY <1>4 DEF NothingLeft, StartInv, Before, NoTunnel, AtPrompt
<1>7. StopInv'
  <2> SUFFICES ASSUME NEW t \in Stopper
               PROVE  /\ at'[t] > 1 => ~running'
                      /\ at'[t] > 3 => ~receiving'
                      /\ \A w \in Worker : at'[t] > Place(w) => Resting(w)'
    BY DEF StopInv
  <2>1. CASE t # s
    BY <1>2, <2>1 DEF SInv, StopInv
  <2>2. CASE t = s
    <3>1. \A w \in Worker : at'[s] > Place(w) => at[s] > Place(w) \/ at[s] = Place(w)
      BY <1>1, <1>2, SMT
    <3>2. /\ at'[s] > 1 => at[s] > 1 \/ at[s] = 1
          /\ at'[s] > 3 => at[s] > 3 \/ at[s] = 3
      BY <1>2, SMT
    <3> QED BY <2>2, <3>1, <3>2 DEF SInv, StopInv, Resting
  <2> QED BY <2>1, <2>2
<1>8. ReplInv'
  <2>1. CASE s # "repl"
    BY <1>2, <2>1 DEF SInv, ReplInv
  <2>2. CASE s = "repl"
    <3>1. \A w \in Worker : at'[s] > Place(w) => at[s] > Place(w) \/ at[s] = Place(w)
      BY <1>1, <1>2, SMT
    <3>2. /\ at'[s] > 10 => at[s] > 10 \/ at[s] = 10
          /\ at'[s] > 11 => at[s] > 11 \/ at[s] = 11
          /\ at[s] # 0 /\ at'[s] # 0
      BY <1>2, SMT
    <3> QED BY <2>2, <3>1, <3>2 DEF SInv, ReplInv
  <2> QED BY <2>1, <2>2
<1>9. ClosedInv'
  <2>1. CASE at[s] < 9
    BY <2>1 DEF SInv, ClosedInv
  <2>2. CASE at[s] >= 9
    <3>1. at[s] > 1 /\ at[s] > 3 /\ \A w \in Worker : at[s] > Place(w)
      BY <1>1, <1>2, <2>2, SMT
    <3> QED BY <3>1 DEF SInv, StopInv, ClosedInv
  <2> QED BY <1>2, <2>1, <2>2, SMT
<1> QED BY <1>5, <1>6, <1>7, <1>8, <1>9 DEF SInv

(* The process is lost: nothing else changes.                              *)
LEMMA WreckedKeepsInv ==
  ASSUME SInv, wrecked' \in BOOLEAN,
         UNCHANGED <<cli, is_creator, running, receiving, open, transfers, thread, at>>
  PROVE  SInv'
<1>1. ShutTypeOK' /\ NothingLeft' /\ StartInv'
  BY DEF SInv, ShutTypeOK, NothingLeft, StartInv, Before, NoTunnel, AtPrompt, NoThreads
<1>2. StopInv' /\ ReplInv' /\ ClosedInv'
  BY DEF SInv, StopInv, ReplInv, ClosedInv, Resting
<1> QED BY <1>1, <1>2 DEF SInv

(* A step of stop() on one of the threads that may run it.                 *)
LEMMA StopStepInv == ASSUME SInv, NEW s \in Stopper, Stop(s) PROVE SInv'
<1>1. ShutTypeOK /\ \A v \in Worker : Place(v) \in 4 .. 8
  BY SMT DEF SInv, Place
<1>2. /\ at[s] \in 0 .. 12
      /\ Step(s) = "flag" <=> at[s] = 1
      /\ Step(s) = "notify" <=> at[s] = 2
      /\ Step(s) = "stop_rx" <=> at[s] = 3
      /\ Step(s) = "drop" <=> at[s] = 9
      /\ Step(s) = "close" <=> at[s] = 10
      /\ Step(s) = "adapter" <=> at[s] = 11
      /\ Step(s) = "clear" <=> at[s] = 12
      /\ \A w \in Worker : Step(s) = w <=> at[s] = Place(w)
  BY <1>1, StepPlaces
<1>3. /\ running \in BOOLEAN /\ receiving \in BOOLEAN
      /\ thread \in [Worker -> {"none", "top", "busy", "evaluated", "blocked"}]
  BY <1>1 DEF ShutTypeOK
<1>4. CASE SetFlag(s)
  <2>1. /\ at[s] = 1 /\ Advance(s) /\ ~running' /\ running' \in BOOLEAN
        /\ UNCHANGED <<cli, is_creator, receiving, open, transfers, thread, wrecked>>
    BY <1>2, <1>4 DEF SetFlag
  <2>2. \A w \in Worker : at[s] # Place(w)
    BY <1>1, <2>1, SMT
  <2> QED BY <1>1, <1>3, <2>1, <2>2, AdvanceInv, SMT DEF Resting
<1>5. CASE NotifyAll(s)
  <2>1. /\ at[s] = 2 /\ Advance(s)
        /\ thread' = [w \in Worker |-> IF thread[w] = "blocked" THEN "top" ELSE thread[w]]
        /\ UNCHANGED <<cli, is_creator, running, receiving, open, transfers, wrecked>>
    BY <1>2, <1>5 DEF NotifyAll
  <2>2. \A w \in Worker : at[s] # Place(w)
    BY <1>1, <2>1, SMT
  <2>3. /\ thread' \in [Worker -> {"none", "top", "busy", "evaluated", "blocked"}]
        /\ \A w \in Worker : /\ thread[w] = "none" => thread'[w] = "none"
                             /\ Resting(w) => Resting(w)'
    BY <1>3, <2>1 DEF Resting
  <2> QED BY <1>1, <1>3, <2>1, <2>2, <2>3, AdvanceInv, SMT
<1>6. CASE StopReceive(s)
  <2>1. /\ at[s] = 3 /\ Advance(s) /\ ~receiving' /\ receiving' \in BOOLEAN
        /\ UNCHANGED <<cli, is_creator, running, open, transfers, thread, wrecked>>
    BY <1>2, <1>6 DEF StopReceive
  <2>2. \A w \in Worker : at[s] # Place(w)
    BY <1>1, <2>1, SMT
  <2> QED BY <1>1, <1>3, <2>1, <2>2, AdvanceInv, SMT DEF Resting
<1>7. CASE Join(s)
  <2> DEFINE w == Step(s)
  <2>1. /\ w \in Worker /\ Advance(s) /\ thread' = [thread EXCEPT ![w] = "none"]
        /\ UNCHANGED <<cli, is_creator, running, receiving, open, transfers, wrecked>>
    BY <1>7 DEF Join
  <2>2. at[s] = Place(w) /\ at[s] \in 4 .. 8
    BY <1>1, <1>2, <2>1
  <2>3. \A v \in Worker : at[s] = Place(v) => v = w
    BY <1>2, <2>2
  <2> HIDE DEF w
  <2>4. /\ thread' \in [Worker -> {"none", "top", "busy", "evaluated", "blocked"}]
        /\ \A v \in Worker : /\ thread[v] = "none" => thread'[v] = "none"
                             /\ Resting(v) => Resting(v)'
                             /\ at[s] = Place(v) => thread'[v] = "none"
    BY <1>3, <2>1, <2>3 DEF Resting
  <2> QED BY <1>1, <1>3, <2>1, <2>2, <2>4, AdvanceInv, SMT
<1>8. CASE Close(s)
  <2>1. /\ at[s] \in {10, 11} /\ Advance(s) /\ open' \subseteq open
        /\ at[s] = 10 => "socket" \notin open'
        /\ at[s] = 11 => "adapter" \notin open'
        /\ UNCHANGED <<cli, is_creator, running, receiving, transfers, thread, wrecked>>
    BY <1>2, <1>8 DEF Close
  <2>2. \A w \in Worker : at[s] # Place(w)
    BY <1>1, <2>1, SMT
  <2> QED BY <1>1, <1>3, <2>1, <2>2, AdvanceInv, SMT DEF Resting
<1>9. CASE Clear(s)
  <2>1. /\ at[s] = 12 /\ ~transfers' /\ transfers' \in BOOLEAN
        /\ UNCHANGED <<is_creator, running, receiving, open, thread>>
    BY <1>2, <1>9 DEF Clear
  <2>2. at \in [Stopper -> 0 .. 12] /\ Stopper = {"repl", "teardown"} /\ Len(Steps) = 12
        /\ Len(Spawned) = 4
    BY <1>1 DEF ShutTypeOK, Stopper, Steps, Spawned
  <2>3. \A v \in Worker : 12 > Place(v) /\ ~(1 > Place(v)) /\ ~(0 > Place(v))
    BY SMT DEF Place
  <2>4. ~running /\ ~receiving /\ \A v \in Worker : Resting(v)
    BY <2>1, <2>3, SMT DEF SInv, StopInv
  <2>5. CASE s = "repl" /\ cli.passes > 1
    <3>1. /\ cli' = [cli EXCEPT !.passes = @ - 1] /\ wrecked' = wrecked
          /\ at' \in [Stopper -> 0 .. 12] /\ at'["repl"] = 1 /\ at'["teardown"] = at["teardown"]
      BY <1>9, <2>2, <2>5, SMT DEF Clear
    <3>2. cli.pc = "stop" /\ cli.then \in {"prompt", "start", "quit"} /\ cli.passes \in 2 .. 4
      BY <1>1, <2>1, <2>2, <2>5, SMT DEF SInv, ReplInv, ShutTypeOK
    <3>3. cli'.pc = "stop" /\ cli'.then = cli.then /\ cli'.passes \in 1 .. 3
          /\ cli' \in [pc : {"stop"}, then : {"prompt", "start", "quit"}, passes : 0 .. 4]
      BY <1>1, <2>2, <3>1, <3>2, SMT DEF ShutTypeOK
    <3>4. ShutTypeOK'
      BY <1>1, <2>1, <2>2, <3>1, <3>3 DEF ShutTypeOK
    <3>5. NothingLeft' /\ StartInv' /\ ClosedInv'
      BY <2>1, <2>4, <3>3 DEF NothingLeft, StartInv, ClosedInv, Before, NoTunnel, AtPrompt, Resting
    <3>6. StopInv'
      BY <2>1, <2>4, <3>1 DEF StopInv, Resting
    <3>7. ReplInv'
      BY <2>3, <3>1, <3>3, SMT DEF ReplInv
    <3> QED BY <3>4, <3>5, <3>6, <3>7 DEF SInv
  <2>6. CASE s = "repl" /\ ~(cli.passes > 1) /\ at["teardown"] = 0
    <3>1. /\ at' = [at EXCEPT !["repl"] = 0] /\ wrecked' = wrecked
          /\ cli' = [Prompt EXCEPT !.pc = cli.then]
          /\ at' \in [Stopper -> 0 .. 12] /\ at'["repl"] = 0 /\ at'["teardown"] = 0
      BY <1>9, <2>2, <2>6, SMT DEF Clear
    <3>2. cli.then \in {"prompt", "start", "quit"}
      BY <2>1, <2>6, SMT DEF SInv, ReplInv
    <3>3. /\ cli' \in [pc : {"prompt", "start", "quit"}, then : {"prompt"}, passes : {0}]
          /\ cli'.pc \in {"prompt", "start", "quit"}
      BY <3>1, <3>2 DEF Prompt
    <3>4. open = {} /\ thread = NoThreads
      <4>1. "socket" \notin open /\ "adapter" \notin open /\ open \subseteq {"socket", "adapter"}
        BY <1>1, <2>1, <2>6, SMT DEF SInv, ReplInv, ShutTypeOK
      <4>2. \A v \in Worker : thread[v] = "none"
        BY <2>1, <2>3, <2>6 DEF SInv, ReplInv
      <4> QED BY <1>3, <4>1, <4>2 DEF NoThreads
    <3>5. ShutTypeOK'
      <4>1. cli' \in [pc : {"prompt", "start", "receive", "run", "spawn", "stop", "quit"},
                       then : {"prompt", "running", "start", "quit"}, passes : 0 .. Len(Spawned)]
        BY <2>2, <3>3, SMT
      <4> QED BY <1>1, <2>1, <2>2, <3>1, <4>1 DEF ShutTypeOK
    <3>6. NothingLeft'
      BY <2>1, <2>4, <3>4 DEF NothingLeft, NoThreads
    <3>7. StartInv' /\ ClosedInv'
      BY <2>1, <2>2, <2>4, <3>1, <3>3 DEF StartInv, ClosedInv, Resting
    <3>8. StopInv' /\ ReplInv'
      BY <2>2, <2>3, <3>1, <3>3, SMT DEF StopInv, ReplInv
    <3> QED BY <3>5, <3>6, <3>7, <3>8 DEF SInv
  <2>7. CASE s = "teardown"
    <3>1. /\ at' \in [Stopper -> 0 .. 12] /\ at'["teardown"] = 0 /\ at'["repl"] = at["repl"]
          /\ UNCHANGED <<cli, wrecked>>
      BY <1>9, <2>2, <2>7, SMT DEF Clear
    <3>2. ShutTypeOK'
      BY <1>1, <2>1, <2>2, <3>1 DEF ShutTypeOK
    <3>3. NothingLeft' /\ StartInv'
      BY <2>1, <3>1 DEF SInv, NothingLeft, StartInv, Before, NoTunnel, AtPrompt, NoThreads
    <3>4. StopInv' /\ ReplInv' /\ ClosedInv'
      BY <2>1, <2>2, <2>3, <2>4, <3>1 DEF SInv, StopInv, ReplInv, ClosedInv, Resting
    <3> QED BY <3>2, <3>3, <3>4 DEF SInv
  <2>8. CASE s = "repl" /\ ~(cli.passes > 1) /\ at["teardown"] # 0
    <3>1. wrecked' \in BOOLEAN /\ UNCHANGED <<cli, at>>
      BY <1>9, <2>8 DEF Clear
    <3>2. ShutTypeOK'
      BY <1>1, <2>1, <3>1 DEF ShutTypeOK
    <3>3. NothingLeft' /\ StartInv'
      BY <2>1, <3>1 DEF SInv, NothingLeft, StartInv, Before, NoTunnel, AtPrompt, NoThreads
    <3>4. StopInv' /\ ReplInv' /\ ClosedInv'
      BY <2>1, <3>1 DEF SInv, StopInv, ReplInv, ClosedInv, Resting
    <3> QED BY <3>2, <3>3, <3>4 DEF SInv
  <2> QED BY <2>2, <2>5, <2>6, <2>7, <2>8
<1>10. CASE DropThreads(s)
  <2>1. /\ at[s] = 9
        /\ UNCHANGED <<cli, is_creator, running, receiving, open, transfers, thread>>
    BY <1>2, <1>10 DEF DropThreads
  <2>2. \A w \in Worker : at[s] # Place(w)
    BY <1>1, <2>1, SMT
  <2>3. CASE thread["connect"] = "none"
    <3>1. Advance(s) /\ UNCHANGED wrecked
      BY <1>10, <2>3 DEF DropThreads
    <3> QED BY <1>1, <1>3, <2>1, <2>2, <3>1, AdvanceInv, SMT DEF Resting
  <2>4. CASE thread["connect"] # "none"
    <3>1. wrecked' \in BOOLEAN /\ UNCHANGED at
      BY <1>10, <2>4 DEF DropThreads
    <3> QED BY <2>1, <3>1, WreckedKeepsInv
  <2> QED BY <2>3, <2>4
<1> QED BY <1>4, <1>5, <1>6, <1>7, <1>8, <1>9, <1>10 DEF Stop

(* Every step keeps the invariant.                                         *)
LEMMA ShutNextInv == SInv /\ [ShutNext]_shutVars => SInv'
<1> SUFFICES ASSUME SInv, [ShutNext]_shutVars PROVE SInv'
  OBVIOUS
<1>1. CASE UNCHANGED shutVars
  BY <1>1 DEF shutVars, SInv, ShutTypeOK, NothingLeft, StopInv, ReplInv, ClosedInv, StartInv,
     Before, NoTunnel, AtPrompt, Resting
<1>2. CASE Wreck
  BY <1>2, WreckedKeepsInv DEF Wreck
<1> QED BY <1>1, <1>2, CommandInv, StartingInv, ReceiverInv, WorkInv, StopStepInv DEF ShutNext

(* The process is lost only while the detached thread is in stop(): the    *)
(* REPL thread has joined connect_threads_ before it empties them, and     *)
(* meets no one else.                                                      *)
LEMMA WreckInv == SInv /\ WreckedByTeardown /\ [ShutNext]_shutVars => WreckedByTeardown'
<1> SUFFICES ASSUME SInv, ShutNext, wrecked' PROVE at'["teardown"] # 0
  BY DEF WreckedByTeardown, shutVars
<1>1. ~wrecked /\ ShutTypeOK
  BY DEF ShutNext, SInv
<1>2. CASE Wreck
  <2>1. Step("teardown") # "none"
    <3>1. "none" \notin Worker /\ "none" \notin {"close", "adapter", "drop", "connect"}
      BY DEF Worker
    <3> QED BY <1>2, <3>1 DEF Wreck, Racing
  <2> QED BY <1>2, <2>1 DEF Wreck, Step
<1>3. ASSUME NEW s \in Stopper, Clear(s) PROVE at'["teardown"] # 0
  BY <1>1, <1>3 DEF Clear
<1>4. ASSUME NEW s \in Stopper, DropThreads(s) PROVE at'["teardown"] # 0
  <2>1. thread["connect"] # "none" /\ UNCHANGED at
    BY <1>1, <1>4 DEF DropThreads
  <2>2. at[s] = 9 /\ "connect" \in Worker /\ Place("connect") = 8
    BY <1>1, <1>4, StepPlaces DEF DropThreads, Worker, Place
  <2>3. at[s] > Place("connect")
    BY <2>2, SMT
  <2>4. s # "repl"
    BY <2>1, <2>2, <2>3 DEF SInv, ReplInv
  <2> QED BY <2>1, <2>2, <2>4, SMT DEF Stopper
<1> QED
  BY <1>1, <1>2, <1>3, <1>4 DEF ShutNext, Command, Leave, Delete, Quit, QuitIdle, ConfigAgain,
     Config, StopThen, Starting, StartFails, StartOpens, StartReceive, StartRunning, Spawn,
     Started, Teardown, Incoming, Work, Enter, Again, Evaluate, Block, TimesOut, Moves, Stop,
     SetFlag, NotifyAll, StopReceive, Join, Close

(* Whenever stop() runs, on the REPL thread, in the destructor, on the     *)
(* detached thread of a teardown or on two of them at once, and even while *)
(* start() is still spawning threads: no thread is in its loop when the    *)
(* socket or the adapter is closed, where there is no Tunnel every thread  *)
(* is joined, everything closed and no transfer listed, and the process is *)
(* lost to undefined behaviour only while a teardown is in stop().         *)
THEOREM StopIsClean == ShutInit /\ [][ShutNext]_shutVars => []CleanStop
<1>1. SInv /\ WreckedByTeardown => CleanStop
  BY DEF SInv, CleanStop, OpenWhenUsed, ClosedInv, Both, Resting
<1>2. ShutInit => WreckedByTeardown
  BY DEF ShutInit, WreckedByTeardown
<1> QED BY <1>1, <1>2, ShutInitInv, ShutNextInv, WreckInv, PTL

-----------------------------------------------------------------------------
(* Relay: token buckets and onions.                                        *)

(* A bucket of the limiter.                                                *)
BucketOk(b, burst) ==
  b \in [tokens : (0 .. burst[1]) \X (0 .. burst[2]), age : 0 .. IdleTtl]

(* The limiter q of a node holds what the ideal buckets c hold.            *)
LimiterExact(q, c) ==
  /\ q = [global |-> q.global, peers |-> q.peers]
  /\ BucketOk(q.global, GlobalBurst)
  /\ DOMAIN q.peers \subseteq RelayNode
  /\ \A m \in DOMAIN q.peers : BucketOk(q.peers[m], PeerBurst)
  /\ c.peers \in [RelayNode -> Nat \X Nat]
  /\ Refill(q.global, GlobalRate, GlobalBurst) = c.global
  /\ \A m \in RelayNode :
       c.peers[m] = IF m \in DOMAIN q.peers THEN Refill(q.peers[m], PeerRate, PeerBurst) ELSE PeerBurst

(* What an hour of refilling gives at once or in steps: one component.     *)
LEMMA FillOnce ==
  ASSUME NEW t \in Nat, NEW a \in Nat, NEW r \in Nat, NEW b \in Nat
  PROVE  Least(b, Least(b, t + a * r) + 1 * r) = Least(b, t + (a + 1) * r)
<1>1. (a + 1) * r = a * r + r /\ 1 * r = r /\ a * r \in Nat
  BY SMT
<1> DEFINE x == a * r
           y == (a + 1) * r
           z == 1 * r
<1>2. y = x + r /\ z = r /\ x \in Nat
  BY <1>1
<1> HIDE DEF x, y, z
<1> SUFFICES Least(b, Least(b, t + x) + z) = Least(b, t + y)
  BY DEF x, y, z
<1> QED BY <1>2, SMT DEF Least

(* A bucket that was idle for the whole IdleTtl is full.                   *)
LEMMA IdleIsFull ==
  ASSUME NEW t \in Nat, NEW a \in Nat, NEW r \in Nat, NEW b \in Nat, NEW ttl \in Nat,
         ttl * r >= b, a >= ttl
  PROVE  Least(b, t + a * r) = b
<1>1. a * r >= ttl * r /\ a * r \in Nat /\ ttl * r \in Nat
  BY SMT
<1> DEFINE x == a * r
           y == ttl * r
<1>2. x >= y /\ x \in Nat /\ y \in Nat /\ y >= b
  BY <1>1
<1> HIDE DEF x, y
<1> SUFFICES Least(b, t + x) = b
  BY DEF x
<1> QED BY <1>2, SMT DEF Least

(* The quotas are pairs of natural numbers.                                *)
LEMMA Pairs ==
  /\ \A p \in {PeerRate, PeerBurst, GlobalRate, GlobalBurst} :
       p \in Nat \X Nat /\ p[1] \in Nat /\ p[2] \in Nat /\ p = <<p[1], p[2]>>
  /\ IdleTtl \in Nat
  /\ \A i \in {1, 2} : IdleTtl * PeerRate[i] >= PeerBurst[i]
  /\ \A i \in {1, 2} : IdleTtl * GlobalRate[i] >= GlobalBurst[i]
<1>1. \A p \in {PeerRate, PeerBurst, GlobalRate, GlobalBurst} : p \in (Nat \ {0}) \X (Nat \ {0})
  BY RelayAssumption
<1>2. IdleTtl \in Nat
  BY RelayAssumption
<1>3. {1, 2} = 1 .. 2
  BY SMT
<1> QED BY <1>1, <1>2, <1>3, RelayAssumption, SMT

(* What a bucket holds is within its burst.                                *)
LEMMA RefillType ==
  ASSUME NEW b, NEW rate \in Nat \X Nat, NEW burst \in Nat \X Nat, BucketOk(b, burst)
  PROVE  Refill(b, rate, burst) \in (0 .. burst[1]) \X (0 .. burst[2])
<1>1. b.tokens[1] \in Nat /\ b.tokens[2] \in Nat /\ b.age \in Nat
  BY Pairs, SMT DEF BucketOk
<1>2. rate[1] \in Nat /\ rate[2] \in Nat /\ burst[1] \in Nat /\ burst[2] \in Nat
  OBVIOUS
<1>3. b.age * rate[1] \in Nat /\ b.age * rate[2] \in Nat
  BY <1>1, <1>2, SMT
<1> QED BY <1>1, <1>2, <1>3, SMT DEF Refill, Least

(* A bucket as allow leaves it: just refilled.                             *)
Now(t) == [tokens |-> t, age |-> 0]

(* It holds its tokens.                                                    *)
LEMMA JustRefilled ==
  ASSUME NEW rate \in Nat \X Nat, NEW burst \in Nat \X Nat,
         NEW t \in (0 .. burst[1]) \X (0 .. burst[2])
  PROVE  BucketOk(Now(t), burst) /\ Refill(Now(t), rate, burst) = t
<1>1. BucketOk(Now(t), burst)
  BY Pairs, SMT DEF BucketOk, Now
<1>2. t = <<t[1], t[2]>> /\ t[1] \in 0 .. burst[1] /\ t[2] \in 0 .. burst[2]
  BY SMT
<1>3. /\ rate[1] \in Nat /\ rate[2] \in Nat /\ burst[1] \in Nat /\ burst[2] \in Nat
      /\ 0 * rate[1] = 0 /\ 0 * rate[2] = 0
  BY SMT
<1> QED BY <1>1, <1>2, <1>3, SMT DEF Refill, Least, Now

(* Paying keeps a bucket within its burst.                                 *)
LEMMA SpendFacts ==
  ASSUME NEW burst \in Nat \X Nat, NEW t \in (0 .. burst[1]) \X (0 .. burst[2]),
         NEW bytes \in Nat, Enough(t, bytes)
  PROVE  Spend(t, bytes) \in (0 .. burst[1]) \X (0 .. burst[2])
BY SMT DEF Enough, Spend

(* purge_idle drops full buckets only.                                     *)
LEMMA PurgeExact ==
  ASSUME NEW q, NEW c, LimiterExact(q, c), NEW m
  PROVE  LimiterExact([global |-> q.global, peers |-> LookedUp(q.peers, m)], c)
<1> DEFINE ps == LookedUp(q.peers, m)
<1>1. /\ DOMAIN ps \subseteq DOMAIN q.peers
      /\ \A x \in DOMAIN ps : ps[x] = q.peers[x]
      /\ \A x \in DOMAIN q.peers : x \notin DOMAIN ps => ~(q.peers[x].age < IdleTtl)
  BY DEF LookedUp, PurgeIdle
<1>2. ASSUME NEW x \in DOMAIN q.peers, x \notin DOMAIN ps
      PROVE  Refill(q.peers[x], PeerRate, PeerBurst) = PeerBurst
  <2> DEFINE b == q.peers[x]
  <2>1. BucketOk(b, PeerBurst) /\ ~(b.age < IdleTtl)
    BY <1>1, <1>2 DEF LimiterExact
  <2> HIDE DEF b
  <2>2. b.tokens[1] \in Nat /\ b.tokens[2] \in Nat /\ b.age \in Nat /\ b.age >= IdleTtl
    BY <2>1, Pairs, SMT DEF BucketOk
  <2>3. /\ PeerRate[1] \in Nat /\ PeerRate[2] \in Nat /\ PeerBurst[1] \in Nat /\ PeerBurst[2] \in Nat
        /\ PeerBurst = <<PeerBurst[1], PeerBurst[2]>> /\ IdleTtl \in Nat
        /\ IdleTtl * PeerRate[1] >= PeerBurst[1] /\ IdleTtl * PeerRate[2] >= PeerBurst[2]
    BY Pairs
  <2>4. Least(PeerBurst[1], b.tokens[1] + b.age * PeerRate[1]) = PeerBurst[1]
    BY <2>2, <2>3, IdleIsFull
  <2>5. Least(PeerBurst[2], b.tokens[2] + b.age * PeerRate[2]) = PeerBurst[2]
    BY <2>2, <2>3, IdleIsFull
  <2>6. Refill(b, PeerRate, PeerBurst) = PeerBurst
    BY <2>3, <2>4, <2>5 DEF Refill
  <2> QED BY <2>6 DEF b
<1> HIDE DEF ps
<1>3. LimiterExact([global |-> q.global, peers |-> ps], c)
  BY <1>1, <1>2 DEF LimiterExact
<1> QED BY <1>3 DEF ps

(* allow: the limiter and the ideal buckets stay the same, whatever the    *)
(* verdict is.                                                             *)
LEMMA AllowExact ==
  ASSUME NEW q, NEW c, LimiterExact(q, c), NEW m \in RelayNode, NEW bytes \in Nat
  PROVE  LimiterExact(Allow(q, m, bytes).q,
                      IF Allow(q, m, bytes).allowed THEN Paid(c, m, bytes) ELSE c)
<1> DEFINE g == Refill(q.global, GlobalRate, GlobalBurst)
           ps == LookedUp(q.peers, m)
           room == m \in DOMAIN ps \/ Cardinality(DOMAIN ps) < MaxQuotaPeers
           p == IF m \in DOMAIN ps THEN Refill(ps[m], PeerRate, PeerBurst) ELSE PeerBurst
           admitted == Enough(p, bytes)
           tp == IF admitted THEN Spend(p, bytes) ELSE p
           tg == IF admitted THEN Spend(g, bytes) ELSE g
           after == [x \in DOMAIN ps \cup {m} |->
                       IF x = m THEN Now(tp) ELSE ps[x]]
<1>0. /\ PeerRate \in Nat \X Nat /\ PeerBurst \in Nat \X Nat
      /\ GlobalRate \in Nat \X Nat /\ GlobalBurst \in Nat \X Nat
      /\ PeerBurst \in (0 .. PeerBurst[1]) \X (0 .. PeerBurst[2])
  <2>1. PeerBurst = <<PeerBurst[1], PeerBurst[2]>> /\ PeerBurst[1] \in Nat /\ PeerBurst[2] \in Nat
    BY Pairs
  <2>2. PeerBurst[1] \in 0 .. PeerBurst[1] /\ PeerBurst[2] \in 0 .. PeerBurst[2]
    BY <2>1, SMT
  <2>3. <<PeerBurst[1], PeerBurst[2]>> \in (0 .. PeerBurst[1]) \X (0 .. PeerBurst[2])
    BY <2>2
  <2> QED BY <2>1, <2>3, Pairs
<1>1. LimiterExact([global |-> q.global, peers |-> ps], c)
  BY PurgeExact
<1>2. /\ DOMAIN ps \subseteq RelayNode
      /\ \A x \in DOMAIN ps : BucketOk(ps[x], PeerBurst)
      /\ c.peers \in [RelayNode -> Nat \X Nat]
      /\ \A x \in RelayNode :
           c.peers[x] = IF x \in DOMAIN ps THEN Refill(ps[x], PeerRate, PeerBurst) ELSE PeerBurst
  BY <1>1 DEF LimiterExact
<1>3. g = c.global /\ g \in (0 .. GlobalBurst[1]) \X (0 .. GlobalBurst[2])
  BY <1>0, RefillType DEF LimiterExact
<1>4. p = c.peers[m] /\ p \in (0 .. PeerBurst[1]) \X (0 .. PeerBurst[2])
  BY <1>0, <1>2, RefillType
<1>5. tp \in (0 .. PeerBurst[1]) \X (0 .. PeerBurst[2])
  BY <1>0, <1>4, SpendFacts
<1>6. Enough(g, bytes) => tg \in (0 .. GlobalBurst[1]) \X (0 .. GlobalBurst[2])
  BY <1>0, <1>3, SpendFacts
<1>7. BucketOk(Now(tp), PeerBurst) /\ Refill(Now(tp), PeerRate, PeerBurst) = tp
  BY <1>0, <1>5, JustRefilled, SMT
<1>8. \A t \in (0 .. GlobalBurst[1]) \X (0 .. GlobalBurst[2]) :
        BucketOk(Now(t), GlobalBurst) /\ Refill(Now(t), GlobalRate, GlobalBurst) = t
  BY <1>0, JustRefilled
<1>9. ASSUME NEW t \in (0 .. GlobalBurst[1]) \X (0 .. GlobalBurst[2]), NEW d,
             d.global = t, d.peers \in [RelayNode -> Nat \X Nat],
             NEW r, DOMAIN r \subseteq RelayNode,
             \A x \in DOMAIN r : BucketOk(r[x], PeerBurst),
             \A x \in RelayNode :
               d.peers[x] = IF x \in DOMAIN r THEN Refill(r[x], PeerRate, PeerBurst) ELSE PeerBurst
      PROVE  LimiterExact([global |-> Now(t), peers |-> r], d)
  <2> QED BY <1>8, <1>9 DEF LimiterExact
<1>10. q = [global |-> q.global, peers |-> q.peers]
  BY DEF LimiterExact
<1>11. Allow(q, m, bytes) =
        IF bytes > GlobalBurst[2] \/ bytes > PeerBurst[2]
        THEN [allowed |-> FALSE, q |-> q]
        ELSE IF ~Enough(g, bytes)
        THEN [allowed |-> FALSE, q |-> [q EXCEPT !.global = Now(g)]]
        ELSE IF ~room
        THEN [allowed |-> FALSE, q |-> [global |-> Now(g), peers |-> ps]]
        ELSE [allowed |-> admitted, q |-> [global |-> Now(tg), peers |-> after]]
  BY DEF Allow, GlobalPays, Now
<1>12. [q EXCEPT !.global = Now(g)] = [global |-> Now(g), peers |-> q.peers]
  BY <1>10, SMT
<1>13. /\ DOMAIN after \subseteq RelayNode
       /\ \A x \in DOMAIN after : BucketOk(after[x], PeerBurst)
       /\ \A x \in RelayNode : x # m =>
            c.peers[x] = IF x \in DOMAIN after THEN Refill(after[x], PeerRate, PeerBurst) ELSE PeerBurst
       /\ m \in DOMAIN after /\ Refill(after[m], PeerRate, PeerBurst) = tp
  BY <1>2, <1>7, ZenonT(30)
<1>14. Paid(c, m, bytes).global = Spend(c.global, bytes)
       /\ Paid(c, m, bytes).peers = [c.peers EXCEPT ![m] = Spend(@, bytes)]
  BY DEF Paid
<1>15. \A x \in DOMAIN q.peers : BucketOk(q.peers[x], PeerBurst)
       /\ DOMAIN q.peers \subseteq RelayNode
  BY DEF LimiterExact
<1>16. \A x \in RelayNode :
         c.peers[x] = IF x \in DOMAIN q.peers THEN Refill(q.peers[x], PeerRate, PeerBurst) ELSE PeerBurst
  BY DEF LimiterExact
<1>17. DOMAIN q.peers \subseteq RelayNode
  BY DEF LimiterExact
<1> HIDE DEF g, ps, room, p, admitted, tp, tg, after
<1>18. LimiterExact([global |-> Now(g), peers |-> q.peers], c)
  BY <1>2, <1>3, <1>9, <1>15, <1>16, <1>17
<1>19. LimiterExact([global |-> Now(g), peers |-> ps], c)
  BY <1>2, <1>3, <1>9
<1>20. ASSUME Enough(g, bytes), admitted
       PROVE  LimiterExact([global |-> Now(tg), peers |-> after], Paid(c, m, bytes))
  <2>1. tg = Spend(g, bytes) /\ tp = Spend(p, bytes)
    BY <1>20 DEF tg, tp
  <2>2. Paid(c, m, bytes).global = tg
    BY <1>3, <1>14, <2>1
  <2>3. tp \in Nat \X Nat
    BY <1>0, <1>5, SMT
  <2>4. Paid(c, m, bytes).peers = [c.peers EXCEPT ![m] = tp]
    BY <1>4, <1>14, <2>1
  <2>5. Paid(c, m, bytes).peers \in [RelayNode -> Nat \X Nat]
        /\ Paid(c, m, bytes).peers[m] = tp
        /\ \A x \in RelayNode : x # m => Paid(c, m, bytes).peers[x] = c.peers[x]
    BY <1>2, <2>3, <2>4
  <2>6. \A x \in RelayNode : Paid(c, m, bytes).peers[x] =
          IF x \in DOMAIN after THEN Refill(after[x], PeerRate, PeerBurst) ELSE PeerBurst
    BY <1>13, <2>5
  <2>7. tg \in (0 .. GlobalBurst[1]) \X (0 .. GlobalBurst[2])
    BY <1>6, <1>20
  <2>8. DOMAIN after \subseteq RelayNode /\ \A x \in DOMAIN after : BucketOk(after[x], PeerBurst)
    BY <1>13
  <2> DEFINE d == Paid(c, m, bytes)
  <2>9. d.global = tg /\ d.peers \in [RelayNode -> Nat \X Nat]
    BY <2>2, <2>5
  <2>10. \A x \in RelayNode :
           d.peers[x] = IF x \in DOMAIN after THEN Refill(after[x], PeerRate, PeerBurst) ELSE PeerBurst
    BY <2>6
  <2> HIDE DEF d
  <2>11. LimiterExact([global |-> Now(tg), peers |-> after], d)
    BY <1>9, <2>7, <2>8, <2>9, <2>10
  <2> QED BY <2>11 DEF d
<1>21. ASSUME ~admitted
       PROVE  LimiterExact([global |-> Now(tg), peers |-> after], c)
  <2>1. tg = g /\ tp = p
    BY <1>21 DEF tg, tp
  <2>2. \A x \in RelayNode :
          c.peers[x] = IF x \in DOMAIN after THEN Refill(after[x], PeerRate, PeerBurst) ELSE PeerBurst
    BY <1>4, <1>13, <2>1
  <2> QED BY <1>2, <1>3, <1>9, <1>13, <2>1, <2>2
<1>22. CASE bytes > GlobalBurst[2] \/ bytes > PeerBurst[2]
  BY <1>11, <1>22, SMT
<1>23. CASE ~(bytes > GlobalBurst[2] \/ bytes > PeerBurst[2]) /\ ~Enough(g, bytes)
  BY <1>11, <1>12, <1>18, <1>23, SMT
<1>24. CASE ~(bytes > GlobalBurst[2] \/ bytes > PeerBurst[2]) /\ Enough(g, bytes) /\ ~room
  BY <1>11, <1>19, <1>24, SMT
<1>25. CASE ~(bytes > GlobalBurst[2] \/ bytes > PeerBurst[2]) /\ Enough(g, bytes) /\ room
  <2>1. Allow(q, m, bytes).q = [global |-> Now(tg), peers |-> after]
        /\ Allow(q, m, bytes).allowed = admitted
    BY <1>11, <1>25, SMT
  <2> QED BY <1>20, <1>21, <1>25, <2>1
<1> QED BY <1>22, <1>23, <1>24, <1>25

(* A tick of the clock refills a bucket as it refills an ideal one, also   *)
(* where its age has stopped at IdleTtl.                                   *)
LEMMA TickFills ==
  ASSUME NEW b, NEW rate \in Nat \X Nat, NEW burst \in Nat \X Nat, BucketOk(b, burst),
         IdleTtl * rate[1] >= burst[1], IdleTtl * rate[2] >= burst[2]
  PROVE  LET later == [b EXCEPT !.age = Least(@ + 1, IdleTtl)]
         IN  /\ BucketOk(later, burst)
             /\ Refill(later, rate, burst) = Refill([tokens |-> Refill(b, rate, burst), age |-> 1], rate, burst)
<1> DEFINE a == Least(b.age + 1, IdleTtl)
           later == [b EXCEPT !.age = Least(@ + 1, IdleTtl)]
<1>1. /\ b.tokens \in (0 .. burst[1]) \X (0 .. burst[2]) /\ b.age \in 0 .. IdleTtl
      /\ b = [tokens |-> b.tokens, age |-> b.age]
  BY DEF BucketOk
<1>2. IdleTtl \in Nat
  BY Pairs
<1>3. a \in 0 .. IdleTtl /\ (a = b.age + 1 \/ (a = IdleTtl /\ b.age = IdleTtl))
  BY <1>1, <1>2, SMT DEF Least
<1>4. later = [tokens |-> b.tokens, age |-> a]
  BY <1>1, SMT
<1> HIDE DEF later
<1>5. BucketOk(later, burst)
  BY <1>1, <1>3, <1>4 DEF BucketOk
<1>6. ASSUME NEW t \in Nat, NEW r \in Nat, NEW u \in Nat, IdleTtl * r >= u
      PROVE  Least(u, t + a * r) = Least(u, Least(u, t + b.age * r) + 1 * r)
  <2>1. b.age \in Nat /\ b.age + 1 \in Nat
    BY <1>1, <1>2, SMT
  <2>2. Least(u, Least(u, t + b.age * r) + 1 * r) = Least(u, t + (b.age + 1) * r)
    BY <2>1, FillOnce, SMT
  <2>3. CASE a = b.age + 1
    BY <2>2, <2>3
  <2>4. CASE a = IdleTtl /\ b.age = IdleTtl
    <3>1. a >= IdleTtl /\ b.age + 1 >= IdleTtl /\ a \in Nat
      BY <1>2, <2>4, SMT
    <3>2. Least(u, t + a * r) = u
      BY <1>2, <1>6, <3>1, IdleIsFull, ZenonT(30)
    <3>3. Least(u, t + (b.age + 1) * r) = u
      BY <1>2, <1>6, <2>1, <3>1, IdleIsFull, ZenonT(30)
    <3> QED BY <2>2, <3>2, <3>3
  <2> QED BY <1>3, <2>3, <2>4
<1>7. /\ rate[1] \in Nat /\ rate[2] \in Nat /\ burst[1] \in Nat /\ burst[2] \in Nat
      /\ b.tokens[1] \in Nat /\ b.tokens[2] \in Nat
  BY <1>1, SMT
<1> HIDE DEF a
<1>8. /\ Least(burst[1], b.tokens[1] + a * rate[1])
           = Least(burst[1], Least(burst[1], b.tokens[1] + b.age * rate[1]) + 1 * rate[1])
      /\ Least(burst[2], b.tokens[2] + a * rate[2])
           = Least(burst[2], Least(burst[2], b.tokens[2] + b.age * rate[2]) + 1 * rate[2])
  BY <1>6, <1>7
<1>9. Refill(later, rate, burst) =
        <<Least(burst[1], b.tokens[1] + a * rate[1]), Least(burst[2], b.tokens[2] + a * rate[2])>>
  BY <1>4 DEF Refill
<1>10. Refill([tokens |-> Refill(b, rate, burst), age |-> 1], rate, burst) =
         <<Least(burst[1], Least(burst[1], b.tokens[1] + b.age * rate[1]) + 1 * rate[1]),
           Least(burst[2], Least(burst[2], b.tokens[2] + b.age * rate[2]) + 1 * rate[2])>>
  BY DEF Refill
<1>11. BucketOk(later, burst)
       /\ Refill(later, rate, burst) = Refill([tokens |-> Refill(b, rate, burst), age |-> 1], rate, burst)
  BY <1>5, <1>8, <1>9, <1>10
<1> QED BY <1>11 DEF later

(* A full bucket stays full.                                               *)
LEMMA FullStays == Refill([tokens |-> PeerBurst, age |-> 1], PeerRate, PeerBurst) = PeerBurst
<1>1. /\ PeerRate[1] \in Nat /\ PeerRate[2] \in Nat /\ PeerBurst[1] \in Nat /\ PeerBurst[2] \in Nat
      /\ PeerBurst = <<PeerBurst[1], PeerBurst[2]>>
  BY Pairs
<1>2. 1 * PeerRate[1] = PeerRate[1] /\ 1 * PeerRate[2] = PeerRate[2]
  BY <1>1, SMT
<1>3. /\ Least(PeerBurst[1], PeerBurst[1] + 1 * PeerRate[1]) = PeerBurst[1]
      /\ Least(PeerBurst[2], PeerBurst[2] + 1 * PeerRate[2]) = PeerBurst[2]
  BY <1>1, <1>2, SMT DEF Least
<1>4. Refill([tokens |-> PeerBurst, age |-> 1], PeerRate, PeerBurst) = <<PeerBurst[1], PeerBurst[2]>>
  BY <1>3 DEF Refill
<1> QED BY <1>1, <1>4

-----------------------------------------------------------------------------
Layer == [key : SUBSET RelayNode, next : RelayNode \cup {NoHop}]

RelayFrame == [from : RelayNode, to : RelayNode, source : RelayNode, size : Nat,
          onion : Seq(Layer), path : Seq(RelayNode), trail : Seq(RelayNode)]

(* A frame is at the hop of its path that its trail has come to, and its   *)
(* layers name the hops that are left.                                     *)
OnPath(f) ==
  /\ Len(f.onion) # 0 /\ Len(f.trail) + Len(f.onion) = Len(f.path)
  /\ \A i \in 1 .. Len(f.trail) : f.trail[i] = f.path[i]
  /\ f.to = f.path[Len(f.trail) + 1]
  /\ \A i \in 1 .. Len(f.onion) :
       f.onion[i].next = IF Len(f.trail) + i < Len(f.path) THEN f.path[Len(f.trail) + i + 1] ELSE NoHop

(* The packet fits the route it was sent along.                            *)
FitsPath(f) ==
  /\ Len(f.path) >= 2 /\ Bucket \in Buckets /\ Underlay \in Int
  /\ f.size <= SafeOverlayMtu(Underlay, Len(f.path), Bucket)

Travels(f) == f \in RelayFrame /\ OnPath(f) /\ FitsPath(f)

RelayInv ==
  /\ DOMAIN quota = RelayNode /\ DOMAIN credit = RelayNode
  /\ \A n \in RelayNode : LimiterExact(quota[n], credit[n])
  /\ \A f \in wire : Travels(f)
  /\ FollowsPath

(* A frame with fewer layers than its path has hops fits the underlay.     *)
LEMMA TravelsFits ==
  ASSUME NEW f, Travels(f)
  PROVE  /\ DatagramSize(Payload(f), Bucket) <= Underlay
         /\ DatagramSize(Payload(f), Bucket) <= OuterOverhead + SessionFrameOverhead(Bucket) + Payload(f)
<1> DEFINE l == Len(f.onion)
           k == Len(f.path)
           s == f.size
<1>1. l \in Nat /\ k \in Nat /\ l <= k /\ k >= 2 /\ s \in Nat
  BY SMT DEF Travels, RelayFrame, OnPath, FitsPath
<1>2. Bucket \in Buckets /\ Underlay \in Int /\ s <= SafeOverlayMtu(Underlay, k, Bucket)
  BY DEF Travels, FitsPath
<1>3. Payload(f) = 33 + s + l * 60
  BY DEF Payload, RelayPayload, RelaySourceOverhead, OnionOverhead
<1> HIDE DEF l, k, s
<1> DEFINE y == 33 + s + l * 60
<1>4. y \in Nat /\ y <= 33 + s + k * 60
  BY <1>1, SMT
<1>5. s + (28 + (16 + 12 + 16 + 4 + (Bucket - 1)) + (33 + k * 60)) <= Underlay
  BY <1>1, <1>2, SMT DEF SafeOverlayMtu, WireOverhead, OuterOverhead, SessionFrameOverhead,
     RelaySourceOverhead, OnionOverhead, Buckets
<1> HIDE DEF y
<1>6. PaddedSize(y, Bucket) \in Nat /\ PaddedSize(y, Bucket) <= y + 4 + Bucket - 1
  <2>1. CASE Bucket = 32
    BY <1>4, <2>1, SMT DEF PaddedSize
  <2>2. CASE Bucket = 64
    BY <1>4, <2>2, SMT DEF PaddedSize
  <2>3. CASE Bucket = 128
    BY <1>4, <2>3, SMT DEF PaddedSize
  <2>4. CASE Bucket = 256
    BY <1>4, <2>4, SMT DEF PaddedSize
  <2> QED BY <1>2, <2>1, <2>2, <2>3, <2>4 DEF Buckets
<1>7. Bucket \in Nat
  BY <1>2, SMT DEF Buckets
<1> DEFINE z == PaddedSize(y, Bucket)
<1>8. z \in Nat /\ z <= y + 4 + Bucket - 1
  BY <1>6
<1> HIDE DEF z
<1>9. 28 + 16 + 12 + 16 + z <= Underlay
  BY <1>1, <1>2, <1>4, <1>5, <1>7, <1>8, SMT
<1>10. 28 + 16 + 12 + 16 + z <= 28 + (16 + 12 + 16 + 4 + (Bucket - 1)) + y
  BY <1>4, <1>7, <1>8, SMT
<1> QED BY <1>3, <1>9, <1>10 DEF DatagramSize, OuterOverhead, SessionFrameOverhead, z, y

(* The invariant gives the three parts of the property.                    *)
LEMMA RelayInvSound == RelayInv => RelaySound
BY TravelsFits DEF RelayInv, RelaySound, QuotaExact, LimiterExact, FitsUnderlay

(* No frame is under way and every bucket is full.                         *)
LEMMA InitRelayInv == RelayInit => RelayInv
<1> SUFFICES ASSUME RelayInit, NEW n \in RelayNode PROVE LimiterExact(quota[n], credit[n])
  BY DEF RelayInit, RelayInv, FollowsPath
<1>1. /\ quota[n] = [global |-> Now(GlobalBurst), peers |-> <<>>]
      /\ credit[n] = [global |-> GlobalBurst, peers |-> [m \in RelayNode |-> PeerBurst]]
  BY DEF RelayInit, Now
<1>2. GlobalBurst \in (0 .. GlobalBurst[1]) \X (0 .. GlobalBurst[2])
  <2>1. GlobalBurst = <<GlobalBurst[1], GlobalBurst[2]>> /\ GlobalBurst[1] \in Nat /\ GlobalBurst[2] \in Nat
    BY Pairs
  <2>2. <<GlobalBurst[1], GlobalBurst[2]>> \in (0 .. GlobalBurst[1]) \X (0 .. GlobalBurst[2])
    BY <2>1, SMT
  <2> QED BY <2>1, <2>2
<1>3. BucketOk(Now(GlobalBurst), GlobalBurst)
      /\ Refill(Now(GlobalBurst), GlobalRate, GlobalBurst) = GlobalBurst
  BY <1>2, Pairs, JustRefilled
<1>4. PeerBurst \in Nat \X Nat
  BY Pairs
<1> QED BY <1>1, <1>3, <1>4, SMT DEF LimiterExact

(* The relay branch of tx_loop: the onion names the hops of the path.      *)
LEMMA SendTravels ==
  ASSUME RelayInv, NEW r \in RelayPaths, NEW size \in RelaySizes, RelaySend(r, size)
  PROVE  RelayInv'
<1> DEFINE o == BuildOnion(r.source, r.path)
           f == [from |-> r.source, to |-> Head(r.path), source |-> r.source, size |-> size,
                 onion |-> o, path |-> r.path, trail |-> <<>>]
<1>1. r.source \in RelayNode /\ r.path \in Seq(RelayNode) /\ Len(r.path) >= 2 /\ size \in Nat
  BY RelayAssumption
<1>2. /\ FitsRoute(size, Underlay, Len(r.path), Bucket)
      /\ wire' = wire \cup {f} /\ relayed' = {} /\ UNCHANGED <<quota, credit>>
  BY DEF RelaySend
<1>3. /\ Len(r.path) \in Nat /\ DOMAIN r.path = 1 .. Len(r.path)
      /\ \A i \in 1 .. Len(r.path) : r.path[i] \in RelayNode
      /\ Head(r.path) = r.path[1] /\ r.path[1] \in RelayNode
  BY <1>1, SMT
<1>4. /\ DOMAIN o = 1 .. Len(r.path)
      /\ \A i \in 1 .. Len(r.path) :
           o[i] = [key |-> {r.source, r.path[i]}, next |-> IF i < Len(r.path) THEN r.path[i + 1] ELSE NoHop]
  BY <1>3 DEF BuildOnion
<1>4a. ASSUME NEW i \in 1 .. Len(r.path)
       PROVE  o[i].next = IF i < Len(r.path) THEN r.path[i + 1] ELSE NoHop
  <2> DEFINE next == IF i < Len(r.path) THEN r.path[i + 1] ELSE NoHop
  <2>1. o[i] = [key |-> {r.source, r.path[i]}, next |-> next]
    BY <1>4
  <2> HIDE DEF next, o
  <2>2. o[i].next = next
    BY <2>1, SMT
  <2> QED BY <2>2 DEF next
<1>5. \A i \in 1 .. Len(r.path) : o[i] \in Layer
  <2> SUFFICES ASSUME NEW i \in 1 .. Len(r.path) PROVE o[i] \in Layer
    OBVIOUS
  <2>1. i < Len(r.path) => i + 1 \in 1 .. Len(r.path)
    BY <1>3, SMT
  <2>2. (IF i < Len(r.path) THEN r.path[i + 1] ELSE NoHop) \in RelayNode \cup {NoHop}
    BY <1>3, <2>1
  <2>3. {r.source, r.path[i]} \in SUBSET RelayNode
    BY <1>1, <1>3
  <2>4. [key |-> {r.source, r.path[i]}, next |-> IF i < Len(r.path) THEN r.path[i + 1] ELSE NoHop] \in Layer
    BY <2>2, <2>3 DEF Layer
  <2> QED BY <1>4, <2>4
<1>6. o = [i \in 1 .. Len(r.path) |-> o[i]]
  BY <1>3, <1>4 DEF BuildOnion
<1> HIDE DEF o
<1>7. o \in Seq(Layer) /\ Len(o) = Len(r.path)
  BY <1>3, <1>5, <1>6, SMTT(30)
<1>8. f \in RelayFrame
  BY <1>1, <1>3, <1>7, SMT DEF RelayFrame
<1>9. OnPath(f)
  <2>1. \A i \in 1 .. Len(o) : o[i].next = IF 0 + i < Len(r.path) THEN r.path[0 + i + 1] ELSE NoHop
    <3> SUFFICES ASSUME NEW i \in 1 .. Len(o)
                 PROVE  o[i].next = IF 0 + i < Len(r.path) THEN r.path[0 + i + 1] ELSE NoHop
      OBVIOUS
    <3>1. i \in 1 .. Len(r.path) /\ 0 + i = i
      BY <1>7, SMT
    <3>2. o[i].next = IF i < Len(r.path) THEN r.path[i + 1] ELSE NoHop
      BY <1>4a, <3>1
    <3> QED BY <3>1, <3>2
  <2> QED BY <1>1, <1>3, <1>7, <2>1, SMT DEF OnPath
<1>10. FitsPath(f)
  <2>1. Bucket \in Buckets /\ Underlay \in Int /\ size <= SafeOverlayMtu(Underlay, Len(r.path), Bucket)
    <3>1. Bucket \in Buckets /\ size <= SafeOverlayMtu(Underlay, Len(r.path), Bucket)
      BY <1>2 DEF FitsRoute, MtuDefined
    <3>2. Underlay \in Nat
      BY RelayAssumption
    <3>3. Underlay \in Int
      BY <3>2, SMT
    <3> QED BY <3>1, <3>3
  <2> QED BY <1>1, <2>1 DEF FitsPath
<1> QED BY <1>2, <1>8, <1>9, <1>10 DEF RelayInv, Travels, FollowsPath

(* A packet is delivered at the end of its path.                           *)
LEMMA DeliverFollows ==
  ASSUME RelayInv, NEW f \in wire, RelayDeliver(f) PROVE RelayInv'
<1>1. f \in RelayFrame /\ OnPath(f)
  BY DEF RelayInv, Travels
<1>2. /\ IsFinal(f) /\ wire' = wire \ {f} /\ UNCHANGED <<quota, credit>>
      /\ relayed' \subseteq {[node |-> f.to, path |-> f.path, trail |-> f.trail]}
  BY DEF RelayDeliver
<1>3. /\ f.trail \in Seq(RelayNode) /\ f.path \in Seq(RelayNode) /\ f.onion \in Seq(Layer)
      /\ f.to \in RelayNode
  BY <1>1 DEF RelayFrame
<1>4. Len(f.trail) + 1 = Len(f.path)
  <2>1. Head(f.onion) = f.onion[1] /\ 1 \in 1 .. Len(f.onion) /\ Len(f.onion) \in Nat
    BY <1>1, <1>3, SMT DEF OnPath
  <2>2. f.onion[1].next = NoHop
    BY <1>2, <2>1 DEF IsFinal, Next_hop
  <2>3. ASSUME Len(f.trail) + 1 < Len(f.path) PROVE FALSE
    <3>1. f.path[Len(f.trail) + 1 + 1] = NoHop
      BY <1>1, <2>1, <2>2, <2>3 DEF OnPath
    <3>2. Len(f.trail) + 1 + 1 \in 1 .. Len(f.path)
      BY <1>3, <2>3, SMT
    <3>3. f.path[Len(f.trail) + 1 + 1] \in RelayNode
      BY <1>3, <3>2, SMT
    <3> QED BY <3>1, <3>3, RelayAssumption
  <2>4. Len(f.trail) \in Nat /\ Len(f.path) \in Nat
    BY <1>3, SMT
  <2>5. Len(f.onion) # 0 /\ Len(f.trail) + Len(f.onion) = Len(f.path)
    BY <1>1 DEF OnPath
  <2> DEFINE x == Len(f.trail)
             y == Len(f.path)
             z == Len(f.onion)
  <2>6. x \in Nat /\ y \in Nat /\ z \in Nat /\ z # 0 /\ x + z = y /\ ~(x + 1 < y)
    BY <2>1, <2>3, <2>4, <2>5
  <2> HIDE DEF x, y, z
  <2>7. x + 1 = y
    BY <2>6, SMT
  <2> QED BY <2>7 DEF x, y
<1>5. f.trail \o <<f.to>> = f.path
  <2> DEFINE w == f.trail \o <<f.to>>
  <2>1. w \in Seq(RelayNode) /\ Len(w) = Len(f.trail) + 1
    BY <1>3, SMT
  <2>2. \A i \in 1 .. Len(f.trail) : w[i] = f.trail[i]
    BY <1>3, SMT
  <2>3. w[Len(f.trail) + 1] = f.to
    BY <1>3, SMT
  <2> HIDE DEF w
  <2>4. \A i \in 1 .. Len(w) : w[i] = f.path[i]
    <3> SUFFICES ASSUME NEW i \in 1 .. Len(w) PROVE w[i] = f.path[i]
      OBVIOUS
    <3>1. i \in 1 .. Len(f.trail) \/ i = Len(f.trail) + 1
      BY <1>3, <2>1, SMT
    <3> QED BY <1>1, <2>2, <2>3, <3>1 DEF OnPath
  <2>5. w = f.path
    <3>1. Len(w) = Len(f.path)
      BY <1>4, <2>1
    <3> QED BY <1>3, <2>1, <2>4, <3>1, SMT
  <2> QED BY <2>5 DEF w
<1>6. FollowsPath'
  BY <1>2, <1>5, SMT DEF FollowsPath
<1> QED BY <1>2, <1>6 DEF RelayInv

(* handle_relay passes the inner layers on: the frame is one hop further   *)
(* along its path, and the quota stays exact.                              *)
LEMMA ForwardTravels ==
  ASSUME RelayInv, NEW f \in wire, NEW sent \in BOOLEAN, RelayForward(f, sent) PROVE RelayInv'
<1> DEFINE n == f.to
           bytes == SessionFrameOverhead(Bucket) + RelayPayload(f.size, Len(f.onion) - 1)
           verdict == Allow(quota[n], f.from, bytes)
           fwd == [f EXCEPT !.from = n, !.to = Next_hop(f), !.onion = Tail(@), !.trail = Append(@, n)]
<1>1. f \in RelayFrame /\ OnPath(f) /\ FitsPath(f)
  BY DEF RelayInv, Travels
<1>2. /\ ~IsFinal(f) /\ relayed' = {}
      /\ quota' = [quota EXCEPT ![n] = verdict.q]
      /\ credit' = IF verdict.allowed THEN [credit EXCEPT ![n] = Paid(@, f.from, bytes)] ELSE credit
      /\ wire' \subseteq (wire \ {f}) \cup {fwd}
  BY DEF RelayForward
<1>3. /\ f.trail \in Seq(RelayNode) /\ f.path \in Seq(RelayNode) /\ f.onion \in Seq(Layer)
      /\ n \in RelayNode /\ f.from \in RelayNode /\ f.source \in RelayNode /\ f.size \in Nat
  BY <1>1 DEF RelayFrame
<1>4. /\ Len(f.trail) \in Nat /\ Len(f.path) \in Nat /\ Len(f.onion) \in Nat /\ Len(f.onion) # 0
      /\ Len(f.trail) + Len(f.onion) = Len(f.path)
  <2>1. Len(f.trail) \in Nat /\ Len(f.path) \in Nat /\ Len(f.onion) \in Nat
    BY <1>3, SMT
  <2>2. Len(f.onion) # 0 /\ Len(f.trail) + Len(f.onion) = Len(f.path)
    BY <1>1 DEF OnPath
  <2> QED BY <2>1, <2>2
<1>5. Head(f.onion) = f.onion[1] /\ 1 \in 1 .. Len(f.onion)
  BY <1>3, <1>4, SMT
<1>6. Len(f.trail) + 1 < Len(f.path) /\ Next_hop(f) = f.path[Len(f.trail) + 1 + 1]
  <2>1. Next_hop(f) # NoHop /\ Next_hop(f) = f.onion[1].next
    BY <1>2, <1>5 DEF IsFinal, Next_hop
  <2> QED BY <1>1, <1>5, <2>1 DEF OnPath
<1>7. Next_hop(f) \in RelayNode
  <2>1. Len(f.trail) + 1 + 1 \in 1 .. Len(f.path)
    BY <1>4, <1>6, SMT
  <2> QED BY <1>3, <1>6, <2>1, SMT
<1>8. LimiterExact(quota'[n], credit'[n])
  <2>1. bytes \in Nat
    <3>1. Bucket \in Nat /\ Bucket >= 1
      BY <1>1, SMT DEF FitsPath, Buckets
    <3>2. Len(f.onion) - 1 \in Nat
      BY <1>4, SMT
    <3> DEFINE l == Len(f.onion) - 1
               s == f.size
    <3>3. l \in Nat /\ s \in Nat /\ bytes = SessionFrameOverhead(Bucket) + RelayPayload(s, l)
      BY <1>3, <3>2
    <3> HIDE DEF l, s, bytes
    <3> QED BY <3>1, <3>3, SMT DEF SessionFrameOverhead, RelayPayload, RelaySourceOverhead, OnionOverhead
  <2> HIDE DEF bytes
  <2>2. LimiterExact(quota[n], credit[n])
    BY <1>3 DEF RelayInv
  <2>3. LimiterExact(verdict.q, IF verdict.allowed THEN Paid(credit[n], f.from, bytes) ELSE credit[n])
    BY <1>3, <2>1, <2>2, AllowExact
  <2> HIDE DEF verdict
  <2>4. quota'[n] = verdict.q
        /\ credit'[n] = IF verdict.allowed THEN Paid(credit[n], f.from, bytes) ELSE credit[n]
    BY <1>2, <1>3 DEF RelayInv
  <2> QED BY <2>3, <2>4
<1>9. /\ DOMAIN quota' = RelayNode /\ DOMAIN credit' = RelayNode
      /\ \A m \in RelayNode : m # n => quota'[m] = quota[m] /\ credit'[m] = credit[m]
  <2> HIDE DEF verdict, bytes
  <2> QED BY <1>2 DEF RelayInv
<1>10. Travels(fwd)
  <2>0. f = [from |-> f.from, to |-> f.to, source |-> f.source, size |-> f.size,
             onion |-> f.onion, path |-> f.path, trail |-> f.trail]
    BY <1>1 DEF RelayFrame
  <2>1. /\ fwd.from = n /\ fwd.to = Next_hop(f) /\ fwd.onion = Tail(f.onion)
        /\ fwd.trail = Append(f.trail, n) /\ fwd.path = f.path /\ fwd.size = f.size
        /\ fwd.source = f.source
    BY <1>1 DEF RelayFrame
  <2>2. Tail(f.onion) \in Seq(Layer) /\ Append(f.trail, n) \in Seq(RelayNode)
    BY <1>3, <1>4, SMT
  <2>4. fwd \in RelayFrame
    BY <1>1, <1>3, <1>7, <2>2 DEF RelayFrame
  <2> HIDE DEF fwd
  <2>5. /\ Len(fwd.onion) = Len(f.onion) - 1 /\ Len(fwd.trail) = Len(f.trail) + 1
        /\ \A i \in 1 .. Len(f.onion) - 1 : fwd.onion[i] = f.onion[i + 1]
        /\ \A i \in 1 .. Len(f.trail) : fwd.trail[i] = f.trail[i]
        /\ fwd.trail[Len(f.trail) + 1] = n
    BY <1>3, <1>4, <2>1, SMT
  <2>6. Len(fwd.onion) # 0 /\ Len(fwd.trail) + Len(fwd.onion) = Len(fwd.path)
    <3> DEFINE x == Len(f.trail)
               y == Len(f.path)
               z == Len(f.onion)
    <3>1. x \in Nat /\ y \in Nat /\ z \in Nat /\ x + z = y /\ x + 1 < y
      BY <1>4, <1>6
    <3>2. Len(fwd.onion) = z - 1 /\ Len(fwd.trail) = x + 1 /\ Len(fwd.path) = y
      BY <2>1, <2>5
    <3> HIDE DEF x, y, z
    <3>3. z - 1 # 0 /\ x + 1 + (z - 1) = y
      BY <3>1, SMT
    <3> QED BY <3>2, <3>3
  <2>7. \A i \in 1 .. Len(fwd.trail) : fwd.trail[i] = fwd.path[i]
    <3> SUFFICES ASSUME NEW i \in 1 .. Len(fwd.trail) PROVE fwd.trail[i] = fwd.path[i]
      OBVIOUS
    <3>1. i \in 1 .. Len(f.trail) \/ i = Len(f.trail) + 1
      BY <1>4, <2>5, SMT
    <3> QED BY <1>1, <2>1, <2>5, <3>1 DEF OnPath
  <2>8. fwd.to = fwd.path[Len(fwd.trail) + 1]
    BY <1>6, <2>1, <2>5
  <2>9. \A i \in 1 .. Len(fwd.onion) :
          fwd.onion[i].next = IF Len(fwd.trail) + i < Len(fwd.path)
                              THEN fwd.path[Len(fwd.trail) + i + 1] ELSE NoHop
    <3> SUFFICES ASSUME NEW i \in 1 .. Len(fwd.onion)
                 PROVE  fwd.onion[i].next = IF Len(fwd.trail) + i < Len(fwd.path)
                                            THEN fwd.path[Len(fwd.trail) + i + 1] ELSE NoHop
      OBVIOUS
    <3>1. i + 1 \in 1 .. Len(f.onion) /\ i \in 1 .. Len(f.onion) - 1 /\ i \in Nat
      BY <1>4, <2>5, SMT
    <3>2. f.onion[i + 1].next = IF Len(f.trail) + (i + 1) < Len(f.path)
                                THEN f.path[Len(f.trail) + (i + 1) + 1] ELSE NoHop
      BY <1>1, <3>1 DEF OnPath
    <3>3. Len(f.trail) + (i + 1) = Len(fwd.trail) + i
      <4> DEFINE x == Len(f.trail)
      <4>1. x \in Nat /\ i \in Nat /\ Len(fwd.trail) = x + 1
        BY <1>4, <2>5, <3>1
      <4> HIDE DEF x
      <4>2. x + (i + 1) = x + 1 + i
        BY <4>1, SMT
      <4> QED BY <4>1, <4>2 DEF x
    <3> QED BY <2>1, <2>5, <3>1, <3>2, <3>3
  <2>10. OnPath(fwd)
    BY <2>6, <2>7, <2>8, <2>9 DEF OnPath
  <2> QED BY <1>1, <2>1, <2>4, <2>10 DEF Travels, FitsPath
<1> HIDE DEF fwd, verdict, bytes
<1>11. \A g \in wire' : Travels(g)
  BY <1>2, <1>10 DEF RelayInv
<1>12. \A m \in RelayNode : LimiterExact(quota'[m], credit'[m])
  BY <1>8, <1>9 DEF RelayInv
<1> QED BY <1>2, <1>9, <1>11, <1>12 DEF RelayInv, FollowsPath

(* Time passes for every bucket, in use, idle or purged.                   *)
LEMMA TickExact == ASSUME RelayInv, RelayTick PROVE RelayInv'
<1> SUFFICES ASSUME NEW n \in RelayNode PROVE LimiterExact(quota'[n], credit'[n])
  BY DEF RelayTick, RelayInv, FollowsPath
<1> DEFINE q == quota[n]
           c == credit[n]
           Later(b) == [b EXCEPT !.age = Least(@ + 1, IdleTtl)]
           One(t, rate, burst) == Refill([tokens |-> t, age |-> 1], rate, burst)
<1>1. LimiterExact(q, c)
  BY DEF RelayInv
<1>2. /\ quota'[n] = [global |-> Later(q.global), peers |-> [m \in DOMAIN q.peers |-> Later(q.peers[m])]]
      /\ credit'[n] = [global |-> One(c.global, GlobalRate, GlobalBurst),
                       peers |-> [m \in RelayNode |-> One(c.peers[m], PeerRate, PeerBurst)]]
  BY DEF RelayTick
<1>3. /\ PeerRate \in Nat \X Nat /\ PeerBurst \in Nat \X Nat
      /\ GlobalRate \in Nat \X Nat /\ GlobalBurst \in Nat \X Nat
      /\ IdleTtl * PeerRate[1] >= PeerBurst[1] /\ IdleTtl * PeerRate[2] >= PeerBurst[2]
      /\ IdleTtl * GlobalRate[1] >= GlobalBurst[1] /\ IdleTtl * GlobalRate[2] >= GlobalBurst[2]
  BY Pairs
<1>4. /\ BucketOk(Later(q.global), GlobalBurst)
      /\ Refill(Later(q.global), GlobalRate, GlobalBurst)
           = One(Refill(q.global, GlobalRate, GlobalBurst), GlobalRate, GlobalBurst)
  BY <1>1, <1>3, TickFills DEF LimiterExact
<1>5. \A m \in DOMAIN q.peers :
        /\ BucketOk(Later(q.peers[m]), PeerBurst)
        /\ Refill(Later(q.peers[m]), PeerRate, PeerBurst)
             = One(Refill(q.peers[m], PeerRate, PeerBurst), PeerRate, PeerBurst)
  BY <1>1, <1>3, TickFills, SMT DEF LimiterExact
<1>6. One(PeerBurst, PeerRate, PeerBurst) = PeerBurst
  BY FullStays
<1>7. \A m \in RelayNode : One(c.peers[m], PeerRate, PeerBurst) \in Nat \X Nat
  <2>1. ASSUME NEW t \in Nat \X Nat PROVE One(t, PeerRate, PeerBurst) \in Nat \X Nat
    <3>1. /\ t[1] \in Nat /\ t[2] \in Nat /\ PeerRate[1] \in Nat /\ PeerRate[2] \in Nat
          /\ PeerBurst[1] \in Nat /\ PeerBurst[2] \in Nat
      BY <1>3
    <3>2. 1 * PeerRate[1] = PeerRate[1] /\ 1 * PeerRate[2] = PeerRate[2]
      BY <3>1, SMT
    <3> QED BY <3>1, <3>2, SMT DEF Refill, Least
  <2> QED BY <1>1, <2>1 DEF LimiterExact
<1> HIDE DEF q, c, Later, One
<1> QED BY <1>1, <1>2, <1>4, <1>5, <1>6, <1>7, SMT DEF LimiterExact

(* Every step keeps the invariant.                                         *)
LEMMA NextRelayInv == RelayInv /\ [RelayNext]_relayVars => RelayInv'
<1> SUFFICES ASSUME RelayInv, [RelayNext]_relayVars PROVE RelayInv'
  OBVIOUS
<1>1. CASE UNCHANGED relayVars
  BY <1>1 DEF relayVars, RelayInv, FollowsPath
<1>2. ASSUME NEW f \in wire, RelayLose(f) \/ RelayDrop(f) PROVE RelayInv'
  BY <1>2 DEF RelayLose, RelayDrop, RelayInv, FollowsPath
<1> QED BY <1>1, <1>2, SendTravels, DeliverFollows, ForwardTravels, TickExact DEF RelayNext

(* For all rates, bursts and paths: each limiter holds exactly what ideal  *)
(* token buckets would, no frame is too long for the underlay at any hop,  *)
(* and a packet is handed to an adapter only at the end of the path that   *)
(* its source chose, after every relay of the path in order.               *)
THEOREM RelayingIsSound == RelayInit /\ [][RelayNext]_relayVars => []RelaySound
BY InitRelayInv, NextRelayInv, RelayInvSound, PTL

-----------------------------------------------------------------------------
(* The credential file.                                                    *)

Writing == {"open", "write", "move"}
Busy == Writing \cup {"look", "read"}

(* What a process may write: a new identity where there was no file, or    *)
(* the old key with a signing key of its own.                              *)
Entitled(id) ==
  /\ id.x # 0
  /\ born = Missing \/ (born.size = LegacySize /\ id.x = born.x)

(* A process writes what it may, and before it moves its temporary file    *)
(* the file holds all of it.                                               *)
WriterInv(p, r, t) ==
  /\ r.pc \in Writing => r.attempt \in 1 .. TempAttempts /\ Entitled(r.id)
  /\ r.pc = "move" => t[<<p, r.attempt>>] = V1(r.id)

(* A process that is alone is the only one between the start and the end   *)
(* of load_or_create_identity; once it has returned an identity, the file  *)
(* is there and nobody writes any more.                                    *)
AloneInv ==
  /\ \A p, q \in Pid : proc[p].alone /\ proc[p].pc \in Busy /\ proc[q].pc \in Busy => p = q
  /\ promised # {} => \A p \in Pid : proc[p].pc \notin Writing

IdInv ==
  /\ IdTypeOK /\ FileKept /\ SoleStartLasts /\ AloneInv
  /\ \A p \in Pid : WriterInv(p, proc[p], temps)
  /\ born = Missing \/ born.x # 0 \/ born.size # LegacySize

(* The generator returns keys that are not in use, so none is 0.           *)
LEMMA NewIdentity ==
  ASSUME KeysLeft, NEW x \in Key
  PROVE  /\ CreatedIdentity \in KeyPair /\ CreatedIdentity.x # 0
         /\ Bound(x) \in KeyPair /\ Bound(x).x = x
<1>1. ASSUME NEW y \in Key PROVE NewKey(KeysUsed \cup {y}) \in 1 .. MaxKey
  <2>1. \E m \in 1 .. MaxKey : m \notin KeysUsed \cup {y}
    BY IdentityAssumption DEF KeysLeft, Key
  <2> QED
    BY <2>1 DEF NewKey
<1>2. NewKey(KeysUsed) \in 1 .. MaxKey
  <2>1. \E m \in 1 .. MaxKey : m \notin KeysUsed
    BY IdentityAssumption, SMT DEF KeysLeft
  <2> QED
    BY <2>1 DEF NewKey
<1>3. 1 .. MaxKey \subseteq Key /\ 0 \notin 1 .. MaxKey
  BY IdentityAssumption, SMT DEF Key
<1>4. \A y \in Key : Bound(y) \in KeyPair /\ Bound(y).x = y
  BY <1>1, <1>3 DEF Bound, KeyPair
<1> QED
  BY <1>2, <1>3, <1>4 DEF CreatedIdentity

(* The processes start when nothing runs; the file is one of six.          *)
LEMMA InitIdInv == IdInit => IdInv
<1> SUFFICES ASSUME IdInit PROVE IdInv
  OBVIOUS
<1> USE IdentityAssumption
<1>1. 1 \in Key /\ 2 \in Key /\ 0 \in Key
  <2>1. Cardinality(Pid) \in Nat
    BY FS_CardinalityType
  <2> QED
    BY <2>1, SMT DEF Key
<1>2. file \in Content /\ born = file
  BY <1>1, SMT DEF IdInit, Content, Missing, Legacy, V1, Damaged, LegacySize, V1Size
<1>3. temps \in [Pid \X (1 .. TempAttempts) -> Content]
  BY <1>1 DEF IdInit, Content, Missing
<1>4. proc \in [Pid -> ProcState] /\ \A p \in Pid : proc[p].pc = "off"
  BY <1>1, SMT DEF IdInit, ProcState, KeyPair, NoId
<1>5. promised = {}
  BY DEF IdInit
<1>6. born = Missing \/ born.x # 0 \/ born.size # LegacySize
  BY SMT DEF IdInit, Missing, Legacy, V1, Damaged, LegacySize, V1Size
<1> QED
  BY <1>2, <1>3, <1>4, <1>5, <1>6
  DEF IdInv, IdTypeOK, FileKept, SoleStartLasts, AloneInv, WriterInv, Writing, Busy

(* A step of one process that leaves the file as it is.                    *)
StepMay(p, r, t) ==
  /\ proc' = [proc EXCEPT ![p] = r] /\ r \in ProcState
  /\ temps' = t /\ t \in [Pid \X (1 .. TempAttempts) -> Content]
  /\ \A q \in Pid \ {p} : \A a \in 1 .. TempAttempts : t[<<q, a>>] = temps[<<q, a>>]
  /\ UNCHANGED born
  /\ WriterInv(p, r, t)
  /\ r.alone => proc[p].alone
  /\ r.pc \in Busy => proc[p].pc \in Busy
  /\ promised' # {} => r.pc \notin Writing

(* Such a step keeps what is said of the processes.                        *)
LEMMA ProcessStep ==
  ASSUME IdInv, NEW p \in Pid, NEW r, NEW t, StepMay(p, r, t),
         promised' \subseteq KeyPair,
         promised' # {} => promised # {} \/ (proc[p].alone /\ proc[p].pc \in Busy)
  PROVE  /\ proc' \in [Pid -> ProcState] /\ temps' \in [Pid \X (1 .. TempAttempts) -> Content]
         /\ AloneInv' /\ \A q \in Pid : WriterInv(q, proc[q], temps)'
<1> USE DEF IdInv, IdTypeOK
<1>1. proc' \in [Pid -> ProcState] /\ \A q \in Pid : proc'[q] = IF q = p THEN r ELSE proc[q]
  BY DEF StepMay
<1>2. temps' \in [Pid \X (1 .. TempAttempts) -> Content]
  BY DEF StepMay
<1>3. ASSUME NEW q \in Pid PROVE WriterInv(q, proc[q], temps)'
  <2>1. CASE q = p
    BY <1>1, <2>1 DEF StepMay, WriterInv, Entitled
  <2>2. CASE q # p
    <3>1. WriterInv(q, proc[q], temps) /\ proc'[q] = proc[q] /\ born' = born
      BY <1>1, <2>2 DEF StepMay
    <3>2. \A a \in 1 .. TempAttempts : temps'[<<q, a>>] = temps[<<q, a>>]
      BY <2>2 DEF StepMay
    <3> QED
      BY <3>1, <3>2 DEF WriterInv, Entitled, Writing
  <2> QED
    BY <2>1, <2>2
<1>4. \A q, o \in Pid : (proc[q].alone /\ proc[q].pc \in Busy /\ proc[o].pc \in Busy)' => q = o
  BY <1>1 DEF StepMay, AloneInv
<1>5. ASSUME promised' # {}, NEW q \in Pid PROVE proc'[q].pc \notin Writing
  <2>1. CASE q = p
    BY <1>1, <1>5, <2>1 DEF StepMay
  <2>2. CASE q # p
    <3>1. promised # {} \/ proc[q].pc \notin Busy
      BY <1>5, <2>2 DEF AloneInv
    <3> QED
      BY <1>1, <2>2, <3>1 DEF AloneInv, Busy
  <2> QED
    BY <2>1, <2>2
<1> QED
  BY <1>1, <1>2, <1>3, <1>4, <1>5 DEF AloneInv

(* StartProcess: whoever was alone is not any more.                        *)
LEMMA StartIdInv == ASSUME IdInv, NEW p \in Pid, StartProcess(p) PROVE IdInv'
<1> DEFINE r == [pc |-> "look", id |-> NoId, attempt |-> 0, alone |-> Loading = {}]
<1>1. proc \in [Pid -> ProcState]
  BY DEF IdInv, IdTypeOK
<1>2. UNCHANGED <<file, temps, born, promised>>
  BY DEF StartProcess
<1>3. r \in ProcState
  BY IdentityAssumption, SMT DEF ProcState, KeyPair, Key, NoId
<1>4. \A q \in Pid : [proc[q] EXCEPT !.alone = FALSE] \in ProcState
  BY <1>1 DEF ProcState
<1>5. /\ proc' \in [Pid -> ProcState]
      /\ \A q \in Pid : proc'[q] = IF q = p THEN r ELSE [proc[q] EXCEPT !.alone = FALSE]
  BY <1>3, <1>4 DEF StartProcess
<1>6. proc'[p].pc = "look" /\ (proc'[p].alone => Loading = {})
  <2>1. r.pc = "look" /\ (r.alone => Loading = {})
    OBVIOUS
  <2> HIDE DEF r
  <2> QED
    BY <1>5, <2>1
<1> HIDE DEF r
<1>7. ASSUME NEW q \in Pid, q # p
      PROVE  /\ proc'[q].pc = proc[q].pc /\ proc'[q].id = proc[q].id
             /\ proc'[q].attempt = proc[q].attempt /\ proc'[q].alone = FALSE
  BY <1>1, <1>5, <1>7, SMT DEF ProcState
<1>8. AloneInv'
  <2>1. Loading = {} => \A q \in Pid : proc[q].pc \notin Busy
    BY DEF Loading, Busy, Writing
  <2>2. \A q, o \in Pid : (proc[q].alone /\ proc[q].pc \in Busy /\ proc[o].pc \in Busy)' => q = o
    BY <1>6, <1>7, <2>1
  <2>3. promised' # {} => \A q \in Pid : proc'[q].pc \notin Writing
    BY <1>2, <1>6, <1>7 DEF IdInv, AloneInv, Writing
  <2> QED
    BY <2>2, <2>3 DEF AloneInv
<1>9. ASSUME NEW q \in Pid PROVE WriterInv(q, proc[q], temps)'
  <2>1. CASE q = p
    BY <1>6, <2>1 DEF WriterInv, Writing
  <2>2. CASE q # p
    BY <1>2, <1>7, <2>2 DEF IdInv, WriterInv, Entitled
  <2> QED
    BY <2>1, <2>2
<1> QED
  BY <1>2, <1>5, <1>8, <1>9 DEF IdInv, IdTypeOK, FileKept, SoleStartLasts

(* A step that leaves the file and what was promised as they are.          *)
LEMMA PlainStep ==
  ASSUME IdInv, NEW p \in Pid, NEW r, NEW t, StepMay(p, r, t), UNCHANGED <<file, promised>>
  PROVE  IdInv'
<1>1. promised' \subseteq KeyPair /\ (promised' # {} => promised # {})
  BY DEF IdInv, IdTypeOK
<1>2. /\ proc' \in [Pid -> ProcState] /\ temps' \in [Pid \X (1 .. TempAttempts) -> Content]
      /\ AloneInv' /\ \A q \in Pid : WriterInv(q, proc[q], temps)'
  BY <1>1, ProcessStep
<1> QED
  BY <1>1, <1>2 DEF IdInv, IdTypeOK, FileKept, SoleStartLasts, StepMay

(* The exit by an exception or the end of the process, with the temporary  *)
(* file in any state.                                                      *)
LEMMA ThrowInv ==
  ASSUME IdInv, NEW p \in Pid, NEW t, Throw(p), UNCHANGED <<file, born>>, temps' = t,
         t = temps \/ \E a \in 1 .. TempAttempts, f \in Content : t = [temps EXCEPT ![<<p, a>>] = f]
  PROVE  IdInv'
<1> DEFINE r == [pc |-> "off", id |-> NoId, attempt |-> 0, alone |-> FALSE]
<1>1. r \in ProcState
  BY IdentityAssumption, SMT DEF ProcState, KeyPair, Key, NoId
<1>2. /\ t \in [Pid \X (1 .. TempAttempts) -> Content]
      /\ \A q \in Pid \ {p} : \A a \in 1 .. TempAttempts : t[<<q, a>>] = temps[<<q, a>>]
  BY DEF IdInv, IdTypeOK
<1>3. StepMay(p, r, t)
  BY <1>1, <1>2 DEF StepMay, WriterInv, Writing, Busy, Throw
<1> QED
  BY <1>3, PlainStep DEF Throw

(* A missing file, or a damaged one, may stand in the place of any other.  *)
LEMMA SomeContents ==
  /\ Missing \in Content /\ StaleTemp \in Content
  /\ \A id \in KeyPair : V1(id) \in Content
BY IdentityAssumption, SMT DEF Missing, StaleTemp, Damaged, Content, V1, V1Size, LegacySize, Key, KeyPair

(* The state of a process that is about to write its identity.             *)
Opened(q, id) == [q EXCEPT !.pc = "open", !.id = id, !.attempt = 1]

(* It is one of the states of a process.                                   *)
LEMMA OpenState ==
  ASSUME NEW q \in ProcState, NEW id \in KeyPair
  PROVE  /\ Opened(q, id) \in ProcState /\ Opened(q, id).pc = "open" /\ Opened(q, id).id = id
         /\ Opened(q, id).attempt = 1 /\ Opened(q, id).alone = q.alone
<1> DEFINE r == Opened(q, id)
           q1 == [q EXCEPT !.pc = "open"]
           q2 == [q1 EXCEPT !.id = id]
<1>1. q1 \in ProcState /\ q1.pc = "open" /\ q1.alone = q.alone
  BY DEF ProcState
<1>2. r = [q2 EXCEPT !.attempt = 1]
  BY DEF Opened
<1> HIDE DEF q1
<1>3. q2 \in ProcState /\ q2.pc = "open" /\ q2.id = id /\ q2.alone = q.alone
  BY <1>1 DEF ProcState
<1> HIDE DEF q2, r
<1>4. r \in ProcState /\ r.pc = "open" /\ r.id = id /\ r.attempt = 1 /\ r.alone = q.alone
  BY <1>2, <1>3, IdentityAssumption, SMT DEF ProcState
<1> QED
  BY <1>4 DEF r

(* LookForFile: a new identity only where there is no file, and then there *)
(* never was one.                                                          *)
LEMMA LookInv == ASSUME IdInv, NEW p \in Pid, LookForFile(p) PROVE IdInv'
<1>1. proc[p] \in ProcState /\ proc[p].pc = "look" /\ UNCHANGED <<file, temps, born, promised>>
      /\ temps \in [Pid \X (1 .. TempAttempts) -> Content]
  BY DEF IdInv, IdTypeOK, LookForFile
<1>2. CASE file = Missing
  <2> DEFINE r == Opened(proc[p], CreatedIdentity)
  <2>1. proc' = [proc EXCEPT ![p] = r] /\ KeysLeft
    BY <1>2 DEF LookForFile, IdInv, IdTypeOK, Opened
  <2>2. CreatedIdentity \in KeyPair /\ CreatedIdentity.x # 0
    BY <2>1, NewIdentity, IdentityAssumption, SMT DEF Key
  <2>3. born = Missing /\ promised = {}
    <3>1. file.size = -1
      BY <1>2 DEF Missing
    <3>2. ~DecodesV1(file) /\ \A id : file # V1(id)
      BY <3>1, SMT DEF DecodesV1, V1, V1Size
    <3> QED
      BY <1>2, <3>2 DEF IdInv, FileKept, SoleStartLasts
  <2>4. r \in ProcState /\ r.pc = "open" /\ r.id = CreatedIdentity /\ r.attempt = 1 /\ r.alone = proc[p].alone
    BY <1>1, <2>2, OpenState
  <2> HIDE DEF r
  <2>5. StepMay(p, r, temps)
    BY <1>1, <2>1, <2>2, <2>3, <2>4, IdentityAssumption, SMT DEF StepMay, WriterInv, Entitled, Busy, Writing
  <2> QED
    BY <1>1, <2>5, PlainStep
<1>3. CASE file # Missing
  <2> DEFINE r == [proc[p] EXCEPT !.pc = "read"]
  <2>1. proc' = [proc EXCEPT ![p] = r]
    BY <1>3 DEF LookForFile, IdInv, IdTypeOK
  <2>2. r \in ProcState /\ r.pc = "read" /\ r.alone = proc[p].alone
    BY <1>1 DEF ProcState
  <2> HIDE DEF r
  <2>3. StepMay(p, r, temps)
    BY <1>1, <2>1, <2>2 DEF StepMay, WriterInv, Busy, Writing
  <2> QED
    BY <1>1, <2>3, PlainStep
<1> QED
  BY <1>2, <1>3

(* Returning an identity to the caller.                                    *)
LEMMA ReturnInv ==
  ASSUME IdInv, NEW p \in Pid, NEW id \in KeyPair, NEW t, ReturnIdentity(p, id), UNCHANGED born,
         proc[p].pc \in Busy, temps' = t,
         t = temps \/ \E a \in 1 .. TempAttempts, f \in Content : t = [temps EXCEPT ![<<p, a>>] = f],
         file' \in Content, FileKept', promised # {} => UNCHANGED file, file' = V1(id)
  PROVE  IdInv'
<1> DEFINE r == [pc |-> "up", id |-> id, attempt |-> 0, alone |-> FALSE]
<1>1. r \in ProcState
  BY IdentityAssumption, SMT DEF ProcState
<1>2. /\ t \in [Pid \X (1 .. TempAttempts) -> Content]
      /\ \A q \in Pid \ {p} : \A a \in 1 .. TempAttempts : t[<<q, a>>] = temps[<<q, a>>]
  BY DEF IdInv, IdTypeOK
<1>3. StepMay(p, r, t)
  BY <1>1, <1>2 DEF StepMay, WriterInv, Writing, Busy, ReturnIdentity
<1>4. /\ promised' \subseteq KeyPair
      /\ promised' # {} => promised # {} \/ (proc[p].alone /\ proc[p].pc \in Busy)
  BY DEF ReturnIdentity, IdInv, IdTypeOK
<1>5. SoleStartLasts'
  BY DEF ReturnIdentity, IdInv, SoleStartLasts
<1> HIDE DEF r
<1>6. /\ proc' \in [Pid -> ProcState] /\ temps' \in [Pid \X (1 .. TempAttempts) -> Content]
      /\ AloneInv' /\ \A q \in Pid : WriterInv(q, proc[q], temps)'
  BY <1>3, <1>4, ProcessStep
<1> QED
  BY <1>4, <1>5, <1>6 DEF IdInv, IdTypeOK

(* ReadFile: an old file is migrated with its key, a good one is returned  *)
(* and a damaged one refused.                                              *)
LEMMA ReadInv == ASSUME IdInv, NEW p \in Pid, ReadFile(p) PROVE IdInv'
<1>1. /\ proc[p] \in ProcState /\ proc[p].pc = "read" /\ UNCHANGED <<file, temps, born>>
      /\ temps \in [Pid \X (1 .. TempAttempts) -> Content] /\ file \in Content
  BY DEF IdInv, IdTypeOK, ReadFile
<1>2. CASE file.size = LegacySize
  <2> DEFINE r == Opened(proc[p], MigratedIdentity)
  <2>1. proc' = [proc EXCEPT ![p] = r] /\ KeysLeft /\ UNCHANGED promised
    BY <1>2 DEF ReadFile, IdInv, IdTypeOK, Opened
  <2>2. file = born /\ promised = {}
    <3>1. ~DecodesV1(file) /\ \A id : file # V1(id)
      BY <1>2, SMT DEF DecodesV1, V1, V1Size, LegacySize
    <3> QED
      BY <3>1 DEF IdInv, FileKept, SoleStartLasts
  <2>3. file.x \in Key /\ born.x # 0
    <3>1. file.x \in Key
      BY <1>1 DEF Content
    <3>2. born = Missing \/ born.x # 0 \/ born.size # LegacySize
      BY DEF IdInv
    <3>3. Missing.size # LegacySize
      BY SMT DEF Missing, LegacySize
    <3> QED BY <1>2, <2>2, <3>1, <3>2, <3>3
  <2>4. MigratedIdentity \in KeyPair /\ MigratedIdentity.x = born.x
    BY <2>1, <2>2, <2>3, NewIdentity DEF MigratedIdentity
  <2>5. r \in ProcState /\ r.pc = "open" /\ r.id = MigratedIdentity /\ r.attempt = 1 /\ r.alone = proc[p].alone
    BY <1>1, <2>4, OpenState
  <2> HIDE DEF r
  <2>6. StepMay(p, r, temps)
    BY <1>1, <1>2, <2>1, <2>2, <2>3, <2>4, <2>5, IdentityAssumption, SMT
    DEF StepMay, WriterInv, Entitled, Busy, Writing
  <2> QED
    BY <1>1, <2>1, <2>6, PlainStep
<1>3. CASE file.size # LegacySize /\ DecodesV1(file)
  <2> DEFINE id == [x |-> file.x, s |-> file.s]
  <2>1. ReturnIdentity(p, id)
    BY <1>3 DEF ReadFile
  <2>2. id \in KeyPair /\ file = V1(id)
    BY <1>1, <1>3 DEF Content, KeyPair, V1, DecodesV1
  <2> HIDE DEF id
  <2>3. FileKept' /\ proc[p].pc \in Busy
    BY <1>1 DEF IdInv, FileKept, Busy
  <2> QED
    BY <1>1, <2>1, <2>2, <2>3, ReturnInv
<1>4. CASE file.size # LegacySize /\ ~DecodesV1(file)
  <2>1. Throw(p)
    BY <1>4 DEF ReadFile
  <2> QED
    BY <1>1, <2>1, ThrowInv
<1> QED
  BY <1>2, <1>3, <1>4

(* OpenTemp: a name of its own, or the next one.                           *)
LEMMA OpenInv == ASSUME IdInv, NEW p \in Pid, OpenTemp(p) PROVE IdInv'
<1> DEFINE a == proc[p].attempt
<1>1. /\ proc[p] \in ProcState /\ proc[p].pc = "open" /\ UNCHANGED <<file, born>>
      /\ temps \in [Pid \X (1 .. TempAttempts) -> Content]
      /\ a \in 1 .. TempAttempts /\ Entitled(proc[p].id) /\ promised = {}
  BY DEF IdInv, IdTypeOK, OpenTemp, WriterInv, Writing, AloneInv
<1>2. CASE temps[<<p, a>>] = Missing
  <2> DEFINE r == [proc[p] EXCEPT !.pc = "write"]
             t == [temps EXCEPT ![<<p, a>>] = StaleTemp]
  <2>1. proc' = [proc EXCEPT ![p] = r] /\ temps' = t /\ UNCHANGED promised
    BY <1>2 DEF OpenTemp, IdInv, IdTypeOK
  <2>2. /\ r \in ProcState /\ r.pc = "write" /\ r.id = proc[p].id
        /\ r.attempt = a /\ r.alone = proc[p].alone
    BY <1>1 DEF ProcState
  <2>3. /\ t \in [Pid \X (1 .. TempAttempts) -> Content]
        /\ \A q \in Pid \ {p} : \A b \in 1 .. TempAttempts : t[<<q, b>>] = temps[<<q, b>>]
    BY <1>1, SomeContents
  <2> HIDE DEF r, t
  <2>4. StepMay(p, r, t)
    BY <1>1, <2>1, <2>2, <2>3 DEF StepMay, WriterInv, Entitled, Busy, Writing
  <2> QED
    BY <1>1, <2>1, <2>4, PlainStep
<1>3. CASE temps[<<p, a>>] # Missing /\ a < TempAttempts
  <2> DEFINE r == [proc[p] EXCEPT !.attempt = @ + 1]
  <2>1. proc' = [proc EXCEPT ![p] = r] /\ UNCHANGED <<temps, promised>>
    BY <1>3 DEF OpenTemp, IdInv, IdTypeOK
  <2>2. /\ r \in ProcState /\ r.pc = "open" /\ r.id = proc[p].id
        /\ r.attempt \in 1 .. TempAttempts /\ r.alone = proc[p].alone
    BY <1>1, <1>3, IdentityAssumption, SMT DEF ProcState
  <2> HIDE DEF r
  <2>3. StepMay(p, r, temps)
    BY <1>1, <2>1, <2>2 DEF StepMay, WriterInv, Entitled, Busy, Writing
  <2> QED
    BY <1>1, <2>1, <2>3, PlainStep
<1>4. CASE temps[<<p, a>>] # Missing /\ ~(a < TempAttempts)
  <2>1. Throw(p) /\ UNCHANGED temps
    BY <1>4 DEF OpenTemp
  <2> QED
    BY <1>1, <2>1, ThrowInv
<1> QED
  BY <1>2, <1>3, <1>4

(* WriteTemp: all of the identity, or an exception.                        *)
LEMMA WriteInv == ASSUME IdInv, NEW p \in Pid, WriteTemp(p) PROVE IdInv'
<1> DEFINE a == proc[p].attempt
<1>1. /\ proc[p] \in ProcState /\ proc[p].pc = "write" /\ UNCHANGED <<file, born>>
      /\ temps \in [Pid \X (1 .. TempAttempts) -> Content]
      /\ a \in 1 .. TempAttempts /\ Entitled(proc[p].id) /\ promised = {}
      /\ proc[p].id \in KeyPair
  BY DEF IdInv, IdTypeOK, WriteTemp, WriterInv, Writing, AloneInv, ProcState
<1>2. CASE DeleteTemp(<<p, a>>) /\ Throw(p)
  <2>1. PICK f \in {Missing, StaleTemp} : temps' = [temps EXCEPT ![<<p, a>>] = f]
    BY <1>2 DEF DeleteTemp
  <2> QED
    BY <1>1, <1>2, <2>1, SomeContents, ThrowInv
<1>3. CASE /\ temps' = [temps EXCEPT ![<<p, a>>] = V1(proc[p].id)]
           /\ proc' = [proc EXCEPT ![p].pc = "move"] /\ UNCHANGED promised
  <2> DEFINE r == [proc[p] EXCEPT !.pc = "move"]
             t == [temps EXCEPT ![<<p, a>>] = V1(proc[p].id)]
  <2>1. proc' = [proc EXCEPT ![p] = r] /\ temps' = t
    BY <1>3 DEF IdInv, IdTypeOK
  <2>2. /\ r \in ProcState /\ r.pc = "move" /\ r.id = proc[p].id
        /\ r.attempt = a /\ r.alone = proc[p].alone
    BY <1>1 DEF ProcState
  <2>3. /\ t \in [Pid \X (1 .. TempAttempts) -> Content] /\ t[<<p, a>>] = V1(proc[p].id)
        /\ \A q \in Pid \ {p} : \A b \in 1 .. TempAttempts : t[<<q, b>>] = temps[<<q, b>>]
    BY <1>1, SomeContents
  <2> HIDE DEF r, t
  <2>5. WriterInv(p, r, t)
    BY <1>1, <2>2, <2>3 DEF WriterInv, Entitled
  <2>4. StepMay(p, r, t)
    BY <1>1, <1>3, <2>1, <2>2, <2>3, <2>5, ZenonT(30) DEF StepMay, Busy, Writing
  <2> QED
    BY <1>1, <1>3, <2>1, <2>4, PlainStep
<1> QED
  BY <1>2, <1>3 DEF WriteTemp

(* MoveTemp: the file becomes what the process holds, which is what it may *)
(* write, and nobody was promised another identity.                        *)
LEMMA MoveInv == ASSUME IdInv, NEW p \in Pid, MoveTemp(p) PROVE IdInv'
<1> DEFINE a == proc[p].attempt
<1>1. /\ proc[p] \in ProcState /\ proc[p].pc = "move" /\ UNCHANGED born
      /\ temps \in [Pid \X (1 .. TempAttempts) -> Content]
      /\ a \in 1 .. TempAttempts /\ Entitled(proc[p].id) /\ promised = {}
      /\ proc[p].id \in KeyPair /\ temps[<<p, a>>] = V1(proc[p].id)
  BY DEF IdInv, IdTypeOK, MoveTemp, WriterInv, Writing, AloneInv, ProcState
<1>2. CASE DeleteTemp(<<p, a>>) /\ Throw(p) /\ UNCHANGED file
  <2>1. PICK f \in {Missing, StaleTemp} : temps' = [temps EXCEPT ![<<p, a>>] = f]
    BY <1>2 DEF DeleteTemp
  <2> QED
    BY <1>1, <1>2, <2>1, SomeContents, ThrowInv
<1>3. CASE /\ file' = temps[<<p, a>>] /\ temps' = [temps EXCEPT ![<<p, a>>] = Missing]
           /\ ReturnIdentity(p, proc[p].id)
  <2>1. file' \in Content /\ file' = V1(proc[p].id)
    BY <1>1, <1>3, SomeContents
  <2>2. DecodesV1(file') /\ file'.x = proc[p].id.x
    BY <1>1, <2>1 DEF DecodesV1, V1, V1Size, Entitled
  <2>3. FileKept' /\ proc[p].pc \in Busy
    BY <1>1, <2>2 DEF FileKept, Entitled, Busy, Writing, DecodesV1
  <2> QED
    BY <1>1, <1>3, <2>1, <2>3, SomeContents, ReturnInv, ZenonT(30)
<1> QED
  BY <1>2, <1>3 DEF MoveTemp

(* A failing call, and the end of a process.                               *)
LEMMA ExitInv == ASSUME IdInv, NEW p \in Pid, CallFails(p) \/ EndProcess(p) PROVE IdInv'
<1>1. Throw(p) /\ UNCHANGED <<file, born>>
  BY DEF CallFails, EndProcess
<1>2. temps' = temps \/ \E a \in 1 .. TempAttempts, f \in Content : temps' = [temps EXCEPT ![<<p, a>>] = f]
  <2>1. proc[p].pc \in Writing => proc[p].attempt \in 1 .. TempAttempts
    BY DEF IdInv, WriterInv
  <2> QED
    BY <2>1, SomeContents DEF CallFails, EndProcess, Writing
<1> QED
  BY <1>1, <1>2, ThrowInv

(* Every system call of every process, and its death, keeps the invariant. *)
LEMMA AlwaysIdInv == IdSpec => []IdInv
<1>1. IdInv /\ [IdNext]_idVars => IdInv'
  <2>1. IdInv /\ IdNext => IdInv'
    BY StartIdInv, LookInv, ReadInv, OpenInv, WriteInv, MoveInv, ExitInv DEF IdNext
  <2>2. ASSUME IdInv, UNCHANGED idVars PROVE IdInv'
    BY <2>2 DEF IdInv, IdTypeOK, FileKept, SoleStartLasts, AloneInv, WriterInv, Entitled, idVars
  <2> QED
    BY <2>1, <2>2
<1> QED
  BY <1>1, InitIdInv, PTL DEF IdSpec

(* However many processes start, are killed or fail, the credential file   *)
(* is never half written, never replaced once it is good, a migration      *)
(* keeps the NodeId, and the identity that load_or_create_identity returns *)
(* to a process whose start nobody overlapped is on disk from then on.     *)
THEOREM IdentitySurvives == IdSpec => []IdentityKept
<1>1. IdInv => IdentityKept
  BY DEF IdInv, IdentityKept
<1> QED
  BY <1>1, AlwaysIdInv, PTL
=============================================================================
