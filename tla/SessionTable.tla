---------------------------- MODULE SessionTable ----------------------------
(***************************************************************************)
(* The state of one SessionManager (session.hpp) as a record, and every    *)
(* critical section of session.cpp as an operator on it.  SessionManager   *)
(* is the state machine of one node built from these operators, Handshake  *)
(* composes the managers of several nodes.                                 *)
(*                                                                         *)
(*   sessions   sessions_            peer -> Session                       *)
(*   byId       session_to_peer_     session id -> peer                    *)
(*   retired    retired_             session id -> [session, expires]      *)
(*   pending    pending_initiators_  session id -> [peer, expires]         *)
(*   replays    handshake_replays_   INIT -> [expires]                     *)
(*                                                                         *)
(* SessionState::established is left out: it is FALSE only between         *)
(* create_session and install_noise_keys, which run under one lock, so no  *)
(* other thread reads it FALSE.  established_at is left out: only the      *)
(* rekey timer reads it.  The two keys of a session are one value, the     *)
(* Noise transcript they were derived from.                                *)
(***************************************************************************)
EXTENDS ReplayWindow, FiniteSets, FiniteSetsExt, Functions

CONSTANTS
  Node,               \* NodeIds; their order is the order of the integers
  Sid,                \* session ids; zero is never one
  Key,                \* Noise transcripts
  ActiveCap,          \* SessionCapacityLimits::active
  RetiredCap,         \* SessionCapacityLimits::retired
  PendingCap,         \* SessionCapacityLimits::pending
  RetiredGrace,       \* RETIRED_GRACE
  HandshakeTimeout,   \* HANDSHAKE_TIMEOUT
  ReplayTtl           \* HANDSHAKE_REPLAY_TTL

ASSUME TableAssumption ==
  /\ Node \subseteq Nat
  /\ Sid \subseteq Nat \ {0}
  /\ ActiveCap \in Nat /\ RetiredCap \in Nat /\ PendingCap \in Nat
  /\ RetiredGrace \in Nat /\ HandshakeTimeout \in Nat /\ ReplayTtl \in Nat

(* An INIT frame: its authenticated sender and the id it proposes.  Two    *)
(* transmissions of one INIT are the same bytes, hence the same replay key.*)
InitFrame == [peer : Node, sid : Sid]

Session == [id : Sid, peer : Node, local : BOOLEAN, key : Key, seq : Nat,
            win : Window]

EmptyTable == [sessions |-> <<>>, byId |-> <<>>, retired |-> <<>>,
               pending |-> <<>>, replays |-> <<>>]

-----------------------------------------------------------------------------
(* std::map operations on functions.                                       *)
Put(f, k, v) == [x \in DOMAIN f \cup {k} |-> IF x = k THEN v ELSE f[x]]

Without(f, S) == Restrict(f, DOMAIN f \ S)

(* The entries whose deadline has not been reached (expires <= now erases).*)
Live(f, now) == Restrict(f, {k \in DOMAIN f : f[k].expires > now})

PurgePending(m, now) == [m EXCEPT !.pending = Live(@, now)]

PurgeRetired(m, now) == [m EXCEPT !.retired = Live(@, now)]

PurgeReplays(m, now) == [m EXCEPT !.replays = Live(@, now)]

KnownSid(m, sid) ==
  sid \in DOMAIN m.byId \cup DOMAIN m.retired \cup DOMAIN m.pending

ActiveFull(m, peer) ==
  peer \notin DOMAIN m.sessions /\ Cardinality(DOMAIN m.sessions) >= ActiveCap

(* Bug variant of EvictionVictim: the newest entry goes.                   *)
EvictsNewest(r) ==
  CHOOSE v \in DOMAIN r : \A u \in DOMAIN r : r[v].expires >= r[u].expires

(* The retired entry nearest expiry, the smaller id on a tie.              *)
EvictionVictim(r) ==
  CHOOSE v \in DOMAIN r :
    \A u \in DOMAIN r :
      \/ r[v].expires < r[u].expires
      \/ r[v].expires = r[u].expires /\ v <= u

(* retire_session_locked                                                   *)
Retire(retired, s, now) ==
  LET r == Live(retired, now)
      room == IF s.id \notin DOMAIN r /\ Cardinality(DOMAIN r) >= RetiredCap
              THEN Without(r, {EvictionVictim(r)})
              ELSE r
  IN  IF RetiredCap = 0
      THEN r
      ELSE Put(room, s.id, [session |-> s, expires |-> now + RetiredGrace])

(* Bug variant of CreateSession: the window is reset before the old        *)
(* session is retired.                                                     *)
CreateSessionResetsFirst(m, peer, sid, key, local, now) ==
  LET had == peer \in DOMAIN m.sessions
      old == [m.sessions[peer] EXCEPT !.win = EmptyWindow]
      new == [id |-> sid, peer |-> peer, local |-> local, key |-> key,
              seq |-> 0, win |-> EmptyWindow]
  IN  [m EXCEPT
         !.retired = IF had THEN Retire(@, old, now) ELSE @,
         !.byId = Put(IF had THEN Without(@, {old.id}) ELSE @, sid, peer),
         !.sessions = Put(@, peer, new)]

(* create_session followed by install_noise_keys, one critical section.    *)
CreateSession(m, peer, sid, key, local, now) ==
  LET had == peer \in DOMAIN m.sessions
      old == m.sessions[peer]
      new == [id |-> sid, peer |-> peer, local |-> local, key |-> key,
              seq |-> 0, win |-> EmptyWindow]
  IN  [m EXCEPT
         !.retired = IF had THEN Retire(@, old, now) ELSE @,
         !.byId = Put(IF had THEN Without(@, {old.id}) ELSE @, sid, peer),
         !.sessions = Put(@, peer, new)]

-----------------------------------------------------------------------------
(* The handlers.  Each returns the table it leaves and whether it went on  *)
(* (ok), because an early return still leaves the purges behind.           *)
Outcome(ok, m) == [ok |-> ok, m |-> m]

(* create_handshake_init, its critical section.                            *)
CreateHandshakeInit(table, peer, sid, now) ==
  LET m == PurgePending(table, now)
  IN  IF KnownSid(m, sid) \/ Cardinality(DOMAIN m.pending) >= PendingCap
      THEN Outcome(FALSE, m)
      ELSE Outcome(TRUE, [m EXCEPT !.pending =
             Put(@, sid, [peer |-> peer, expires |-> now + HandshakeTimeout])])

(* handle_handshake_init, first critical section: refuse a known INIT and  *)
(* a known session id before the Noise read.                               *)
CheckInit(table, init, now) ==
  LET m == PurgeReplays(PurgePending(table, now), now)
  IN  Outcome(init \notin DOMAIN m.replays /\ ~KnownSid(m, init.sid), m)

(* Bug variants of AdmitInit: the INIT is not recorded; the lower NodeId   *)
(* gives way too.                                                          *)
AdmitInitUnrecorded(table, self, init, now) ==
  LET m == PurgeReplays(PurgePending(table, now), now)
  IN  Outcome(~ActiveFull(m, init.peer), m)

AdmitInitYields(table, self, init, now) ==
  LET m == PurgeReplays(PurgePending(table, now), now)
      mine == {s \in DOMAIN m.pending : m.pending[s].peer = init.peer}
  IN  Outcome(init \notin DOMAIN m.replays /\ ~ActiveFull(m, init.peer),
              [m EXCEPT !.replays = Put(@, init, [expires |-> now + ReplayTtl]),
                        !.pending = Without(@, mine)])

(* handle_handshake_init, second critical section: record the INIT, decide *)
(* a collision by NodeId order, check the capacity.                        *)
AdmitInit(table, self, init, now) ==
  LET m == PurgeReplays(PurgePending(table, now), now)
      seen == [m EXCEPT !.replays =
                 Put(@, init, [expires |-> now + ReplayTtl])]
      priority == self < init.peer
      mine == {s \in DOMAIN m.pending : m.pending[s].peer = init.peer}
      activeLocal == /\ init.peer \in DOMAIN m.sessions
                     /\ m.sessions[init.peer].local
      yielded == IF mine # {}
                 THEN [seen EXCEPT !.pending = Without(@, {Min(mine)})]
                 ELSE seen
  IN  IF init \in DOMAIN m.replays
      THEN Outcome(FALSE, m)
      ELSE IF priority
           THEN Outcome(mine = {} /\ ~activeLocal /\ ~ActiveFull(m, init.peer), seen)
           ELSE Outcome(~ActiveFull(m, init.peer), yielded)

(* Bug variant of InstallInit: the session id is not checked again.        *)
InstallInitUnchecked(table, init, key, now) ==
  LET m == PurgePending(table, now)
  IN  IF ActiveFull(m, init.peer)
      THEN Outcome(FALSE, m)
      ELSE Outcome(TRUE, CreateSession(m, init.peer, init.sid, key, FALSE, now))

(* handle_handshake_init, third critical section: install the session.     *)
InstallInit(table, init, key, now) ==
  LET m == PurgePending(table, now)
  IN  IF KnownSid(m, init.sid) \/ ActiveFull(m, init.peer)
      THEN Outcome(FALSE, m)
      ELSE Outcome(TRUE, CreateSession(m, init.peer, init.sid, key, FALSE, now))

(* Bug variant of HandleResp: a RESP of the losing initiation is taken.    *)
HandleRespNoPriority(table, self, sid, good, key, now) ==
  LET m == PurgePending(table, now)
      peer == m.pending[sid].peer
      taken == [m EXCEPT !.pending = Without(@, {sid})]
  IN  IF sid \notin DOMAIN m.pending
      THEN Outcome(FALSE, m)
      ELSE IF ~good \/ ActiveFull(m, peer)
           THEN Outcome(FALSE, taken)
           ELSE Outcome(TRUE, CreateSession(taken, peer, sid, key, TRUE, now))

(* handle_handshake_resp.  good: the frame parses, its Noise message       *)
(* authenticates and the remote key is the expected one.                   *)
HandleResp(table, self, sid, good, key, now) ==
  LET m == PurgePending(table, now)
      peer == m.pending[sid].peer
      taken == [m EXCEPT !.pending = Without(@, {sid})]
      loses == /\ peer \in DOMAIN m.sessions
               /\ ~m.sessions[peer].local
               /\ peer < self
  IN  IF sid \notin DOMAIN m.pending
      THEN Outcome(FALSE, m)
      ELSE IF ~good \/ loses \/ ActiveFull(m, peer)
           THEN Outcome(FALSE, taken)
           ELSE Outcome(TRUE, CreateSession(taken, peer, sid, key, TRUE, now))

(* Bug variant of RemoveSession: the replay cache is cleared of the peer.  *)
RemoveSessionForgetsInits(m, peer) ==
  LET active == IF peer \in DOMAIN m.sessions THEN {m.sessions[peer].id} ELSE {}
  IN  [m EXCEPT
         !.sessions = Without(@, {peer}),
         !.byId = Without(@, active),
         !.retired = Without(@, active \cup
                       {s \in DOMAIN @ : @[s].session.peer = peer}),
         !.pending = Without(@, {s \in DOMAIN @ : @[s].peer = peer}),
         !.replays = Without(@, {i \in DOMAIN @ : i.peer = peer})]

(* remove_session                                                          *)
RemoveSession(m, peer) ==
  LET active == IF peer \in DOMAIN m.sessions THEN {m.sessions[peer].id} ELSE {}
  IN  [m EXCEPT
         !.sessions = Without(@, {peer}),
         !.byId = Without(@, active),
         !.retired = Without(@, active \cup
                       {s \in DOMAIN @ : @[s].session.peer = peer}),
         !.pending = Without(@, {s \in DOMAIN @ : @[s].peer = peer})]

(* find_session_by_id_locked: the active session first, then the retired.  *)
FindById(m, sid) ==
  IF sid \in DOMAIN m.byId
  THEN {m.sessions[p] : p \in {m.byId[sid]} \cap DOMAIN m.sessions}
  ELSE {m.retired[s].session : s \in {sid} \cap DOMAIN m.retired}

(* decrypt_message: does the frame pass the lookup, the replay check and   *)
(* the authentication?                                                     *)
Decrypts(m, frame) ==
  \E s \in FindById(m, frame.sid) :
    CheckReplay(s.win, frame.seq) /\ s.key = frame.key

(* update_replay on the session decrypt_message found.                     *)
RecordFrame(m, frame) ==
  IF frame.sid \in DOMAIN m.byId
  THEN [m EXCEPT !.sessions[m.byId[frame.sid]].win = UpdateReplay(@, frame.seq)]
  ELSE [m EXCEPT !.retired[frame.sid].session.win = UpdateReplay(@, frame.seq)]

(* encrypt_message: only an active session encrypts, and its counter moves.*)
AdvanceSend(m, peer) == [m EXCEPT !.sessions[peer].seq = @ + 1]

-----------------------------------------------------------------------------
(* What the table always satisfies.                                        *)

TableType(m) ==
  /\ DOMAIN m = {"sessions", "byId", "retired", "pending", "replays"}
  /\ DOMAIN m.sessions \subseteq Node
  /\ \A p \in DOMAIN m.sessions : m.sessions[p] \in Session
  /\ DOMAIN m.byId \subseteq Sid
  /\ \A s \in DOMAIN m.byId : m.byId[s] \in Node
  /\ DOMAIN m.retired \subseteq Sid
  /\ \A s \in DOMAIN m.retired :
       m.retired[s] \in [session : Session, expires : Nat]
  /\ DOMAIN m.pending \subseteq Sid
  /\ \A s \in DOMAIN m.pending : m.pending[s] \in [peer : Node, expires : Nat]
  /\ DOMAIN m.replays \subseteq InitFrame
  /\ \A i \in DOMAIN m.replays : m.replays[i] \in [expires : Nat]

(* session_to_peer_ is exactly the inverse of the ids in sessions_, so the *)
(* lookups by peer and by id can never disagree.                           *)
ByIdInverse(m) ==
  /\ \A p \in DOMAIN m.sessions :
       /\ m.sessions[p].peer = p
       /\ m.sessions[p].id \in DOMAIN m.byId
       /\ m.byId[m.sessions[p].id] = p
  /\ \A s \in DOMAIN m.byId :
       m.byId[s] \in DOMAIN m.sessions /\ m.sessions[m.byId[s]].id = s

(* A session id has one meaning: active, retired or pending.               *)
SidsDisjoint(m) ==
  /\ DOMAIN m.byId \cap DOMAIN m.retired = {}
  /\ DOMAIN m.byId \cap DOMAIN m.pending = {}
  /\ DOMAIN m.retired \cap DOMAIN m.pending = {}
  /\ \A s \in DOMAIN m.retired : m.retired[s].session.id = s

(* A retired session only exists while its peer has an active successor:   *)
(* remove_session leaves no old key behind.                                *)
RetiredHasSuccessor(m) ==
  \A s \in DOMAIN m.retired : m.retired[s].session.peer \in DOMAIN m.sessions

(* The hard caps of SessionCapacityLimits.                                 *)
WithinCapacity(m) ==
  /\ Cardinality(DOMAIN m.sessions) <= ActiveCap
  /\ Cardinality(DOMAIN m.retired) <= RetiredCap
  /\ Cardinality(DOMAIN m.pending) <= PendingCap

(* The sessions whose keys can still decrypt.                              *)
LiveSessions(m) ==
  {m.sessions[p] : p \in DOMAIN m.sessions} \cup
  {m.retired[s].session : s \in DOMAIN m.retired}
=============================================================================
