------------------------ MODULE SessionManagerProofs ------------------------
(***************************************************************************)
(* The safety properties of SessionManager for every set of nodes, session *)
(* ids and transcripts, every capacity, every time-out and every window    *)
(* width.  The work is done per critical section in SessionTableProofs;    *)
(* here the steps of the threads are put together.  A last section is      *)
(* about Admission, the rate limiter and the cookies that an INIT passes   *)
(* before it reaches the manager.                                          *)
(***************************************************************************)
EXTENDS SessionManager, Admission, SessionTableProofs

(* Most leaves are steps of logic and sets, for Zenon; those that need     *)
(* arithmetic, or more of functions and records, name SMT.                 *)
USE Zenon

(* The inductive invariant.                                                *)
IInv == TypeOK /\ TableInv(sm) /\ KeyInv(sm, keys, delivered)

(* A manager starts with empty tables.                                     *)
LEMMA InitIInv == Init => IInv
<1> SUFFICES ASSUME Init PROVE IInv
  OBVIOUS
<1>1. /\ DOMAIN EmptyTable = {"sessions", "byId", "retired", "pending", "replays"}
      /\ DOMAIN EmptyTable.sessions = {} /\ DOMAIN EmptyTable.byId = {}
      /\ DOMAIN EmptyTable.retired = {} /\ DOMAIN EmptyTable.pending = {}
      /\ DOMAIN EmptyTable.replays = {}
  BY SMT DEF EmptyTable
<1>2. sm = EmptyTable
  BY DEF Init
<1>3. TableType(sm) /\ ByIdInverse(sm) /\ SidsDisjoint(sm) /\ RetiredHasSuccessor(sm)
  BY <1>1, <1>2 DEF TableType, ByIdInverse, SidsDisjoint, RetiredHasSuccessor
<1>4. FiniteTables(sm) /\ WithinCapacity(sm)
  BY <1>1, <1>2, FS_EmptySet, TableAssumption, SMT DEF FiniteTables, WithinCapacity
<1>5. KeyInv(sm, keys, delivered)
  BY <1>1, <1>2 DEF Init, KeyInv, KeysKnown, KeysDistinct, AllRefuse
<1>6. TypeOK
  BY <1>3, ManagerAssumption, SMT DEF Init, TypeOK
<1> QED BY <1>3, <1>4, <1>5, <1>6 DEF IInv, TableInv

(* Every step of every thread keeps the invariant.                         *)
LEMMA NextIInv == IInv /\ [Next]_vars => IInv'
<1> SUFFICES ASSUME IInv, [Next]_vars PROVE IInv'
  OBVIOUS
<1> USE ManagerAssumption
<1>t. /\ TypeOK /\ TableInv(sm) /\ KeyInv(sm, keys, delivered) /\ now \in Nat
      /\ Peer \subseteq Node
      /\ \A m : TableInv(m) => TableType(m)
  BY SMT DEF IInv, TypeOK, Peer, TableInv
<1>s. ASSUME TableInv(sm'), SubTable(sm', sm), UNCHANGED <<now, keys, delivered>>,
             UNCHANGED <<rx, admitted>>
      PROVE  IInv'
  BY <1>t, <1>s, SubTableKeys DEF IInv, TypeOK
<1>1. CASE Tick
  <2>1. now' \in 0 .. MaxTime
    BY <1>t, <1>1, SMT DEF Tick, TypeOK
  <2> QED BY <1>t, <1>1, <2>1 DEF Tick, IInv, TypeOK
<1>2. ASSUME NEW peer \in Peer, NEW sid \in Sid, CreateInit(peer, sid) PROVE IInv'
  <2>1. sm' = CreateHandshakeInit(sm, peer, sid, now).m
    BY <1>2 DEF CreateInit
  <2>2. TableInv(sm') /\ SubTable(sm', sm)
    BY <1>t, <2>1, CreateHandshakeInitInv, NothingInstalled
  <2> QED BY <1>2, <1>s, <2>2 DEF CreateInit
<1>3. ASSUME NEW peer \in Peer, NEW sid \in Sid,
             ReceiveInit([peer |-> peer, sid |-> sid])
      PROVE  IInv'
  <2> DEFINE init == [peer |-> peer, sid |-> sid]
  <2>1. sm' = CheckInit(sm, init, now).m
    BY <1>3 DEF ReceiveInit
  <2>2. TableInv(sm') /\ KeyInv(sm', keys, delivered)
    BY <1>t, <2>1, CheckInitInv, NothingInstalled, SubTableKeys
  <2>3. rx' = Idle \/ rx' \in [stage : {"checked", "admitted"}, init : [peer : Peer, sid : Sid]]
    BY <1>3 DEF ReceiveInit
  <2> QED BY <1>t, <1>3, <2>2, <2>3 DEF ReceiveInit, IInv, TypeOK
<1>4. CASE AbandonInit
  BY <1>t, <1>4 DEF AbandonInit, IInv, TypeOK
<1>5. CASE AuthenticateInit
  <2>1. rx \in [stage : {"checked", "admitted"}, init : [peer : Peer, sid : Sid]]
    BY <1>t, <1>5, SMT DEF AuthenticateInit, TypeOK, Idle
  <2>2. rx.init \in InitFrame
    BY <1>t, <2>1 DEF InitFrame
  <2>3. sm' = AdmitInit(sm, Self, rx.init, now).m
    BY <1>5 DEF AuthenticateInit
  <2>4. TableInv(sm') /\ KeyInv(sm', keys, delivered)
    BY <1>t, <2>2, <2>3, AdmitInitInv, NothingInstalled, SubTableKeys
  <2>5. rx' = Idle \/ rx' \in [stage : {"checked", "admitted"}, init : [peer : Peer, sid : Sid]]
    BY <1>5, <2>1 DEF AuthenticateInit
  <2>6. DOMAIN admitted' \subseteq InitFrame /\ \A i \in DOMAIN admitted' : admitted'[i] \in Nat
    BY <1>t, <1>5, <2>2 DEF AuthenticateInit, TypeOK, Put
  <2> QED BY <1>t, <1>5, <2>4, <2>5, <2>6 DEF AuthenticateInit, IInv, TypeOK
<1>6. ASSUME NEW key \in Key, RespondInit(key) PROVE IInv'
  <2>1. rx \in [stage : {"checked", "admitted"}, init : [peer : Peer, sid : Sid]]
    BY <1>t, <1>6, SMT DEF RespondInit, TypeOK, Idle
  <2>2. rx.init \in InitFrame
    BY <1>t, <2>1 DEF InitFrame
  <2>3. /\ sm' = InstallInit(sm, rx.init, key, now).m /\ key \notin keys
        /\ keys' = IF InstallInit(sm, rx.init, key, now).ok THEN keys \cup {key} ELSE keys
    BY <1>6 DEF RespondInit
  <2>4. TableInv(sm')
    BY <1>t, <2>2, <2>3, InstallInitInv
  <2>5. KeyInv(sm', keys', delivered)
    BY <1>t, <2>2, <2>3, InstallInitKeys
  <2> QED BY <1>t, <1>6, <2>3, <2>4, <2>5 DEF RespondInit, IInv, TypeOK
<1>7. ASSUME NEW sid \in Sid, NEW good \in BOOLEAN, NEW key \in Key,
             ReceiveResp(sid, good, key)
      PROVE  IInv'
  <2>1. /\ sm' = HandleResp(sm, Self, sid, good, key, now).m /\ key \notin keys
        /\ keys' = IF HandleResp(sm, Self, sid, good, key, now).ok
                   THEN keys \cup {key} ELSE keys
    BY <1>7 DEF ReceiveResp
  <2>2. TableInv(sm')
    BY <1>t, <2>1, HandleRespInv
  <2>3. KeyInv(sm', keys', delivered)
    BY <1>t, <2>1, HandleRespKeys
  <2> QED BY <1>t, <1>7, <2>1, <2>2, <2>3 DEF ReceiveResp, IInv, TypeOK
<1>8. ASSUME NEW peer \in Peer, Encrypt(peer) PROVE IInv'
  <2>1. TableInv(sm') /\ KeyInv(sm', keys, delivered)
    BY <1>t, <1>8, AdvanceSendInv, AdvanceSendKeys DEF Encrypt
  <2> QED BY <1>t, <1>8, <2>1 DEF Encrypt, IInv, TypeOK
<1>9. ASSUME NEW frame \in Frame, Decrypt(frame) PROVE IInv'
  <2>1. frame.key \in Key /\ frame.seq \in 0 .. MaxSeq - 1 /\ frame.seq \in Nat
    BY SMT DEF Frame
  <2>2. TableInv(sm') /\ KeyInv(sm', keys, delivered')
    BY <1>t, <1>9, <2>1, RecordFrameInv, RecordFrameKeys DEF Decrypt
  <2> QED BY <1>t, <1>9, <2>1, <2>2, SMT DEF Decrypt, IInv, TypeOK
<1>10. ASSUME NEW peer \in Peer, Remove(peer) PROVE IInv'
  <2>1. TableInv(sm') /\ SubTable(sm', sm)
    BY <1>t, <1>10, RemoveSessionInv, NothingInstalled DEF Remove
  <2> QED BY <1>10, <1>s, <2>1 DEF Remove
<1>11. CASE PurgeRetiredSessions
  <2>1. TableInv(sm') /\ SubTable(sm', sm)
    BY <1>t, <1>11, PurgeRetiredInv, NothingInstalled DEF PurgeRetiredSessions
  <2> QED BY <1>11, <1>s, <2>1 DEF PurgeRetiredSessions
<1>12. CASE PurgeIncompleteHandshakes
  <2>1. TableInv(sm') /\ SubTable(sm', sm)
    BY <1>t, <1>12, PurgePendingInv, NothingInstalled DEF PurgeIncompleteHandshakes
  <2> QED BY <1>12, <1>s, <2>1 DEF PurgeIncompleteHandshakes
<1>13. CASE PurgeHandshakeReplays
  <2>1. TableInv(sm') /\ SubTable(sm', sm)
    BY <1>t, <1>13, PurgeReplaysInv, NothingInstalled DEF PurgeHandshakeReplays
  <2> QED BY <1>13, <1>s, <2>1 DEF PurgeHandshakeReplays
<1>14. CASE UNCHANGED vars
  BY <1>t, <1>14 DEF vars, IInv, TypeOK
<1> QED
  BY <1>1, <1>2, <1>3, <1>4, <1>5, <1>6, <1>7, <1>8, <1>9, <1>10, <1>11, <1>12,
     <1>13, <1>14 DEF Next

(* The invariant holds in every reachable state.                           *)
LEMMA AlwaysIInv == Spec => []IInv
BY InitIInv, NextIInv, PTL DEF Spec

(* The maps of session.hpp fit together in every interleaving of the       *)
(* threads: the two lookups agree, a session id is never two of pending,   *)
(* active and retired, no retired key outlives its peer, and the caps hold *)
(* although each is checked in one lock section and the map filled in      *)
(* another.                                                                *)
THEOREM TablesStayConsistent == Spec => []TablesConsistent
<1>1. IInv => TypeOK
  BY DEF IInv
<1>2. IInv => LookupsAgree
  BY DEF IInv, TableInv, LookupsAgree
<1>3. IInv => OneMeaningPerSid
  BY DEF IInv, TableInv, OneMeaningPerSid
<1>4. IInv => NoOrphanedKeys
  BY DEF IInv, TableInv, NoOrphanedKeys
<1>5. IInv => HardCaps
  BY DEF IInv, TableInv, HardCaps
<1>6. IInv => TablesConsistent
  BY <1>1, <1>2, <1>3, <1>4, <1>5 DEF TablesConsistent
<1> QED BY <1>6, AlwaysIInv, PTL

(* A frame decrypt_message returned is refused ever after, under the       *)
(* active key and under a retired one.                                     *)
THEOREM NoFrameAcceptedTwice == Spec => []DeliveredRefused
<1>1. IInv => DeliveredRefused
  <2> SUFFICES ASSUME IInv, NEW s \in LiveSessions(sm), NEW d \in delivered, d[1] = s.key
               PROVE  ~CheckReplay(s.win, d[2])
    BY DEF DeliveredRefused
  <2>1. Refuses(s, delivered)
    BY DEF IInv, KeyInv, AllRefuse, LiveSessions
  <2> QED BY <2>1 DEF Refuses
<1> QED BY <1>1, AlwaysIInv, PTL

-----------------------------------------------------------------------------
(* Action properties.  They need to know, besides IInv, what lies behind   *)
(* an INIT the receive thread has admitted and behind the replay cache.    *)

(* The receive thread is about to install an INIT of a higher NodeId: no   *)
(* session of this node's own initiation is there to be replaced, because  *)
(* RESPs are handled by the same thread.                                   *)
Yields ==
  rx.stage = "admitted" /\ Self < rx.init.peer /\ rx.init.peer \in DOMAIN sm.sessions =>
    ~sm.sessions[rx.init.peer].local

(* No node initiates to itself.                                            *)
ToOthers == \A s \in DOMAIN sm.pending : sm.pending[s].peer \in Peer

(* An INIT that was taken is in the cache until its time is over.          *)
Cached ==
  \A i \in DOMAIN admitted :
    \/ admitted[i] + ReplayTtl <= now
    \/ i \in DOMAIN sm.replays /\ sm.replays[i].expires >= admitted[i] + ReplayTtl

ThreadInv == Yields /\ ToOthers /\ Cached

(* What a step does to the sessions.                                       *)
Installs ==
  \/ Keeps(sm', sm, now)
  \/ rx.stage = "admitted" /\ Replaces(sm', sm, rx.init.peer, FALSE, now)
  \/ \E s \in DOMAIN sm.pending :
       LET peer == sm.pending[s].peer
       IN  /\ ~(peer \in DOMAIN sm.sessions /\ ~sm.sessions[peer].local /\ peer < Self)
           /\ Replaces(sm', sm, peer, TRUE, now)

(* Only an admitted INIT and the answer to a pending initiation replace a  *)
(* session.                                                                *)
LEMMA StepInstalls == IInv /\ [Next]_vars => Installs
<1> SUFFICES ASSUME IInv, [Next]_vars PROVE Installs
  OBVIOUS
<1>1. TableInv(sm) /\ now \in Nat
  BY ManagerAssumption, SMT DEF IInv, TypeOK
<1>2. sm' = sm => Installs
  BY SameKeeps DEF Installs
<1>3. ASSUME NEW peer \in Peer, NEW sid \in Sid, CreateInit(peer, sid) PROVE Installs
  BY <1>1, <1>3, NothingReplaced DEF CreateInit, Installs
<1>4. ASSUME NEW init, ReceiveInit(init) PROVE Installs
  BY <1>1, <1>4, NothingReplaced DEF ReceiveInit, Installs
<1>5. CASE AuthenticateInit
  BY <1>1, <1>5, NothingReplaced DEF AuthenticateInit, Installs
<1>6. ASSUME NEW key \in Key, RespondInit(key) PROVE Installs
  BY <1>1, <1>6, InstallInitReplaces DEF RespondInit, Installs
<1>7. ASSUME NEW sid \in Sid, NEW good \in BOOLEAN, NEW key \in Key,
             ReceiveResp(sid, good, key)
      PROVE  Installs
  <2>1. sm' = HandleResp(sm, Self, sid, good, key, now).m
    BY <1>7 DEF ReceiveResp
  <2>2. \/ Keeps(sm', sm, now)
        \/ \E peer : /\ sid \in DOMAIN sm.pending /\ peer = sm.pending[sid].peer
                     /\ ~(peer \in DOMAIN sm.sessions /\ ~sm.sessions[peer].local
                          /\ peer < Self)
                     /\ Replaces(sm', sm, peer, TRUE, now)
    BY <1>1, <2>1, HandleRespReplaces
  <2> QED BY <2>2 DEF Installs
<1>8. ASSUME NEW peer \in Peer, Encrypt(peer) PROVE Installs
  BY <1>1, <1>8, NothingReplaced DEF Encrypt, Installs
<1>9. ASSUME NEW frame \in Frame, Decrypt(frame) PROVE Installs
  BY <1>1, <1>9, NothingReplaced DEF Decrypt, Installs
<1>10. ASSUME NEW peer \in Peer, Remove(peer) PROVE Installs
  BY <1>1, <1>10, NothingReplaced DEF Remove, Installs
<1>11. CASE PurgeRetiredSessions \/ PurgeIncompleteHandshakes \/ PurgeHandshakeReplays
  BY <1>1, <1>11, NothingReplaced
     DEF PurgeRetiredSessions, PurgeIncompleteHandshakes, PurgeHandshakeReplays, Installs
<1>12. CASE Tick \/ AbandonInit \/ UNCHANGED vars
  BY <1>2, <1>12 DEF Tick, AbandonInit, vars
<1> QED
  BY <1>3, <1>4, <1>5, <1>6, <1>7, <1>8, <1>9, <1>10, <1>11, <1>12 DEF Next

(* A step that enters no initiation, forgets no INIT, admits none and      *)
(* replaces no session.                                                    *)
LEMMA QuietThreadInv ==
  ASSUME IInv, ThreadInv, Remembers(sm', sm, now), now' = now, admitted' = admitted,
         rx'.stage = "admitted" => rx' = rx /\ Keeps(sm', sm, now)
  PROVE  ThreadInv'
<1>1. ToOthers'
  BY DEF ThreadInv, ToOthers, Remembers, Peer
<1>2. Yields'
  BY DEF ThreadInv, Yields, Keeps
<1>3. Cached'
  <2>1. TableInv(sm) /\ now \in Nat /\ ReplayTtl \in Nat
    BY ManagerAssumption, TableAssumption, SMT DEF IInv, TypeOK
  <2>2. \A i \in DOMAIN admitted : admitted[i] \in Nat
    BY DEF IInv, TypeOK
  <2>3. \A i \in DOMAIN sm.replays : sm.replays[i].expires \in Nat
    BY <2>1 DEF TableInv, TableType
  <2> QED BY <2>1, <2>2, <2>3, SMT DEF ThreadInv, Cached, Remembers
<1> QED BY <1>1, <1>2, <1>3 DEF ThreadInv

(* Every step keeps it.                                                    *)
LEMMA NextThreadInv == IInv /\ ThreadInv /\ [Next]_vars => ThreadInv'
<1> SUFFICES ASSUME IInv, ThreadInv, [Next]_vars PROVE ThreadInv'
  OBVIOUS
<1>1. /\ TableInv(sm) /\ now \in Nat /\ ReplayTtl \in Nat
      /\ \A i \in DOMAIN admitted : admitted[i] \in Nat
  BY ManagerAssumption, TableAssumption, SMT DEF IInv, TypeOK
<1>2. Idle.stage # "admitted"
  BY DEF Idle
<1>3. CASE Tick
  BY <1>1, <1>3, ManagerAssumption, SMT DEF Tick, ThreadInv, Yields, ToOthers, Cached, Peer
<1>4. ASSUME NEW peer \in Peer, NEW sid \in Sid, CreateInit(peer, sid) PROVE ThreadInv'
  <2>1. /\ sm'.replays = sm.replays
        /\ \A s \in DOMAIN sm'.pending :
             sm'.pending[s].peer = peer
               \/ (s \in DOMAIN sm.pending /\ sm'.pending[s] = sm.pending[s])
    BY <1>1, <1>4, CreateInitCaches, SMT DEF CreateInit
  <2>2. Keeps(sm', sm, now)
    BY <1>1, <1>4, NothingReplaced DEF CreateInit
  <2>3. ToOthers'
    BY <2>1 DEF ThreadInv, ToOthers, Peer
  <2>4. Yields' /\ Cached'
    BY <1>4, <2>1, <2>2 DEF CreateInit, ThreadInv, Yields, Cached, Keeps
  <2> QED BY <2>3, <2>4 DEF ThreadInv
<1>5. ASSUME NEW init, ReceiveInit(init) PROVE ThreadInv'
  <2>1. rx'.stage # "admitted"
    BY <1>2, <1>5 DEF ReceiveInit
  <2> QED BY <1>1, <1>5, <2>1, CachesKept, QuietThreadInv DEF ReceiveInit
<1>6. CASE AbandonInit
  <2>1. rx'.stage # "admitted" /\ Remembers(sm', sm, now)
    BY <1>2, <1>6 DEF AbandonInit, Remembers
  <2> QED BY <1>6, <2>1, QuietThreadInv DEF AbandonInit
<1>7. CASE AuthenticateInit
  <2> DEFINE init == rx.init
             out == AdmitInit(sm, Self, init, now)
             known == init \in DOMAIN PurgeReplays(sm, now).replays
  <2>1. /\ sm' = out.m /\ now' = now
        /\ rx' = IF out.ok THEN [stage |-> "admitted", init |-> init] ELSE Idle
        /\ admitted' = IF known THEN admitted ELSE Put(admitted, init, now)
    BY <1>7 DEF AuthenticateInit
  <2>2. /\ known => Remembers(sm', sm, now)
        /\ ~known => /\ init \in DOMAIN sm'.replays
                     /\ sm'.replays[init].expires = now + ReplayTtl
                     /\ \A i \in DOMAIN sm.replays :
                          i # init /\ sm.replays[i].expires > now =>
                            i \in DOMAIN sm'.replays /\ sm'.replays[i] = sm.replays[i]
        /\ \A s \in DOMAIN sm'.pending :
             s \in DOMAIN sm.pending /\ sm'.pending[s] = sm.pending[s]
        /\ sm'.sessions = sm.sessions
        /\ out.ok /\ Self < init.peer /\ init.peer \in DOMAIN sm.sessions =>
             ~sm.sessions[init.peer].local
    BY <1>1, <2>1, AdmitInitCaches, SMT
  <2> HIDE DEF out, known, init
  <2>3. ToOthers'
    BY <2>2 DEF ThreadInv, ToOthers, Peer
  <2>4. Yields'
    BY <1>2, <2>1, <2>2 DEF Yields
  <2>5. \A i \in DOMAIN sm.replays : sm.replays[i].expires \in Nat
    BY <1>1 DEF TableInv, TableType
  <2>6. CASE known
    <3>1. Cached'
      BY <1>1, <2>1, <2>2, <2>5, <2>6, SMT DEF ThreadInv, Cached, Remembers
    <3> QED BY <2>3, <2>4, <3>1 DEF ThreadInv
  <2>7. CASE ~known
    <3>1. /\ DOMAIN admitted' = DOMAIN admitted \cup {init} /\ admitted'[init] = now
          /\ \A i \in DOMAIN admitted : i # init => admitted'[i] = admitted[i]
      BY <2>1, <2>7 DEF Put
    <3>2. Cached'
      BY <1>1, <2>1, <2>2, <2>5, <2>7, <3>1, SMT DEF ThreadInv, Cached
    <3> QED BY <2>3, <2>4, <3>2 DEF ThreadInv
  <2> QED BY <2>6, <2>7
<1>8. ASSUME NEW key \in Key, RespondInit(key) PROVE ThreadInv'
  BY <1>1, <1>2, <1>8, CachesKept, QuietThreadInv DEF RespondInit
<1>9. ASSUME NEW sid \in Sid, NEW good \in BOOLEAN, NEW key \in Key,
             ReceiveResp(sid, good, key)
      PROVE  ThreadInv'
  BY <1>1, <1>2, <1>9, CachesKept, QuietThreadInv, SMT DEF ReceiveResp
<1>10. ASSUME NEW peer \in Peer, Encrypt(peer) PROVE ThreadInv'
  BY <1>1, <1>10, CachesKept, NothingReplaced, QuietThreadInv DEF Encrypt
<1>11. ASSUME NEW frame \in Frame, Decrypt(frame) PROVE ThreadInv'
  BY <1>1, <1>11, CachesKept, NothingReplaced, QuietThreadInv, ZenonT(30) DEF Decrypt
<1>12. ASSUME NEW peer \in Peer, Remove(peer) PROVE ThreadInv'
  BY <1>1, <1>12, CachesKept, NothingReplaced, QuietThreadInv, ZenonT(30) DEF Remove
<1>13. CASE PurgeRetiredSessions \/ PurgeIncompleteHandshakes \/ PurgeHandshakeReplays
  BY <1>1, <1>13, CachesKept, NothingReplaced, QuietThreadInv
     DEF PurgeRetiredSessions, PurgeIncompleteHandshakes, PurgeHandshakeReplays
<1>14. CASE UNCHANGED vars
  BY <1>14 DEF vars, ThreadInv, Yields, ToOthers, Cached, Peer
<1> QED
  BY <1>3, <1>4, <1>5, <1>6, <1>7, <1>8, <1>9, <1>10, <1>11, <1>12, <1>13, <1>14 DEF Next

(* Nothing is pending, admitted or installed at the beginning.             *)
LEMMA AlwaysThreadInv == Spec => [](IInv /\ ThreadInv)
<1>1. Init => ThreadInv
  BY SMT DEF Init, ThreadInv, Yields, ToOthers, Cached, Idle, EmptyTable
<1> QED BY <1>1, InitIInv, NextIInv, NextThreadInv, PTL DEF Spec

(* A session of the lower NodeId's initiation is never replaced by one of  *)
(* the higher NodeId's, although handle_handshake_init decides under one   *)
(* lock and installs under another.                                        *)
THEOREM LowerInitiationStays == Spec => LowerInitiationKept
<1>1. ASSUME IInv, ThreadInv, [Next]_vars PROVE LowerKept
  <2>1. Installs
    BY <1>1, StepInstalls
  <2>2. /\ \A p \in DOMAIN sm.sessions : sm.sessions[p].local \in BOOLEAN
        /\ DOMAIN sm.sessions \subseteq Node
    BY <1>1 DEF IInv, TableInv, TableType, Session
  <2>3. Self \in Nat /\ Node \subseteq Nat
    BY ManagerAssumption, TableAssumption
  <2>4. CASE Keeps(sm', sm, now)
    BY <2>4 DEF Keeps, LowerKept
  <2>5. CASE rx.stage = "admitted" /\ Replaces(sm', sm, rx.init.peer, FALSE, now)
    BY <1>1, <2>2, <2>5 DEF ThreadInv, Yields, Replaces, LowerKept
  <2>6. ASSUME NEW s \in DOMAIN sm.pending,
               LET peer == sm.pending[s].peer
               IN  /\ ~(peer \in DOMAIN sm.sessions /\ ~sm.sessions[peer].local /\ peer < Self)
                   /\ Replaces(sm', sm, peer, TRUE, now)
        PROVE  LowerKept
    <3> DEFINE peer == sm.pending[s].peer
    <3>1. peer \in Peer
      BY <1>1 DEF ThreadInv, ToOthers
    <3>2. peer \in Nat /\ peer # Self
      BY <2>3, <3>1 DEF Peer
    <3>3. /\ ~(peer \in DOMAIN sm.sessions /\ ~sm.sessions[peer].local /\ peer < Self)
          /\ Replaces(sm', sm, peer, TRUE, now)
      BY <2>6
    <3> HIDE DEF peer
    <3> QED BY <2>2, <2>3, <3>2, <3>3, SMT DEF Replaces, LowerKept
  <2> QED BY <2>1, <2>4, <2>5, <2>6 DEF Installs
<1>2. IInv /\ ThreadInv /\ [Next]_vars => [LowerKept]_vars
  BY <1>1
<1> QED BY <1>2, AlwaysThreadInv, PTL DEF Spec, LowerInitiationKept

(* An INIT that the replay cache took is not taken again before ReplayTtl  *)
(* has passed, whatever is removed or purged in between.                   *)
THEOREM InitTakenOnce == Spec => InitOncePerTtl
<1>1. ASSUME IInv, ThreadInv, [Next]_vars PROVE TakenAgainLater
  <2>1. /\ TableInv(sm) /\ now \in Nat /\ ReplayTtl \in Nat
        /\ \A i \in DOMAIN admitted : admitted[i] \in Nat
    BY <1>1, ManagerAssumption, TableAssumption, SMT DEF IInv, TypeOK
  <2>2. CASE AuthenticateInit
    <3> DEFINE init == rx.init
               known == init \in DOMAIN PurgeReplays(sm, now).replays
    <3>1. admitted' = IF known THEN admitted ELSE Put(admitted, init, now)
      BY <2>2 DEF AuthenticateInit
    <3>2. ~known => (init \in DOMAIN sm.replays => sm.replays[init].expires <= now)
      BY <2>1, AdmitInitCaches
    <3> HIDE DEF known, init
    <3>3. CASE known
      BY <3>1, <3>3 DEF TakenAgainLater
    <3>4. CASE ~known
      <4>1. /\ admitted'[init] = now
            /\ \A i \in DOMAIN admitted : i # init => admitted'[i] = admitted[i]
        BY <3>1, <3>4 DEF Put
      <4>2. init \in DOMAIN admitted => admitted[init] + ReplayTtl <= now
        <5>1. \A i \in DOMAIN sm.replays : sm.replays[i].expires \in Nat
          BY <2>1 DEF TableInv, TableType
        <5> QED BY <1>1, <2>1, <3>2, <3>4, <5>1, SMT DEF ThreadInv, Cached
      <4> QED BY <2>1, <4>1, <4>2 DEF TakenAgainLater
    <3> QED BY <3>3, <3>4
  <2>3. CASE ~AuthenticateInit
    <3>1. admitted' = admitted
      BY <1>1, <2>3 DEF Next, vars, Tick, CreateInit, ReceiveInit, AbandonInit, RespondInit,
         ReceiveResp, Encrypt, Decrypt, Remove, PurgeRetiredSessions,
         PurgeIncompleteHandshakes, PurgeHandshakeReplays
    <3> QED BY <3>1 DEF TakenAgainLater
  <2> QED BY <2>2, <2>3
<1>2. IInv /\ ThreadInv /\ [Next]_vars => [TakenAgainLater]_vars
  BY <1>1
<1> QED BY <1>2, AlwaysThreadInv, PTL DEF Spec, InitOncePerTtl

(* A session that a rekey replaces stays able to decrypt for the grace     *)
(* period; it goes earlier only with its peer, or alone when the table of  *)
(* retired sessions is full and nothing in it expires earlier.             *)
THEOREM OldKeyStays == Spec => OldKeyKept
<1>1. ASSUME IInv, [Next]_vars PROVE OldKeyStep
  <2>1. Installs
    BY <1>1, StepInstalls
  <2>2. TableInv(sm) /\ now \in Nat
    BY <1>1, ManagerAssumption, SMT DEF IInv, TypeOK
  <2>3. \A s \in DOMAIN sm.retired : sm.retired[s].expires \in Nat
    BY <2>2 DEF TableInv, TableType
  <2>4. CASE Keeps(sm', sm, now)
    BY <2>2, <2>3, <2>4, SMT DEF Keeps, OldKeyStep
  <2>5. ASSUME NEW peer, NEW local, Replaces(sm', sm, peer, local, now) PROVE OldKeyStep
    <3>1. CASE peer \notin DOMAIN sm.sessions
      BY <2>5, <3>1 DEF Replaces, OldKeyStep
    <3>2. CASE peer \in DOMAIN sm.sessions
      <4> DEFINE old == sm.sessions[peer]
                 early == {x \in DOMAIN sm.retired \ DOMAIN sm'.retired :
                             sm.retired[x].expires > now}
                 gone == {s \in DOMAIN sm.retired \ DOMAIN sm'.retired :
                            /\ sm.retired[s].expires > now
                            /\ sm.retired[s].session.peer \in DOMAIN sm'.sessions}
      <4>1. old \in Session /\ old.id \notin DOMAIN sm.retired
        BY <2>2, <3>2 DEF TableInv, TableType, ByIdInverse, SidsDisjoint
      <4>2. sm'.retired = Retire(sm.retired, old, now)
        BY <2>5, <3>2 DEF Replaces
      <4> HIDE DEF old
      <4>3. /\ old.id \in DOMAIN sm'.retired =>
                 sm'.retired[old.id] = [session |-> old, expires |-> now + RetiredGrace]
            /\ RetiredCap > 0 => old.id \in DOMAIN sm'.retired
            /\ early # {} => /\ Cardinality(early) = 1
                             /\ Cardinality(DOMAIN sm'.retired) = RetiredCap
                             /\ \A x \in early, u \in DOMAIN sm.retired \cap DOMAIN sm'.retired :
                                  sm.retired[x].expires <= sm.retired[u].expires
        <5>1. /\ DOMAIN sm.retired \subseteq Sid /\ IsFiniteSet(DOMAIN sm.retired)
              /\ Cardinality(DOMAIN sm.retired) <= RetiredCap
              /\ \A x \in DOMAIN sm.retired :
                   sm.retired[x] \in [session : Session, expires : Nat]
          BY <2>2 DEF TableInv, TableType, FiniteTables, WithinCapacity
        <5>2. old.id \in DOMAIN sm'.retired =>
                sm'.retired[old.id] = [session |-> old, expires |-> now + RetiredGrace]
          BY <2>2, <4>1, <4>2, <5>1, RetireFacts, SMT
        <5>3. /\ RetiredCap > 0 => old.id \in DOMAIN sm'.retired
              /\ early # {} => /\ Cardinality(early) = 1
                               /\ Cardinality(DOMAIN sm'.retired) = RetiredCap
                               /\ \A x \in early, u \in DOMAIN sm.retired \cap DOMAIN sm'.retired :
                                    sm.retired[x].expires <= sm.retired[u].expires
          <6> DEFINE r == Retire(sm.retired, old, now)
                     lost == {x \in DOMAIN sm.retired \ DOMAIN r : sm.retired[x].expires > now}
          <6>1. /\ RetiredCap > 0 => old.id \in DOMAIN r
                /\ lost # {} => /\ Cardinality(lost) = 1
                                /\ Cardinality(DOMAIN r) = RetiredCap
                                /\ \A x \in lost, u \in DOMAIN sm.retired \cap DOMAIN r :
                                     sm.retired[x].expires <= sm.retired[u].expires
            BY <2>2, <4>1, <5>1, RetireEvicts
          <6>2. r = sm'.retired
            BY <4>2
          <6> HIDE DEF r
          <6>3. lost = early
            BY <6>2
          <6> HIDE DEF lost, early
          <6> QED BY <6>1, <6>2, <6>3
        <5> QED BY <5>2, <5>3
      <4>4. gone = early
        BY <2>2, <2>5 DEF TableInv, RetiredHasSuccessor, Replaces
      <4>5. \A p \in DOMAIN sm.sessions \cap DOMAIN sm'.sessions :
              sm.sessions[p].id # sm'.sessions[p].id => p = peer
        BY <2>5 DEF Replaces
      <4> QED BY <4>3, <4>4, <4>5 DEF OldKeyStep, old
    <3> QED BY <3>1, <3>2
  <2> QED BY <2>1, <2>4, <2>5 DEF Installs
<1>2. IInv /\ [Next]_vars => [OldKeyStep]_vars
  BY <1>1
<1> QED BY <1>2, AlwaysIInv, PTL DEF Spec, OldKeyKept

-----------------------------------------------------------------------------
(* Admission: the rate limiter.                                            *)

(* The limits, spelled out.                                                *)
LEMMA RateLimits ==
  /\ PerSourceLimit \in Nat /\ PerSourceLimit > 0 /\ GlobalLimit \in Nat /\ GlobalLimit > 0
  /\ MaxSources \in Nat /\ MaxSources > 0 /\ LimitWindow \in Nat /\ LimitWindow > 0
BY AdmissionAssumption, SMT

(* A set whose members all come from members of a finite set, by the       *)
(* passing of a unit of time, is finite and not larger.                    *)
LEMMA EarlierCount ==
  ASSUME NEW S, IsFiniteSet(S), NEW T, \A x \in T : \E e \in S : x = Earlier(e)
  PROVE  IsFiniteSet(T) /\ Cardinality(T) <= Cardinality(S)
<1> DEFINE U == {e \in S : Earlier(e) \in T}
           f == [e \in U |-> Earlier(e)]
<1>1. IsFiniteSet(U) /\ Cardinality(U) <= Cardinality(S)
  BY FS_Subset
<1>2. f \in Surjection(U, T)
  BY DEF Surjection
<1>3. IsFiniteSet(T) /\ Cardinality(T) <= Cardinality(U)
  BY <1>1, <1>2, FS_Surjection
<1> QED BY <1>1, <1>3, FS_CardinalityType, SMT

(* A part of a finite set has a natural number of members, not more than   *)
(* the whole.                                                              *)
LEMMA PartCount ==
  ASSUME NEW S, IsFiniteSet(S), NEW T, T \subseteq S
  PROVE  /\ IsFiniteSet(T) /\ Cardinality(T) \in Nat
         /\ Cardinality(S) \in Nat /\ Cardinality(T) <= Cardinality(S)
BY FS_Subset, FS_CardinalityType

(* Two parts that do not overlap make up the whole.                        *)
LEMMA SplitCount ==
  ASSUME NEW S, IsFiniteSet(S), NEW T, T \subseteq S
  PROVE  Cardinality(S) = Cardinality(T) + Cardinality(S \ T)
<1>1. S \cap T = T
  OBVIOUS
<1>2. Cardinality(S \ T) = Cardinality(S) - Cardinality(T)
  BY <1>1, FS_Difference
<1> QED BY <1>2, PartCount, SMT

-----------------------------------------------------------------------------
Passage == [key : Keys, ago : 0 .. LimitWindow - 1, nr : Nat]
SourceBucket == [age : 0 .. LimitWindow, count : 1 .. PerSourceLimit]

(* The limiter has its type.                                               *)
LimiterOk(l) ==
  /\ {"age", "count", "sources"} \subseteq DOMAIN l
  /\ l.age \in 0 .. LimitWindow /\ l.count \in 0 .. GlobalLimit
  /\ DOMAIN l.sources \subseteq Keys /\ IsFiniteSet(DOMAIN l.sources)
  /\ Cardinality(DOMAIN l.sources) <= MaxSources
  /\ \A k \in DOMAIN l.sources : l.sources[k] \in SourceBucket

(* The history has its type, and the INITs of one moment are numbered.     *)
RecentOk(R) ==
  /\ IsFiniteSet(R) /\ R \subseteq Passage
  /\ \A e \in R : e.ago = 0 =>
       e.nr < Cardinality({d \in R : d.key = e.key /\ d.ago = 0})

(* INITs of a key, of all keys, since a window of that age began and before*)
Of(R, k) == {e \in R : e.key = k}
Since(R, a) == {e \in R : e.ago <= a}
Until(R, a) == {e \in R : e.ago > a}

(* A source: its bucket counts what passed since its window began, which   *)
(* was with an INIT; what passed before and is not yet forgotten belongs   *)
(* to one earlier window, without the INIT that began it.                  *)
SourceOk(R, l, k) ==
  IF k \in DOMAIN l.sources
  THEN /\ Cardinality(Since(Of(R, k), l.sources[k].age)) <= l.sources[k].count
       /\ Cardinality(Until(Of(R, k), l.sources[k].age)) <= PerSourceLimit - 1
       /\ l.sources[k].age < LimitWindow => \E e \in Of(R, k) : e.ago = l.sources[k].age
       /\ l.sources[k].age = LimitWindow =>
            Cardinality(Of(R, k)) <= PerSourceLimit - 1 /\ \A e \in Of(R, k) : e.ago # 0
  ELSE Cardinality(Of(R, k)) <= PerSourceLimit - 1 /\ \A e \in Of(R, k) : e.ago # 0

(* The node: its window may begin without an INIT.                         *)
NodeOk(R, l) ==
  /\ Cardinality(Since(R, l.age)) <= l.count
  /\ Cardinality(Until(R, l.age)) <= GlobalLimit
  /\ l.age = LimitWindow => \A e \in R : e.ago # 0

RateOk(R, l) == LimiterOk(l) /\ RecentOk(R) /\ NodeOk(R, l) /\ \A k \in Keys : SourceOk(R, l, k)

RateInv == RateOk(recent, limiter)

(* The parts of the history are finite.                                    *)
LEMMA FiniteParts ==
  ASSUME NEW R, RecentOk(R), NEW k, NEW a
  PROVE  /\ IsFiniteSet(Of(R, k)) /\ Cardinality(Of(R, k)) \in Nat /\ Cardinality(R) \in Nat
         /\ IsFiniteSet(Since(R, a)) /\ Cardinality(Since(R, a)) \in Nat
         /\ IsFiniteSet(Until(R, a)) /\ Cardinality(Until(R, a)) \in Nat
         /\ IsFiniteSet(Since(Of(R, k), a)) /\ Cardinality(Since(Of(R, k), a)) \in Nat
         /\ IsFiniteSet(Until(Of(R, k), a)) /\ Cardinality(Until(Of(R, k), a)) \in Nat
<1>1. IsFiniteSet(R)
  BY DEF RecentOk
<1>2. /\ Of(R, k) \subseteq R /\ Since(R, a) \subseteq R /\ Until(R, a) \subseteq R
      /\ Since(Of(R, k), a) \subseteq R /\ Until(Of(R, k), a) \subseteq R
  BY DEF Of, Since, Until
<1> QED BY <1>1, <1>2, PartCount

(* What the invariant says of the bounds.                                  *)
LEMMA RateInvBounds == RateInv => RateBounded
<1> SUFFICES ASSUME RateInv PROVE RateBounded
  OBVIOUS
<1>1. LimiterOk(limiter) /\ RecentOk(recent) /\ NodeOk(recent, limiter)
      /\ \A k \in Keys : SourceOk(recent, limiter, k)
  BY DEF RateInv, RateOk
<1>2. ASSUME NEW S, NEW a \in Int, IsFiniteSet(S), \A e \in S : e.ago \in Int
      PROVE  Cardinality(S) = Cardinality(Since(S, a)) + Cardinality(Until(S, a))
  <2>1. Since(S, a) \subseteq S /\ S \ Since(S, a) = Until(S, a)
    BY <1>2, SMT DEF Since, Until
  <2> QED BY <1>2, <2>1, SplitCount
<1>3. \A e \in recent : e.ago \in Int
  BY <1>1, SMT DEF RecentOk, Passage
<1>4. ASSUME NEW k \in Keys PROVE Cardinality(Of(recent, k)) <= 2 * PerSourceLimit - 1
  <2>1. Cardinality(Of(recent, k)) \in Nat
    BY <1>1, FiniteParts
  <2>2. SourceOk(recent, limiter, k)
    BY <1>1
  <2>3. CASE k \notin DOMAIN limiter.sources
    <3>1. Cardinality(Of(recent, k)) <= PerSourceLimit - 1
      BY <2>2, <2>3 DEF SourceOk
    <3> QED BY <2>1, <3>1, RateLimits, SMT
  <2>4. CASE k \in DOMAIN limiter.sources
    <3> DEFINE a == limiter.sources[k].age
               S == Since(Of(recent, k), a)
               U == Until(Of(recent, k), a)
    <3>1. a \in Int /\ limiter.sources[k].count \in 1 .. PerSourceLimit
      BY <1>1, <2>4, RateLimits, SMT DEF LimiterOk, SourceBucket
    <3>2. Cardinality(S) <= limiter.sources[k].count /\ Cardinality(U) <= PerSourceLimit - 1
      BY <2>2, <2>4 DEF SourceOk
    <3> HIDE DEF a
    <3>3. IsFiniteSet(Of(recent, k)) /\ Cardinality(S) \in Nat /\ Cardinality(U) \in Nat
      BY <1>1, FiniteParts
    <3>4. \A e \in Of(recent, k) : e.ago \in Int
      BY <1>3 DEF Of
    <3>5. Cardinality(Of(recent, k)) = Cardinality(S) + Cardinality(U)
      BY <1>2, <3>1, <3>3, <3>4
    <3> HIDE DEF S, U
    <3> QED BY <2>1, <3>1, <3>2, <3>3, <3>5, RateLimits, SMT
  <2> QED BY <2>3, <2>4
<1>5. Cardinality(recent) <= 2 * GlobalLimit
  <2> DEFINE S == Since(recent, limiter.age)
             U == Until(recent, limiter.age)
  <2>1. limiter.age \in Int /\ limiter.count \in 0 .. GlobalLimit
    BY <1>1, RateLimits, SMT DEF LimiterOk
  <2>2. Cardinality(S) <= limiter.count /\ Cardinality(U) <= GlobalLimit
    BY <1>1 DEF NodeOk
  <2>3. IsFiniteSet(recent) /\ Cardinality(S) \in Nat /\ Cardinality(U) \in Nat
    BY <1>1, FiniteParts DEF RecentOk
  <2>4. Cardinality(recent) = Cardinality(S) + Cardinality(U)
    BY <1>2, <1>3, <2>1, <2>3
  <2> HIDE DEF S, U
  <2> QED BY <2>1, <2>2, <2>3, <2>4, RateLimits, SMT
<1> QED BY <1>4, <1>5 DEF RateBounded, Of

(* What reset_global_if_expired and purge_expired_sources leave behind.    *)
LEMMA FreshShape ==
  ASSUME NEW l, LimiterOk(l)
  PROVE  LET m == FreshWindows(l)
         IN  /\ {"age", "count", "sources"} \subseteq DOMAIN m
             /\ m.age = (IF l.age = LimitWindow THEN 0 ELSE l.age)
             /\ m.count = (IF l.age = LimitWindow THEN 0 ELSE l.count)
             /\ DOMAIN m.sources = {k \in DOMAIN l.sources : l.sources[k].age < LimitWindow}
             /\ \A k \in DOMAIN m.sources : m.sources[k] = l.sources[k]
<1>1. l.age >= LimitWindow <=> l.age = LimitWindow
  BY RateLimits, SMT DEF LimiterOk
<1> QED BY <1>1, SMT DEF FreshWindows

(* Opening new windows for the ones that are over keeps the counts.        *)
LEMMA FreshOk ==
  ASSUME NEW R, NEW l, RateOk(R, l)
  PROVE  RateOk(R, FreshWindows(l))
<1> DEFINE m == FreshWindows(l)
<1>1. LimiterOk(l) /\ RecentOk(R) /\ NodeOk(R, l) /\ \A k \in Keys : SourceOk(R, l, k)
  BY DEF RateOk
<1>2. /\ {"age", "count", "sources"} \subseteq DOMAIN m
      /\ m.age = (IF l.age = LimitWindow THEN 0 ELSE l.age)
      /\ m.count = (IF l.age = LimitWindow THEN 0 ELSE l.count)
      /\ DOMAIN m.sources = {k \in DOMAIN l.sources : l.sources[k].age < LimitWindow}
      /\ \A k \in DOMAIN m.sources : m.sources[k] = l.sources[k]
  BY <1>1, FreshShape
<1> HIDE DEF m
<1>3. LimiterOk(m)
  <2>1. m.age \in 0 .. LimitWindow /\ m.count \in 0 .. GlobalLimit
    BY <1>1, <1>2, RateLimits, SMT DEF LimiterOk
  <2>2. DOMAIN m.sources \subseteq DOMAIN l.sources
    BY <1>2
  <2>3. IsFiniteSet(DOMAIN l.sources) /\ Cardinality(DOMAIN l.sources) <= MaxSources
    BY <1>1 DEF LimiterOk
  <2>4. IsFiniteSet(DOMAIN m.sources) /\ Cardinality(DOMAIN m.sources) <= MaxSources
    <3>1. /\ IsFiniteSet(DOMAIN m.sources) /\ Cardinality(DOMAIN m.sources) \in Nat
          /\ Cardinality(DOMAIN l.sources) \in Nat
          /\ Cardinality(DOMAIN m.sources) <= Cardinality(DOMAIN l.sources)
      BY <2>2, <2>3, PartCount
    <3> QED BY <2>3, <3>1, RateLimits, SMT
  <2>5. \A k \in DOMAIN m.sources : m.sources[k] \in SourceBucket
    BY <1>1, <1>2, <2>2 DEF LimiterOk
  <2> QED BY <1>1, <1>2, <2>1, <2>2, <2>4, <2>5 DEF LimiterOk
<1>4. NodeOk(R, m)
  <2>1. CASE l.age # LimitWindow
    BY <1>1, <1>2, <2>1 DEF NodeOk
  <2>2. CASE l.age = LimitWindow
    <3>1. m.age = 0 /\ m.count = 0
      BY <1>2, <2>2
    <3>2. \A e \in R : e.ago \in Nat /\ e.ago # 0 /\ e.ago <= LimitWindow
      BY <1>1, <2>2, RateLimits, SMT DEF NodeOk, RecentOk, Passage
    <3>3. Since(R, 0) = {} /\ Until(R, 0) = R /\ Since(R, LimitWindow) = R
      BY <3>2, SMT DEF Since, Until
    <3>4. Cardinality(R) <= l.count /\ l.count \in 0 .. GlobalLimit /\ Cardinality(R) \in Nat
      BY <1>1, <2>2, <3>3, FiniteParts DEF NodeOk, LimiterOk
    <3>5. Cardinality(Since(R, m.age)) = 0 /\ Cardinality(Until(R, m.age)) = Cardinality(R)
      BY <3>1, <3>3, FS_EmptySet
    <3>6. m.age # LimitWindow
      BY <3>1, RateLimits, SMT
    <3>7. Cardinality(Since(R, m.age)) <= m.count
      BY <3>1, <3>5, SMT
    <3>8. Cardinality(Until(R, m.age)) <= GlobalLimit
      BY <3>4, <3>5, RateLimits, SMT
    <3> QED BY <3>6, <3>7, <3>8 DEF NodeOk
  <2> QED BY <2>1, <2>2
<1>5. ASSUME NEW k \in Keys PROVE SourceOk(R, m, k)
  <2>1. SourceOk(R, l, k)
    BY <1>1
  <2>2. CASE k \in DOMAIN m.sources
    <3>1. k \in DOMAIN l.sources /\ m.sources[k] = l.sources[k]
      BY <1>2, <2>2
    <3> QED BY <2>1, <2>2, <3>1 DEF SourceOk
  <2>3. CASE k \notin DOMAIN m.sources /\ k \in DOMAIN l.sources
    <3>1. l.sources[k].age = LimitWindow
      <4>1. l.sources[k].age \in 0 .. LimitWindow /\ ~(l.sources[k].age < LimitWindow)
        BY <1>1, <1>2, <2>3 DEF LimiterOk, SourceBucket
      <4> QED BY <4>1, RateLimits, SMT
    <3> QED BY <2>1, <2>3, <3>1 DEF SourceOk
  <2>4. CASE k \notin DOMAIN m.sources /\ k \notin DOMAIN l.sources
    BY <2>1, <2>4 DEF SourceOk
  <2> QED BY <2>2, <2>3, <2>4
<1> QED BY <1>1, <1>3, <1>4, <1>5 DEF RateOk, m

(* One more member.                                                        *)
LEMMA OneMore ==
  ASSUME NEW S, IsFiniteSet(S), NEW x, x \notin S
  PROVE  /\ IsFiniteSet(S \cup {x}) /\ Cardinality(S) \in Nat
         /\ Cardinality(S \cup {x}) = Cardinality(S) + 1
BY FS_AddElement, FS_CardinalityType

(* allow counts an INIT of key k at the node and at its source.            *)
LEMMA ChargedShape ==
  ASSUME NEW l, LimiterOk(l), NEW k
  PROVE  LET m == Charged(l, k)
         IN  /\ {"age", "count", "sources"} \subseteq DOMAIN m
             /\ m.age = l.age /\ m.count = l.count + 1
             /\ DOMAIN m.sources = DOMAIN l.sources \cup {k}
             /\ \A j \in DOMAIN l.sources \ {k} : m.sources[j] = l.sources[j]
             /\ k \in DOMAIN l.sources =>
                  m.sources[k] = [age |-> l.sources[k].age, count |-> l.sources[k].count + 1]
             /\ k \notin DOMAIN l.sources => m.sources[k] = [age |-> 0, count |-> 1]
<1> DEFINE b == IF k \in DOMAIN l.sources THEN l.sources[k] ELSE [age |-> 0, count |-> 0]
           q == [j \in DOMAIN l.sources \cup {k} |->
                   IF j = k THEN [b EXCEPT !.count = @ + 1] ELSE l.sources[j]]
           m == Charged(l, k)
<1>1. {"age", "count", "sources"} \subseteq DOMAIN l
  BY DEF LimiterOk
<1>2. /\ DOMAIN m = DOMAIN l /\ m.age = l.age /\ m.count = l.count + 1 /\ m.sources = q
  BY <1>1, SMT DEF Charged
<1>3. k \in DOMAIN l.sources =>
        [b EXCEPT !.count = @ + 1] = [age |-> l.sources[k].age, count |-> l.sources[k].count + 1]
  BY SMT DEF LimiterOk, SourceBucket
<1>4. k \notin DOMAIN l.sources => [b EXCEPT !.count = @ + 1] = [age |-> 0, count |-> 1]
  BY SMT
<1>5. /\ DOMAIN q = DOMAIN l.sources \cup {k} /\ q[k] = [b EXCEPT !.count = @ + 1]
      /\ \A j \in DOMAIN l.sources \ {k} : q[j] = l.sources[j]
  OBVIOUS
<1> HIDE DEF b, q, m
<1>6. {"age", "count", "sources"} \subseteq DOMAIN m
  BY <1>1, <1>2
<1> QED BY <1>2, <1>3, <1>4, <1>5, <1>6 DEF m

(* An INIT that passes adds one to the history, to its key and to what     *)
(* passed at this moment.                                                  *)
LEMMA RecentGrows ==
  ASSUME NEW R, RecentOk(R), NEW k \in Keys, NEW e,
         e = [key |-> k, ago |-> 0, nr |-> Cardinality({d \in R : d.key = k /\ d.ago = 0})]
  PROVE  e \notin R /\ RecentOk(R \cup {e})
<1> DEFINE N == {d \in R : d.key = k /\ d.ago = 0}
           Q == R \cup {e}
<1>1. e.key = k /\ e.ago = 0 /\ e.nr = Cardinality(N)
  BY SMT
<1>2. IsFiniteSet(R) /\ R \subseteq Passage
  BY DEF RecentOk
<1>3. IsFiniteSet(N) /\ Cardinality(N) \in Nat
  <2>1. N \subseteq R
    OBVIOUS
  <2> QED BY <1>2, <2>1, PartCount
<1>4. e \notin R
  <2>1. e \in R => e.nr < Cardinality({d \in R : d.key = e.key /\ d.ago = 0})
    BY <1>1 DEF RecentOk
  <2>2. e \in R => e.nr < Cardinality(N)
    BY <1>1, <2>1
  <2> QED BY <1>1, <1>3, <2>2, SMT
<1>5. IsFiniteSet(Q)
  BY <1>2, <1>4, OneMore
<1>6. e \in Passage
  BY <1>1, <1>3, RateLimits, SMT DEF Passage
<1>7. ASSUME NEW d \in Q, d.ago = 0
      PROVE  d.nr < Cardinality({c \in Q : c.key = d.key /\ c.ago = 0})
  <2>1. CASE d.key = k
    <3>1. {c \in Q : c.key = d.key /\ c.ago = 0} = N \cup {e}
      BY <1>1, <2>1
    <3>2. Cardinality(N \cup {e}) = Cardinality(N) + 1
      BY <1>3, <1>4, OneMore
    <3>3. d # e => d.nr < Cardinality({c \in R : c.key = d.key /\ c.ago = 0})
      BY <1>7 DEF RecentOk
    <3>4. d # e => d.nr \in Nat /\ d.nr < Cardinality(N)
      <4>1. d # e => d \in Passage
        BY <1>2
      <4>2. d \in Passage => d.nr \in Nat
        BY SMT DEF Passage
      <4> QED BY <2>1, <3>3, <4>1, <4>2
    <3>5. d.nr < Cardinality(N) + 1
      BY <1>1, <1>3, <3>4, SMT
    <3> QED BY <3>1, <3>2, <3>5
  <2>2. CASE d.key # k
    <3>1. d \in R
      BY <1>1, <2>2
    <3>2. {c \in Q : c.key = d.key /\ c.ago = 0} = {c \in R : c.key = d.key /\ c.ago = 0}
      BY <1>1, <2>2
    <3>3. d.nr < Cardinality({c \in R : c.key = d.key /\ c.ago = 0})
      BY <1>7, <3>1 DEF RecentOk
    <3> QED BY <3>2, <3>3
  <2> QED BY <2>1, <2>2
<1> HIDE DEF Q
<1>8. Q \subseteq Passage
  BY <1>2, <1>6 DEF Q
<1>9. RecentOk(Q)
  BY <1>5, <1>7, <1>8 DEF RecentOk
<1> QED BY <1>4, <1>9 DEF Q

(* Letting an INIT through, in windows that are not over, keeps the counts.*)
LEMMA ChargedOk ==
  ASSUME NEW R, NEW l, RateOk(R, l), l.age # LimitWindow,
         \A j \in DOMAIN l.sources : l.sources[j].age # LimitWindow,
         NEW k \in Keys, Admits(l, k), NEW e,
         e = [key |-> k, ago |-> 0, nr |-> Cardinality({d \in R : d.key = k /\ d.ago = 0})]
  PROVE  RateOk(R \cup {e}, Charged(l, k))
<1> DEFINE m == Charged(l, k)
           Q == R \cup {e}
<1>1. LimiterOk(l) /\ RecentOk(R) /\ NodeOk(R, l) /\ \A j \in Keys : SourceOk(R, l, j)
  BY DEF RateOk
<1>2. e \notin R /\ RecentOk(Q) /\ e.key = k /\ e.ago = 0
  BY <1>1, RecentGrows
<1>3. /\ {"age", "count", "sources"} \subseteq DOMAIN m
      /\ m.age = l.age /\ m.count = l.count + 1
      /\ DOMAIN m.sources = DOMAIN l.sources \cup {k}
      /\ \A j \in DOMAIN l.sources \ {k} : m.sources[j] = l.sources[j]
      /\ k \in DOMAIN l.sources =>
           m.sources[k] = [age |-> l.sources[k].age, count |-> l.sources[k].count + 1]
      /\ k \notin DOMAIN l.sources => m.sources[k] = [age |-> 0, count |-> 1]
  BY <1>1, ChargedShape
<1> HIDE DEF m
<1>4. /\ k \in DOMAIN l.sources => l.sources[k].count < PerSourceLimit
      /\ l.count < GlobalLimit
      /\ k \notin DOMAIN l.sources => Cardinality(DOMAIN l.sources) < MaxSources
  BY DEF Admits
<1>5. /\ l.age \in 0 .. LimitWindow /\ l.count \in 0 .. GlobalLimit
      /\ DOMAIN l.sources \subseteq Keys /\ IsFiniteSet(DOMAIN l.sources)
      /\ Cardinality(DOMAIN l.sources) <= MaxSources
      /\ \A j \in DOMAIN l.sources : l.sources[j] \in SourceBucket
  BY <1>1 DEF LimiterOk
<1>6. \A b \in SourceBucket : b.age \in 0 .. LimitWindow /\ b.count \in 1 .. PerSourceLimit
  BY SMT DEF SourceBucket
<1>7. LimiterOk(m)
  <2>1. m.age \in 0 .. LimitWindow /\ m.count \in 0 .. GlobalLimit
    BY <1>3, <1>4, <1>5, RateLimits, SMT
  <2>2. IsFiniteSet(DOMAIN m.sources) /\ Cardinality(DOMAIN m.sources) <= MaxSources
    <3>1. CASE k \in DOMAIN l.sources
      <4>1. DOMAIN m.sources = DOMAIN l.sources
        BY <1>3, <3>1
      <4> QED BY <1>5, <4>1
    <3>2. CASE k \notin DOMAIN l.sources
      <4>1. /\ IsFiniteSet(DOMAIN m.sources) /\ Cardinality(DOMAIN l.sources) \in Nat
            /\ Cardinality(DOMAIN m.sources) = Cardinality(DOMAIN l.sources) + 1
        BY <1>3, <1>5, <3>2, OneMore, SMT
      <4>2. Cardinality(DOMAIN l.sources) < MaxSources
        BY <1>4, <3>2
      <4> QED BY <4>1, <4>2, RateLimits, SMT
    <3> QED BY <3>1, <3>2
  <2>3. m.sources[k] \in SourceBucket
    <3>1. CASE k \in DOMAIN l.sources
      <4>1. /\ l.sources[k].age \in 0 .. LimitWindow /\ l.sources[k].count \in 1 .. PerSourceLimit
            /\ l.sources[k].count < PerSourceLimit
        BY <1>4, <1>5, <1>6, <3>1
      <4> QED BY <1>3, <3>1, <4>1, RateLimits, SMT DEF SourceBucket
    <3>2. CASE k \notin DOMAIN l.sources
      BY <1>3, <3>2, RateLimits, SMT DEF SourceBucket
    <3> QED BY <3>1, <3>2
  <2>4. \A j \in DOMAIN m.sources : m.sources[j] \in SourceBucket
    BY <1>3, <1>5, <2>3
  <2>5. DOMAIN m.sources \subseteq Keys
    BY <1>3, <1>5
  <2> QED BY <1>3, <2>1, <2>2, <2>4, <2>5 DEF LimiterOk
<1>8. \A d \in R : d.key \in Keys /\ d.ago \in Nat
  BY <1>1, RateLimits, SMT DEF RecentOk, Passage
<1>9. NodeOk(Q, m)
  <2>1. Since(Q, l.age) = Since(R, l.age) \cup {e} /\ Until(Q, l.age) = Until(R, l.age)
    BY <1>2, <1>5, RateLimits, SMT DEF Since, Until
  <2>2. e \notin Since(R, l.age)
    BY <1>2 DEF Since
  <2>3. IsFiniteSet(Since(R, l.age)) /\ Cardinality(Since(R, l.age)) \in Nat
    BY <1>1, FiniteParts
  <2>4. Cardinality(Since(Q, l.age)) = Cardinality(Since(R, l.age)) + 1
    BY <2>1, <2>2, <2>3, OneMore
  <2>5. Cardinality(Since(R, l.age)) <= l.count /\ Cardinality(Until(R, l.age)) <= GlobalLimit
    BY <1>1 DEF NodeOk
  <2>6. Cardinality(Since(Q, m.age)) <= m.count
    BY <1>3, <1>5, <2>3, <2>4, <2>5, SMT
  <2> QED BY <1>3, <2>1, <2>5, <2>6 DEF NodeOk
<1>10. ASSUME NEW j \in Keys PROVE SourceOk(Q, m, j)
  <2>1. SourceOk(R, l, j)
    BY <1>1
  <2>2. CASE j # k
    <3>1. Of(Q, j) = Of(R, j)
      BY <1>2, <2>2 DEF Of
    <3>2. /\ j \in DOMAIN m.sources <=> j \in DOMAIN l.sources
          /\ j \in DOMAIN l.sources => m.sources[j] = l.sources[j]
      BY <1>3, <2>2
    <3> QED BY <2>1, <3>1, <3>2 DEF SourceOk
  <2>3. CASE j = k
    <3> DEFINE S == Of(R, k)
    <3>1. /\ Of(Q, k) = S \cup {e} /\ e \notin S
          /\ \A d \in S : d.ago \in Nat
      BY <1>2, <1>8 DEF Of
    <3>2. k \in DOMAIN m.sources
      BY <1>3
    <3>3. CASE k \in DOMAIN l.sources
      <4> DEFINE b == l.sources[k]
      <4>1. b.age \in 0 .. LimitWindow /\ b.count \in 1 .. PerSourceLimit /\ b.age # LimitWindow
        BY <1>5, <1>6, <3>3
      <4>2. m.sources[k].age = b.age /\ m.sources[k].count = b.count + 1
        <5>1. m.sources[k] = [age |-> b.age, count |-> b.count + 1]
          BY <1>3, <3>3
        <5> QED BY <5>1, SMT
      <4>3. /\ Cardinality(Since(S, b.age)) <= b.count
            /\ Cardinality(Until(S, b.age)) <= PerSourceLimit - 1
            /\ b.age < LimitWindow => \E d \in S : d.ago = b.age
        BY <2>1, <2>3, <3>3 DEF SourceOk
      <4>4. IsFiniteSet(Since(S, b.age)) /\ Cardinality(Since(S, b.age)) \in Nat
        BY <1>1, FiniteParts
      <4> HIDE DEF b, S
      <4>5. Since(S \cup {e}, b.age) = Since(S, b.age) \cup {e}
            /\ Until(S \cup {e}, b.age) = Until(S, b.age)
        <5>1. e.ago <= b.age /\ ~(e.ago > b.age)
          BY <1>2, <4>1, RateLimits, SMT
        <5> QED BY <5>1 DEF Since, Until
      <4>6. e \notin Since(S, b.age)
        BY <3>1 DEF Since
      <4>7. Cardinality(Since(S \cup {e}, b.age)) = Cardinality(Since(S, b.age)) + 1
        BY <4>4, <4>5, <4>6, OneMore
      <4>8. Cardinality(Since(S \cup {e}, b.age)) <= b.count + 1
        BY <4>1, <4>3, <4>4, <4>7, SMT
      <4>9. b.age < LimitWindow => \E d \in S \cup {e} : d.ago = b.age
        BY <4>3
      <4> QED BY <2>3, <3>1, <3>2, <4>1, <4>2, <4>3, <4>5, <4>8, <4>9 DEF SourceOk
    <3>4. CASE k \notin DOMAIN l.sources
      <4>1. m.sources[k].age = 0 /\ m.sources[k].count = 1
        <5>1. m.sources[k] = [age |-> 0, count |-> 1]
          BY <1>3, <3>4
        <5> QED BY <5>1, SMT
      <4>2. Cardinality(S) <= PerSourceLimit - 1 /\ \A d \in S : d.ago # 0
        BY <2>1, <2>3, <3>4 DEF SourceOk
      <4> HIDE DEF S
      <4>3. Since(S \cup {e}, 0) = {e} /\ Until(S \cup {e}, 0) = S
        BY <1>2, <3>1, <4>2, SMT DEF Since, Until
      <4>4. Cardinality({e}) = 1
        BY FS_Singleton
      <4>5. Cardinality(Since(S \cup {e}, 0)) <= 1
        BY <4>3, <4>4, SMT
      <4>6. \E d \in S \cup {e} : d.ago = 0
        BY <1>2
      <4>7. 0 # LimitWindow
        BY RateLimits, SMT
      <4> QED BY <2>3, <3>1, <3>2, <4>1, <4>2, <4>3, <4>5, <4>6, <4>7 DEF SourceOk
    <3> QED BY <3>3, <3>4
  <2> QED BY <2>2, <2>3
<1> QED BY <1>2, <1>7, <1>9, <1>10 DEF RateOk, m

Shifted(R) == {Earlier(e) : e \in {d \in R : d.ago < LimitWindow - 1}}

(* An INIT of the history, a unit of time later.                           *)
LEMMA EarlierShape ==
  ASSUME NEW e \in Passage
  PROVE  /\ Earlier(e).key = e.key /\ Earlier(e).ago = e.ago + 1 /\ Earlier(e).nr = e.nr
         /\ e.ago < LimitWindow - 1 => Earlier(e) \in Passage
BY RateLimits, SMT DEF Passage, Earlier

(* The ages of the windows a unit of time later.                           *)
LEMMA OlderLimiter ==
  ASSUME NEW l, LimiterOk(l), NEW m,
         m = OlderWindows(l)
  PROVE  /\ {"age", "count", "sources"} \subseteq DOMAIN m
         /\ m.age = Older(l.age, LimitWindow) /\ m.count = l.count
         /\ DOMAIN m.sources = DOMAIN l.sources
         /\ \A k \in DOMAIN l.sources :
              /\ m.sources[k] \in SourceBucket /\ m.sources[k].count = l.sources[k].count
              /\ m.sources[k].age = Older(l.sources[k].age, LimitWindow)
<1> DEFINE q == OlderSources(l.sources)
<1>1. {"age", "count", "sources"} \subseteq DOMAIN l
  BY DEF LimiterOk
<1>2. DOMAIN m = DOMAIN l /\ m.age = Older(l.age, LimitWindow) /\ m.count = l.count /\ m.sources = q
  BY <1>1, SMT DEF OlderWindows
<1>3. ASSUME NEW k \in DOMAIN l.sources
      PROVE  /\ q[k] \in SourceBucket /\ q[k].count = l.sources[k].count
             /\ q[k].age = Older(l.sources[k].age, LimitWindow)
  <2>1. l.sources[k] \in SourceBucket
    BY DEF LimiterOk
  <2>2. q[k] = [l.sources[k] EXCEPT !.age = Older(@, LimitWindow)]
    BY DEF OlderSources
  <2> HIDE DEF q
  <2> QED BY <2>1, <2>2, RateLimits, SMT DEF SourceBucket, Older
<1>4. DOMAIN q = DOMAIN l.sources
  BY DEF OlderSources
<1> HIDE DEF q
<1>5. {"age", "count", "sources"} \subseteq DOMAIN m
  BY <1>1, <1>2
<1> QED BY <1>2, <1>3, <1>4, <1>5

(* Time passes for the windows and for the history alike.                  *)
LEMMA TickOk ==
  ASSUME NEW R, NEW l, RateOk(R, l), NEW m,
         m = OlderWindows(l)
  PROVE  RateOk(Shifted(R), m)
<1> DEFINE Q == Shifted(R)
<1>1. LimiterOk(l) /\ RecentOk(R) /\ NodeOk(R, l) /\ \A k \in Keys : SourceOk(R, l, k)
  BY DEF RateOk
<1>2. /\ {"age", "count", "sources"} \subseteq DOMAIN m
      /\ m.age = Older(l.age, LimitWindow) /\ m.count = l.count
      /\ DOMAIN m.sources = DOMAIN l.sources
      /\ \A k \in DOMAIN l.sources :
           /\ m.sources[k] \in SourceBucket /\ m.sources[k].count = l.sources[k].count
           /\ m.sources[k].age = Older(l.sources[k].age, LimitWindow)
  BY <1>1, OlderLimiter, SMT
<1>3. /\ l.age \in 0 .. LimitWindow /\ l.count \in 0 .. GlobalLimit
      /\ \A k \in DOMAIN l.sources : l.sources[k] \in SourceBucket
  BY <1>1 DEF LimiterOk
<1>4. \A b \in SourceBucket : b.age \in 0 .. LimitWindow /\ b.count \in 1 .. PerSourceLimit
  BY SMT DEF SourceBucket
<1>5. \A a \in 0 .. LimitWindow :
        /\ Older(a, LimitWindow) \in 0 .. LimitWindow
        /\ a # LimitWindow => Older(a, LimitWindow) = a + 1
        /\ a = LimitWindow => Older(a, LimitWindow) = LimitWindow
  BY RateLimits, SMT DEF Older
<1>6. LimiterOk(m)
  BY <1>1, <1>2, <1>5 DEF LimiterOk
<1>7. IsFiniteSet(R) /\ R \subseteq Passage
  BY <1>1 DEF RecentOk
<1>8. \A x \in Q : \E e \in R : x = Earlier(e) /\ e.ago < LimitWindow - 1
  BY DEF Shifted
<1>9. \A e \in R : e.ago < LimitWindow - 1 => Earlier(e) \in Q
  BY DEF Shifted
<1> HIDE DEF Q
<1>10. \A e \in R : e.ago \in 0 .. LimitWindow - 1
  BY <1>7, SMT DEF Passage
<1>11. \A x \in Q : x \in Passage /\ x.ago \in Nat /\ x.ago # 0
  <2> SUFFICES ASSUME NEW x \in Q PROVE x \in Passage /\ x.ago \in Nat /\ x.ago # 0
    OBVIOUS
  <2>1. PICK e \in R : x = Earlier(e) /\ e.ago < LimitWindow - 1
    BY <1>8
  <2>2. x \in Passage /\ x.ago = e.ago + 1 /\ e.ago \in 0 .. LimitWindow - 1
    BY <1>7, <1>10, <2>1, EarlierShape
  <2> QED BY <2>2, RateLimits, SMT
<1>12. IsFiniteSet(Q)
  BY <1>7, <1>8, EarlierCount
<1>13. RecentOk(Q)
  <2>1. Q \subseteq Passage /\ \A x \in Q : x.ago # 0
    BY <1>11
  <2> QED BY <1>12, <2>1 DEF RecentOk
(* What a part of the history becomes is no larger.                        *)
<1>14. ASSUME NEW P, P \subseteq R, NEW T, T \subseteq Q,
              \A e \in R : e.ago < LimitWindow - 1 /\ Earlier(e) \in T => e \in P
       PROVE  Cardinality(T) <= Cardinality(P) /\ Cardinality(T) \in Nat /\ Cardinality(P) \in Nat
  <2>1. IsFiniteSet(P)
    BY <1>7, <1>14, FS_Subset
  <2>2. \A x \in T : \E e \in P : x = Earlier(e)
    BY <1>8, <1>14
  <2>3. IsFiniteSet(T) /\ Cardinality(T) <= Cardinality(P)
    BY <2>1, <2>2, EarlierCount
  <2> QED BY <2>1, <2>3, FS_CardinalityType
<1>15. \A e \in R : Earlier(e).key = e.key /\ Earlier(e).ago = e.ago + 1
  BY <1>7, EarlierShape
(* What a window has counted, and what came before it.                     *)
<1>16. ASSUME NEW a \in 0 .. LimitWindow, NEW k
       PROVE  /\ Cardinality(Since(Q, Older(a, LimitWindow))) <= Cardinality(Since(R, a))
              /\ Cardinality(Until(Q, Older(a, LimitWindow))) <= Cardinality(Until(R, a))
              /\ Cardinality(Since(Of(Q, k), Older(a, LimitWindow))) <= Cardinality(Since(Of(R, k), a))
              /\ Cardinality(Until(Of(Q, k), Older(a, LimitWindow))) <= Cardinality(Until(Of(R, k), a))
              /\ Cardinality(Of(Q, k)) <= Cardinality(Of(R, k))
  <2> DEFINE o == Older(a, LimitWindow)
  <2>1. \A e \in R : /\ e.ago + 1 <= o => e.ago <= a
                     /\ e.ago + 1 > o => e.ago > a
    BY <1>5, <1>10, RateLimits, SMT
  <2> HIDE DEF o
  <2>2. Cardinality(Since(Q, o)) <= Cardinality(Since(R, a))
    <3>1. /\ Since(R, a) \subseteq R /\ Since(Q, o) \subseteq Q
          /\ \A e \in R : Earlier(e) \in Since(Q, o) => e \in Since(R, a)
      BY <1>15, <2>1 DEF Since
    <3> QED BY <1>14, <3>1
  <2>3. Cardinality(Until(Q, o)) <= Cardinality(Until(R, a))
    <3>1. /\ Until(R, a) \subseteq R /\ Until(Q, o) \subseteq Q
          /\ \A e \in R : Earlier(e) \in Until(Q, o) => e \in Until(R, a)
      BY <1>15, <2>1 DEF Until
    <3> QED BY <1>14, <3>1
  <2>4. Cardinality(Since(Of(Q, k), o)) <= Cardinality(Since(Of(R, k), a))
    <3>1. /\ Since(Of(R, k), a) \subseteq R /\ Since(Of(Q, k), o) \subseteq Q
          /\ \A e \in R : Earlier(e) \in Since(Of(Q, k), o) => e \in Since(Of(R, k), a)
      BY <1>15, <2>1 DEF Since, Of
    <3> QED BY <1>14, <3>1
  <2>5. Cardinality(Until(Of(Q, k), o)) <= Cardinality(Until(Of(R, k), a))
    <3>1. /\ Until(Of(R, k), a) \subseteq R /\ Until(Of(Q, k), o) \subseteq Q
          /\ \A e \in R : Earlier(e) \in Until(Of(Q, k), o) => e \in Until(Of(R, k), a)
      BY <1>15, <2>1 DEF Until, Of
    <3> QED BY <1>14, <3>1
  <2>6. Cardinality(Of(Q, k)) <= Cardinality(Of(R, k))
    <3>1. /\ Of(R, k) \subseteq R /\ Of(Q, k) \subseteq Q
          /\ \A e \in R : Earlier(e) \in Of(Q, k) => e \in Of(R, k)
      BY <1>15 DEF Of
    <3> QED BY <1>14, <3>1
  <2> QED BY <2>2, <2>3, <2>4, <2>5, <2>6 DEF o
<1>17. NodeOk(Q, m)
  <2>1. Cardinality(Since(R, l.age)) <= l.count /\ Cardinality(Until(R, l.age)) <= GlobalLimit
    BY <1>1 DEF NodeOk
  <2>2. /\ Cardinality(Since(Q, m.age)) <= Cardinality(Since(R, l.age))
        /\ Cardinality(Until(Q, m.age)) <= Cardinality(Until(R, l.age))
    BY <1>2, <1>3, <1>16
  <2>3. /\ Cardinality(Since(R, l.age)) \in Nat /\ Cardinality(Until(R, l.age)) \in Nat
        /\ Cardinality(Since(Q, m.age)) \in Nat /\ Cardinality(Until(Q, m.age)) \in Nat
    BY <1>1, <1>13, FiniteParts
  <2>4. Cardinality(Since(Q, m.age)) <= m.count /\ Cardinality(Until(Q, m.age)) <= GlobalLimit
    BY <1>2, <1>3, <2>1, <2>2, <2>3, RateLimits, SMT
  <2> QED BY <1>11, <2>4 DEF NodeOk
<1>18. ASSUME NEW k \in Keys PROVE SourceOk(Q, m, k)
  <2>1. SourceOk(R, l, k)
    BY <1>1
  <2>2. \A x \in Of(Q, k) : x.ago # 0
    BY <1>11 DEF Of
  <2>3. /\ Cardinality(Of(Q, k)) <= Cardinality(Of(R, k))
        /\ Cardinality(Of(Q, k)) \in Nat /\ Cardinality(Of(R, k)) \in Nat
    BY <1>1, <1>3, <1>13, <1>16, FiniteParts
  <2>4. CASE k \notin DOMAIN l.sources
    <3>1. Cardinality(Of(R, k)) <= PerSourceLimit - 1
      BY <2>1, <2>4 DEF SourceOk
    <3>2. Cardinality(Of(Q, k)) <= PerSourceLimit - 1
      BY <2>3, <3>1, RateLimits, SMT
    <3> QED BY <1>2, <2>2, <2>4, <3>2 DEF SourceOk
  <2>5. CASE k \in DOMAIN l.sources
    <3> DEFINE a == l.sources[k].age
               c == l.sources[k].count
               o == Older(a, LimitWindow)
               S == Of(R, k)
               T == Of(Q, k)
    <3>1. a \in 0 .. LimitWindow /\ c \in 1 .. PerSourceLimit
      BY <1>3, <1>4, <2>5
    <3>2. k \in DOMAIN m.sources /\ m.sources[k].age = o /\ m.sources[k].count = c
      BY <1>2, <2>5
    <3>3. /\ Cardinality(Since(S, a)) <= c /\ Cardinality(Until(S, a)) <= PerSourceLimit - 1
          /\ a < LimitWindow => \E e \in S : e.ago = a
          /\ a = LimitWindow => Cardinality(S) <= PerSourceLimit - 1
      BY <2>1, <2>5 DEF SourceOk
    <3>4. /\ Cardinality(Since(T, o)) <= Cardinality(Since(S, a))
          /\ Cardinality(Until(T, o)) <= Cardinality(Until(S, a))
      BY <1>16, <3>1
    <3>5. /\ Cardinality(Since(T, o)) \in Nat /\ Cardinality(Since(S, a)) \in Nat
          /\ Cardinality(Until(T, o)) \in Nat /\ Cardinality(Until(S, a)) \in Nat
          /\ IsFiniteSet(S)
      BY <1>1, <1>13, FiniteParts
    <3>6. Cardinality(Since(T, o)) <= c /\ Cardinality(Until(T, o)) <= PerSourceLimit - 1
      <4> HIDE DEF a, c, o, S, T
      <4> QED BY <3>1, <3>3, <3>4, <3>5, RateLimits, SMT
    <3>7. o < LimitWindow => \E x \in T : x.ago = o
      <4> SUFFICES ASSUME o < LimitWindow PROVE \E x \in T : x.ago = o
        OBVIOUS
      <4>1. a < LimitWindow - 1 /\ a < LimitWindow /\ o = a + 1
        <5>1. /\ a # LimitWindow => o = a + 1
              /\ a = LimitWindow => o = LimitWindow
          BY <1>5, <3>1
        <5> HIDE DEF a, o
        <5> QED BY <3>1, <5>1, RateLimits, SMT
      <4>2. PICK e \in S : e.ago = a
        BY <3>3, <4>1
      <4>3. e \in R /\ e.key = k
        BY DEF Of
      <4>4. Earlier(e) \in Q /\ Earlier(e).key = k /\ Earlier(e).ago = o
        BY <1>9, <1>15, <4>1, <4>2, <4>3
      <4> QED BY <4>4 DEF Of
    <3>8. o = LimitWindow => Cardinality(T) <= PerSourceLimit - 1
      <4>1. CASE a = LimitWindow
        <5>1. Cardinality(S) <= PerSourceLimit - 1
          BY <3>3, <4>1
        <5> HIDE DEF a, c, o, S, T
        <5> QED BY <2>3, <5>1, RateLimits, SMT DEF S, T
      <4>2. CASE o = LimitWindow /\ a # LimitWindow
        <5>1. a = LimitWindow - 1
          <6>1. o = a + 1
            BY <1>5, <3>1, <4>2
          <6> HIDE DEF a, o
          <6> QED BY <3>1, <4>2, <6>1, RateLimits, SMT
        <5>2. PICK e \in S : e.ago = a
          <6>1. a < LimitWindow
            BY <5>1, RateLimits, SMT
          <6> QED BY <3>3, <6>1
        <5>3. Since(S, a) = S
          BY <1>10, <5>1, RateLimits, SMT DEF Since, Of
        <5>4. Cardinality(S \ {e}) = Cardinality(S) - 1 /\ Cardinality(S) \in Nat
          BY <3>5, <5>2, FS_RemoveElement, FS_CardinalityType
        <5>5. Cardinality(T) <= Cardinality(S \ {e}) /\ Cardinality(T) \in Nat
          <6>1. /\ S \ {e} \subseteq R /\ T \subseteq Q
                /\ \A d \in R : d.ago < LimitWindow - 1 /\ Earlier(d) \in T => d \in S \ {e}
            <7>1. ~(e.ago < LimitWindow - 1)
              BY <5>1, <5>2, RateLimits, SMT
            <7> QED BY <1>15, <7>1 DEF Of
          <6> QED BY <1>14, <6>1
        <5>6. Cardinality(S) <= PerSourceLimit
          <6>1. Cardinality(S) <= c
            BY <3>3, <5>3
          <6> HIDE DEF a, c, S
          <6> QED BY <3>1, <5>4, <6>1, RateLimits, SMT
        <5> HIDE DEF a, c, o, S, T
        <5> QED BY <5>4, <5>5, <5>6, RateLimits, SMT
      <4> QED BY <4>1, <4>2
    <3> QED BY <2>2, <3>2, <3>6, <3>7, <3>8 DEF SourceOk
  <2> QED BY <2>4, <2>5
<1> QED BY <1>6, <1>13, <1>17, <1>18 DEF RateOk, Q

(* Every step keeps the counts.                                            *)
LEMMA RateInvNext == RateInv /\ [AdmissionNext]_admissionVars => RateInv'
<1> SUFFICES ASSUME RateInv, [AdmissionNext]_admissionVars PROVE RateInv'
  OBVIOUS
<1> DEFINE l == FreshWindows(limiter)
<1>1. RateOk(recent, limiter) /\ RateOk(recent, l)
  BY FreshOk DEF RateInv
<1>2. CASE UNCHANGED admissionVars
  BY <1>1, <1>2 DEF RateInv, admissionVars
<1>3. ASSUME NEW f \in InitArrival, RefuseInit(f) PROVE RateInv'
  BY <1>1, <1>3 DEF RateInv, RefuseInit
<1>4. ASSUME NEW f \in InitArrival, LetThrough(f) PROVE RateInv'
  <2> DEFINE k == SourceKey[f.source]
  <2>1. k \in Keys
    BY DEF Keys
  <2>2. Admits(l, k) /\ limiter' = Charged(l, k) /\ recent' = recent \cup {Passes(k)}
    BY <1>4 DEF LetThrough
  <2>3. l.age # LimitWindow /\ \A j \in DOMAIN l.sources : l.sources[j].age # LimitWindow
    <3>1. LimiterOk(limiter)
      BY <1>1 DEF RateOk
    <3>2. /\ l.age = (IF limiter.age = LimitWindow THEN 0 ELSE limiter.age)
          /\ \A j \in DOMAIN l.sources : l.sources[j] = limiter.sources[j] /\ limiter.sources[j].age < LimitWindow
      BY <3>1, FreshShape
    <3> HIDE DEF l
    <3> QED BY <3>2, RateLimits, SMT
  <2> HIDE DEF k, l
  <2>4. RateOk(recent \cup {Passes(k)}, Charged(l, k))
    BY <1>1, <2>1, <2>2, <2>3, ChargedOk DEF Passes
  <2> QED BY <2>2, <2>4 DEF RateInv
<1>5. ASSUME AdmissionTick PROVE RateInv'
  <2>1. /\ limiter' = OlderWindows(limiter)
        /\ recent' = Shifted(recent)
    BY <1>5 DEF AdmissionTick, Shifted
  <2>2. RateOk(Shifted(recent), limiter')
    BY <1>1, <2>1, TickOk
  <2> QED BY <2>1, <2>2 DEF RateInv
<1> QED BY <1>2, <1>3, <1>4, <1>5 DEF AdmissionNext, MalformedInit, BareInit, CookieInit

(* Nothing has passed when the node starts.                                *)
LEMMA RateInvInit == AdmissionInit => RateInv
<1> SUFFICES ASSUME AdmissionInit PROVE RateInv
  OBVIOUS
<1>1. limiter = [age |-> 0, count |-> 0, sources |-> <<>>] /\ recent = {}
  BY DEF AdmissionInit
<1>2. IsFiniteSet({}) /\ Cardinality({}) = 0
  BY FS_EmptySet
<1>3. limiter.age = 0 /\ limiter.count = 0 /\ DOMAIN limiter.sources = {}
      /\ {"age", "count", "sources"} \subseteq DOMAIN limiter
  BY <1>1, SMT
<1>4. LimiterOk(limiter)
  BY <1>2, <1>3, RateLimits, SMT DEF LimiterOk
<1>5. RecentOk({})
  BY <1>2 DEF RecentOk
<1>6. \A k, a : Of({}, k) = {} /\ Since({}, a) = {} /\ Until({}, a) = {}
  BY DEF Of, Since, Until
<1>7. 0 <= PerSourceLimit - 1 /\ 0 <= GlobalLimit /\ 0 <= 0
  BY RateLimits, SMT
<1>8. NodeOk({}, limiter)
  BY <1>2, <1>3, <1>6, <1>7 DEF NodeOk
<1>9. \A k \in Keys : SourceOk({}, limiter, k)
  BY <1>2, <1>3, <1>6, <1>7 DEF SourceOk
<1> QED BY <1>1, <1>4, <1>5, <1>8, <1>9 DEF RateInv, RateOk

-----------------------------------------------------------------------------
(* Admission: cookies.                                                     *)

CookieType == [secret : {"none", "current", "previous", "gone"}, age : 0 .. CookieEnd]
ManagerType == [current : BOOLEAN, previous : BOOLEAN, age : 0 .. 2 * RotationInterval]

(* The age of a cookie i bounds the age of the secret it was made with, or *)
(* of the one that replaced that secret.                                   *)
CookieOk(c, i) ==
  /\ i.secret = "current" => /\ c.current
                             /\ i.age <= c.age \/ c.age = 2 * RotationInterval
                             /\ c.age < i.age + RotationInterval
  /\ i.secret = "previous" => /\ c.current /\ c.previous
                              /\ c.age < i.age /\ i.age < c.age + 2 * RotationInterval
  /\ i.secret = "gone" => RotationInterval < i.age

CookiesOk(st) ==
  /\ st.c \in ManagerType /\ st.iss \in [InitArrival -> CookieType]
  /\ \A f \in InitArrival : CookieOk(st.c, st.iss[f])

CookieInv == CookiesOk(Cookies) /\ WorkProved

(* The interval of a rotation is not zero.                                 *)
LEMMA Interval == RotationInterval \in Nat /\ RotationInterval > 0
BY AdmissionAssumption, SMT

(* A cookie ages and is otherwise left alone.                              *)
LEMMA CookieAges ==
  ASSUME NEW i \in CookieType
  PROVE  LET j == [i EXCEPT !.age = Older(@, CookieEnd)]
         IN  /\ j \in CookieType /\ j.secret = i.secret
             /\ j.age = IF i.age = CookieEnd THEN CookieEnd ELSE i.age + 1
BY Interval, SMT DEF CookieType, Older, CookieEnd

(* What a rotation does to the manager and to one cookie.                  *)
LEMMA RotationEffect ==
  ASSUME NEW st, CookiesOk(st), RotationDue(st.c), NEW f \in InitArrival
  PROVE  LET r == Rotated(st, TRUE)
         IN  /\ r.c = [current |-> TRUE, previous |-> KeepsSecret(st.c), age |-> 0]
             /\ r.iss \in [InitArrival -> CookieType]
             /\ r.iss[f].age = st.iss[f].age
             /\ r.iss[f].secret = IF st.iss[f].secret = "current" /\ KeepsSecret(st.c) THEN "previous"
                                  ELSE IF st.iss[f].secret = "none" THEN "none" ELSE "gone"
<1> DEFINE iss == [g \in InitArrival |-> [st.iss[g] EXCEPT !.secret = Passed(st.iss[g].secret, st.c)]]
<1>1. /\ Rotated(st, TRUE).c = [current |-> TRUE, previous |-> KeepsSecret(st.c), age |-> 0]
      /\ Rotated(st, TRUE).iss = iss
  BY DEF Rotated
<1>2. ASSUME NEW s \in {"none", "current", "previous", "gone"}
      PROVE  /\ Passed(s, st.c) = IF s = "current" /\ KeepsSecret(st.c) THEN "previous"
                                  ELSE IF s = "none" THEN "none" ELSE "gone"
             /\ Passed(s, st.c) \in {"none", "current", "previous", "gone"}
  BY DEF Passed
<1>3. ASSUME NEW g \in InitArrival
      PROVE  /\ iss[g] \in CookieType
             /\ iss[g].age = st.iss[g].age
             /\ iss[g].secret = Passed(st.iss[g].secret, st.c)
  <2>1. st.iss[g] \in CookieType
    BY DEF CookiesOk
  <2> QED BY <2>1, <1>2 DEF CookieType
<1>4. st.iss[f].secret \in {"none", "current", "previous", "gone"}
  BY DEF CookiesOk, CookieType
<1>5. iss \in [InitArrival -> CookieType]
  BY <1>3
<1>6. /\ iss[f].age = st.iss[f].age
      /\ iss[f].secret = IF st.iss[f].secret = "current" /\ KeepsSecret(st.c) THEN "previous"
                         ELSE IF st.iss[f].secret = "none" THEN "none" ELSE "gone"
  BY <1>2, <1>3, <1>4
<1> HIDE DEF iss
<1> QED BY <1>1, <1>5, <1>6

(* rotate_if_needed keeps the ages of cookies and secrets in step.         *)
LEMMA RotatedOk ==
  ASSUME NEW st, CookiesOk(st), NEW random \in BOOLEAN PROVE CookiesOk(Rotated(st, random))
<1>1. CASE ~(RotationDue(st.c) /\ random)
  BY <1>1 DEF Rotated
<1>2. CASE RotationDue(st.c) /\ random
  <2> DEFINE r == Rotated(st, TRUE)
  <2>0. random = TRUE
    BY <1>2
  <2>1. ASSUME NEW f \in InitArrival
        PROVE  /\ r.c = [current |-> TRUE, previous |-> KeepsSecret(st.c), age |-> 0]
               /\ r.iss \in [InitArrival -> CookieType]
               /\ r.iss[f].age = st.iss[f].age
               /\ r.iss[f].secret = IF st.iss[f].secret = "current" /\ KeepsSecret(st.c) THEN "previous"
                                    ELSE IF st.iss[f].secret = "none" THEN "none" ELSE "gone"
    BY <1>2, RotationEffect
  <2>2. r.c = [current |-> TRUE, previous |-> KeepsSecret(st.c), age |-> 0]
    BY <1>2 DEF Rotated
  <2>3. r.iss \in [InitArrival -> CookieType]
    <3>1. CASE InitArrival = {}
      BY <1>2, <3>1 DEF Rotated
    <3> QED BY <2>1, <3>1
  <2> HIDE DEF r
  <2>4. ASSUME NEW f \in InitArrival PROVE CookieOk(r.c, r.iss[f])
    <3>1. /\ st.iss[f].age \in Nat /\ st.c.age \in 0 .. 2 * RotationInterval
          /\ st.iss[f].secret \in {"none", "current", "previous", "gone"}
      BY Interval, SMT DEF CookiesOk, CookieType, ManagerType, CookieEnd
    <3>2. CookieOk(st.c, st.iss[f])
      BY DEF CookiesOk
    <3>3. /\ r.iss[f].age = st.iss[f].age
          /\ r.iss[f].secret = IF st.iss[f].secret = "current" /\ KeepsSecret(st.c) THEN "previous"
                               ELSE IF st.iss[f].secret = "none" THEN "none" ELSE "gone"
      BY <2>1
    <3>4. r.c.current /\ r.c.previous = KeepsSecret(st.c) /\ r.c.age = 0
      BY <2>2, SMT
    <3>5. ~st.c.current \/ st.c.age >= RotationInterval
      BY <1>2 DEF RotationDue
    <3>6. KeepsSecret(st.c) <=> st.c.current /\ st.c.age < 2 * RotationInterval
      BY DEF KeepsSecret
    <3>7. CASE st.iss[f].secret = "current"
      <4>1. /\ st.c.current /\ st.c.age < st.iss[f].age + RotationInterval
            /\ st.iss[f].age <= st.c.age \/ st.c.age = 2 * RotationInterval
        BY <3>2, <3>7 DEF CookieOk
      <4>2. r.iss[f].secret = IF KeepsSecret(st.c) THEN "previous" ELSE "gone"
        BY <3>3, <3>7
      <4> QED BY <3>1, <3>3, <3>4, <3>5, <3>6, <4>1, <4>2, Interval, SMT DEF CookieOk
    <3>8. CASE st.iss[f].secret # "current"
      <4>1. r.iss[f].secret = IF st.iss[f].secret = "none" THEN "none" ELSE "gone"
        BY <3>3, <3>8
      <4>2. \/ st.iss[f].secret = "none"
            \/ /\ st.iss[f].secret = "previous"
               /\ st.c.current /\ st.c.age < st.iss[f].age
            \/ st.iss[f].secret = "gone" /\ RotationInterval < st.iss[f].age
        BY <3>1, <3>2, <3>8 DEF CookieOk
      <4> QED BY <3>1, <3>3, <3>4, <3>5, <4>1, <4>2, Interval, SMT DEF CookieOk
    <3> QED BY <3>7, <3>8
  <2>5. r.c \in ManagerType
    BY <2>2, Interval, SMT DEF ManagerType, KeepsSecret, CookiesOk
  <2> QED BY <2>0, <2>3, <2>4, <2>5 DEF CookiesOk, r
<1> QED BY <1>1, <1>2

(* A cookie that verify accepts is younger than three intervals.           *)
LEMMA AcceptedYoung ==
  ASSUME NEW st, CookiesOk(st), NEW f \in InitArrival, NEW g \in InitArrival, VerifyCookie(st, g, f)
  PROVE  g = f /\ st.iss[g].age < CookieEnd
<1>1. /\ st.iss[g].age \in Nat /\ st.c.age \in 0 .. 2 * RotationInterval
  BY Interval, SMT DEF CookiesOk, CookieType, ManagerType, CookieEnd
<1>2. CookieOk(st.c, st.iss[g])
  BY DEF CookiesOk
<1>3. st.c.age < RotationInterval
  BY <1>1, Interval, SMT DEF VerifyCookie, RotationDue
<1> QED BY <1>1, <1>2, <1>3, Interval, SMT DEF VerifyCookie, CookieOk, CookieEnd

(* The ages say which cookies are accepted.                                *)
LEMMA AcceptedByAge ==
  ASSUME NEW st, CookiesOk(st), NEW f \in InitArrival, st.iss[f].secret # "none"
  PROVE  /\ st.iss[f].age <= RotationInterval => VerifyCookie(Rotated(st, TRUE), f, f)
         /\ st.iss[f].age >= CookieEnd => ~VerifyCookie(Rotated(st, TRUE), f, f)
<1> DEFINE r == Rotated(st, TRUE)
<1>1. CookiesOk(r)
  BY RotatedOk
<1>2. /\ st.iss[f].age \in Nat /\ st.c.age \in 0 .. 2 * RotationInterval
      /\ st.iss[f].secret \in {"current", "previous", "gone"}
  BY Interval, SMT DEF CookiesOk, CookieType, ManagerType, CookieEnd
<1>3. CookieOk(st.c, st.iss[f])
  BY DEF CookiesOk
<1>4. r.iss[f].age = st.iss[f].age
  <2>1. CASE RotationDue(st.c)
    BY <2>1, RotationEffect
  <2> QED BY <2>1 DEF Rotated
<1>5. VerifyCookie(r, f, f) => r.iss[f].age < CookieEnd
  BY <1>1, AcceptedYoung
<1>6. ASSUME st.iss[f].age <= RotationInterval PROVE VerifyCookie(r, f, f)
  <2>1. CASE ~RotationDue(st.c)
    <3>1. r = st
      BY <2>1 DEF Rotated
    <3>2. VerifyCookie(st, f, f)
      BY <1>2, <1>3, <1>6, <2>1, Interval, SMT DEF CookieOk, VerifyCookie
    <3> QED BY <3>1, <3>2
  <2>2. CASE RotationDue(st.c)
    <3>1. st.iss[f].secret = "current" /\ st.c.current /\ st.c.age < 2 * RotationInterval
      BY <1>2, <1>3, <1>6, <2>2, Interval, SMT DEF CookieOk, RotationDue
    <3>2. /\ r.c = [current |-> TRUE, previous |-> KeepsSecret(st.c), age |-> 0]
          /\ r.iss[f].secret = IF st.iss[f].secret = "current" /\ KeepsSecret(st.c) THEN "previous"
                               ELSE IF st.iss[f].secret = "none" THEN "none" ELSE "gone"
      BY <2>2, RotationEffect
    <3> HIDE DEF r
    <3>3. KeepsSecret(st.c)
      BY <3>1 DEF KeepsSecret
    <3>4. r.iss[f].secret = "previous"
      BY <3>1, <3>2, <3>3
    <3>5. r.c.previous /\ r.c.current /\ r.c.age = 0
      BY <3>2, <3>3, SMT
    <3> QED BY <3>4, <3>5, Interval, SMT DEF VerifyCookie, RotationDue
  <2> QED BY <2>1, <2>2
<1> HIDE DEF r
<1>7. st.iss[f].age >= CookieEnd => ~VerifyCookie(r, f, f)
  BY <1>2, <1>4, <1>5, Interval, SMT DEF CookieEnd
<1> QED BY <1>6, <1>7 DEF r

(* So an issued cookie is accepted for a whole interval and never after    *)
(* three.                                                                  *)
LEMMA CookieInvLife == CookieInv => CookieLife
<1> SUFFICES ASSUME CookieInv PROVE CookieLife
  OBVIOUS
<1>1. CookiesOk(Cookies) /\ Cookies.iss = issued
  BY DEF CookieInv, Cookies
<1> QED BY <1>1, AcceptedByAge DEF CookieLife

(* issue, or not when no secret could be drawn.                            *)
LEMMA IssueOk ==
  ASSUME NEW st, CookiesOk(st), NEW f \in InitArrival, NEW random \in BOOLEAN, IssueCookie(st, f, random)
  PROVE  CookieInv'
<1> DEFINE r == Rotated(st, random)
           new == [secret |-> "current", age |-> 0]
<1>1. CookiesOk(r)
  BY RotatedOk
<1>2. /\ cookies' = r.c /\ worked' = {}
      /\ issued' = IF RotationDue(r.c) THEN r.iss ELSE [r.iss EXCEPT ![f] = new]
  BY DEF IssueCookie
<1> HIDE DEF r
<1>3. new \in CookieType /\ new.secret = "current" /\ new.age = 0
  BY Interval, SMT DEF CookieType, CookieEnd
<1> HIDE DEF new
<1>4. ~RotationDue(r.c) => CookieOk(r.c, new)
  BY <1>1, <1>3, Interval, SMT DEF CookieOk, RotationDue, CookiesOk, ManagerType
<1>5. issued' \in [InitArrival -> CookieType] /\ \A g \in InitArrival : CookieOk(cookies', issued'[g])
  BY <1>1, <1>2, <1>3, <1>4 DEF CookiesOk
<1>6. cookies' \in ManagerType
  BY <1>1, <1>2 DEF CookiesOk
<1> QED BY <1>2, <1>5, <1>6 DEF CookieInv, CookiesOk, Cookies, WorkProved

(* An INIT with a cookie.                                                  *)
LEMMA CookieInitOk ==
  ASSUME CookieInv, NEW f \in InitArrival, NEW g \in InitArrival,
         NEW random1 \in BOOLEAN, NEW random2 \in BOOLEAN, CookieInit(f, g, random1, random2)
  PROVE  CookieInv'
<1> DEFINE st == Rotated(Cookies, random1)
<1>1. CookiesOk(st)
  BY RotatedOk DEF CookieInv
<1>2. \/ ~VerifyCookie(st, g, f) /\ IssueCookie(st, f, random2)
      \/ VerifyCookie(st, g, f) /\ cookies' = st.c /\ issued' = st.iss /\ worked' = {<<f, g>>}
  BY DEF CookieInit
<1> HIDE DEF st
<1>3. CASE IssueCookie(st, f, random2)
  BY <1>1, <1>3, IssueOk
<1>4. CASE VerifyCookie(st, g, f) /\ cookies' = st.c /\ issued' = st.iss /\ worked' = {<<f, g>>}
  <2>1. g = f /\ st.iss[g].age < CookieEnd
    BY <1>1, <1>4, AcceptedYoung
  <2>2. WorkProved'
    BY <1>4, <2>1, SMT DEF WorkProved
  <2> QED BY <1>1, <1>4, <2>2 DEF CookieInv, CookiesOk, Cookies
<1> QED BY <1>2, <1>3, <1>4

(* Time passes for cookies and secrets alike.                              *)
LEMMA CookieTickOk == ASSUME CookieInv, AdmissionTick PROVE CookieInv'
<1>1. /\ cookies' = [cookies EXCEPT !.age = Older(@, 2 * RotationInterval)]
      /\ issued' = [f \in InitArrival |-> IF issued[f].secret = "none" THEN issued[f]
                                        ELSE [issued[f] EXCEPT !.age = Older(@, CookieEnd)]]
      /\ worked' = {}
  BY DEF AdmissionTick
<1>2. cookies \in ManagerType /\ issued \in [InitArrival -> CookieType]
      /\ \A f \in InitArrival : CookieOk(cookies, issued[f])
  BY DEF CookieInv, CookiesOk, Cookies
<1>3. /\ cookies' \in ManagerType
      /\ cookies'.current = cookies.current /\ cookies'.previous = cookies.previous
      /\ cookies'.age = IF cookies.age = 2 * RotationInterval THEN cookies.age ELSE cookies.age + 1
  BY <1>1, <1>2, Interval, SMTT(30) DEF ManagerType, Older
<1>4. ASSUME NEW f \in InitArrival PROVE issued'[f] \in CookieType /\ CookieOk(cookies', issued'[f])
  <2>1. issued[f] \in CookieType /\ CookieOk(cookies, issued[f]) /\ cookies.age \in 0 .. 2 * RotationInterval
    BY <1>2 DEF ManagerType
  <2>2. CASE issued[f].secret = "none"
    BY <1>1, <2>1, <2>2 DEF CookieOk
  <2>3. CASE issued[f].secret # "none"
    <3>1. /\ issued'[f] \in CookieType /\ issued'[f].secret = issued[f].secret
          /\ issued'[f].age = IF issued[f].age = CookieEnd THEN CookieEnd ELSE issued[f].age + 1
      <4>1. issued'[f] = [issued[f] EXCEPT !.age = Older(@, CookieEnd)]
        BY <1>1, <2>3
      <4> QED BY <2>1, <4>1, CookieAges
    <3>2. issued[f].age \in 0 .. 3 * RotationInterval
      BY <2>1 DEF CookieType, CookieEnd
    <3> QED BY <1>3, <2>1, <3>1, <3>2, Interval, SMT DEF CookieOk, CookieEnd
  <2> QED BY <2>2, <2>3
<1>5. issued' \in [InitArrival -> CookieType]
  BY <1>1, <1>4
<1> QED BY <1>1, <1>3, <1>4, <1>5 DEF CookieInv, CookiesOk, Cookies, WorkProved

(* Every step keeps the ages in step.                                      *)
LEMMA CookieInvNext == CookieInv /\ [AdmissionNext]_admissionVars => CookieInv'
<1> SUFFICES ASSUME CookieInv, [AdmissionNext]_admissionVars PROVE CookieInv'
  OBVIOUS
<1>1. ASSUME UNCHANGED <<cookies, issued>>, worked' \subseteq worked PROVE CookieInv'
  BY <1>1 DEF CookieInv, CookiesOk, Cookies, WorkProved
<1>2. CASE UNCHANGED admissionVars
  BY <1>1, <1>2 DEF admissionVars
<1>3. ASSUME NEW f \in InitArrival, RefuseInit(f) \/ MalformedInit(f) PROVE CookieInv'
  BY <1>1, <1>3 DEF RefuseInit, MalformedInit
<1>4. ASSUME NEW f \in InitArrival, NEW random \in BOOLEAN, BareInit(f, random) PROVE CookieInv'
  BY <1>4, IssueOk DEF BareInit, CookieInv
<1> QED BY <1>2, <1>3, <1>4, CookieInitOk, CookieTickOk DEF AdmissionNext

(* No cookie is out when the node starts.                                  *)
LEMMA CookieInvInit == AdmissionInit => CookieInv
<1> SUFFICES ASSUME AdmissionInit PROVE CookieInv
  OBVIOUS
<1>1. cookies \in ManagerType
  BY Interval, SMT DEF AdmissionInit, ManagerType
<1>2. issued \in [InitArrival -> CookieType] /\ \A f \in InitArrival : issued[f].secret = "none"
  BY Interval, SMT DEF AdmissionInit, CookieType, CookieEnd
<1> QED BY <1>1, <1>2 DEF AdmissionInit, CookieInv, CookiesOk, CookieOk, Cookies, WorkProved

(* However windows fall and whichever INITs are refused, no stretch as long*)
(* as a window lets through more than the limits allow; a cookie answers   *)
(* its challenge for a whole interval and for less than three, whatever    *)
(* rotations happen and whenever random numbers are missing; and Noise     *)
(* runs only for a frame with such a cookie of its own.                    *)
THEOREM AdmissionIsSound == AdmissionInit /\ [][AdmissionNext]_admissionVars => []AdmissionSound
<1>1. RateInv /\ CookieInv => AdmissionSound
  BY RateInvBounds, CookieInvLife DEF CookieInv, AdmissionSound
<1>2. AdmissionInit => RateInv /\ CookieInv
  BY RateInvInit, CookieInvInit
<1>3. RateInv /\ CookieInv /\ [AdmissionNext]_admissionVars => RateInv' /\ CookieInv'
  BY RateInvNext, CookieInvNext
<1> QED BY <1>1, <1>2, <1>3, PTL
=============================================================================
