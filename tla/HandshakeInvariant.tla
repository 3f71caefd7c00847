------------------------- MODULE HandshakeInvariant -------------------------
(***************************************************************************)
(* Two nodes never disagree about what a session id stands for, for all    *)
(* capacities and time-outs, any number of faults and of retransmissions.  *)
(*                                                                         *)
(* The argument has three parts.  A session id has one initiator: what the *)
(* two nodes and the network hold of a handshake always goes back to one   *)
(* of the two (OneInitiator).  The other one answers an INIT at most once: *)
(* while a copy of it may still arrive, either nobody has answered it or   *)
(* the replay cache has it (AnsweredOnce).  So there is one transcript for *)
(* an id, and every session, RESP and receive thread has that one (OneKey).*)
(***************************************************************************)
EXTENDS Handshake, SessionTableProofs

(* Most leaves are steps of logic and sets, for Zenon; those that need     *)
(* arithmetic, or more of functions and records, name SMT.                 *)
USE Zenon

(* The thread of n in handshake_peer is at work on this id.                *)
Drives(n, sid) == drv[n].pc \in {"reserved", "send", "wait"} /\ drv[n].sid = sid

(* An INIT with this id is on its way to n.                                *)
Carries(n, sid) == \E msg \in Range(chan[n]) : msg.type = "INIT" /\ msg.sid = sid

(* The receive thread of n is handling an INIT with this id.               *)
Handles(n, sid) == rx[n].stage # "idle" /\ rx[n].init.sid = sid

(* n has a session with this id, initiated locally or not.                 *)
Holds(n, sid, local) == \E s \in LiveSessions(sm[n]) : s.id = sid /\ s.local = local

(* Somewhere there is something of a handshake that n began with this id.  *)
Began(n, sid) ==
  \/ Drives(n, sid)
  \/ sid \in DOMAIN sm[n].pending
  \/ Carries(Other(n), sid)
  \/ Handles(Other(n), sid)
  \/ Holds(n, sid, TRUE)
  \/ Holds(Other(n), sid, FALSE)

OneInitiator == \A n \in Node, sid \in Sid : ~(Began(n, sid) /\ Began(Other(n), sid))

(* An INIT with this id may still reach n.                                 *)
Arrives(n, sid) == Carries(n, sid) \/ Drives(Other(n), sid)

Cached(n, sid) == [peer |-> Other(n), sid |-> sid] \in DOMAIN sm[n].replays

Once(n, sid) ==
  /\ Arrives(n, sid) => answers[sid] = 0 \/ Cached(n, sid)
  /\ Handles(n, sid) /\ rx[n].stage \in {"checked", "admitted"} => answers[sid] = 0
  /\ Handles(n, sid) /\ rx[n].stage = "admitted" /\ Arrives(n, sid) => Cached(n, sid)
  /\ Drives(n, sid) /\ drv[n].pc = "reserved" =>
       answers[sid] = 0 /\ ~Carries(Other(n), sid) /\ ~Handles(Other(n), sid)

AnsweredOnce == \A n \in Node, sid \in Sid : Once(n, sid)

(* The entries of a replay cache are all equally old: ReplaysOver is the   *)
(* only step that ages them.                                               *)
YoungCache(m) == \A i \in DOMAIN m.replays : m.replays[i].expires = ReplayTtl

OneTranscript(s) == s.key = <<s.id, 0>>

OneKey ==
  \A n \in Node :
    /\ \A s \in LiveSessions(sm[n]) : OneTranscript(s)
    /\ \A msg \in Range(chan[n]) : msg.type = "RESP" => msg.key = <<msg.sid, 0>>
    /\ rx[n].stage = "installed" => rx[n].key = <<rx[n].init.sid, 0>>

-----------------------------------------------------------------------------
(* The shape of the variables.                                             *)

Driving ==
  [pc : {"idle", "await"}] \cup [pc : {"begun"}, dest : BOOLEAN]
  \cup [pc : {"reserved"}, sid : Sid, dest : BOOLEAN]
  \cup [pc : {"send", "wait"}, sid : Sid, dest : BOOLEAN, sends : Nat]

Receiving ==
  [stage : {"idle"}] \cup [stage : {"checked", "admitted", "answered"}, init : InitFrame]
  \cup [stage : {"installed"}, init : InitFrame, key : Key]

Message ==
  [type : {"INIT"}, sid : Sid, cookie : BOOLEAN] \cup [type : {"COOKIE"}, sid : Sid]
  \cup [type : {"RESP", "DATA"}, sid : Sid, key : Key]

TableShape == DOMAIN sm = Node /\ \A n \in Node : TableInv(sm[n]) /\ YoungCache(sm[n])

DriverShape ==
  /\ hs \in [Node -> [sid : Sid \cup {0}, done : BOOLEAN, cookie : BOOLEAN, updated : BOOLEAN]]
  /\ drv \in [Node -> Driving]
  /\ \A n \in Node : /\ drv[n].pc \in {"send", "wait"} => drv[n].sends <= setting.sends
                     /\ drv[n].pc = "send" => drv[n].sends < setting.sends

ReceiverShape ==
  /\ rx \in [Node -> Receiving]
  /\ \A n \in Node : rx[n].stage # "idle" => rx[n].init.peer = Other(n)
  /\ chan \in [Node -> Seq(Message)]

Shape ==
  /\ setting \in Settings /\ faults \in 0 .. setting.faults
  /\ TableShape /\ DriverShape /\ ReceiverShape
  /\ knows \in [Node -> BOOLEAN] /\ answers \in [Sid -> Nat]

HInv == Shape /\ OneInitiator /\ AnsweredOnce /\ OneKey

(* There are two nodes, and each is the other one of the other one.        *)
LEMMA TwoNodes ==
  /\ \A n \in Node : Other(n) \in Node /\ Other(n) # n /\ Other(Other(n)) = n
  /\ \A n, p \in Node : p = n \/ p = Other(n)
<1>1. PICK a, b \in Node : a # b /\ Node = {a, b}
  BY HandshakeAssumption
<1>2. Other(a) = b /\ Other(b) = a
  BY <1>1 DEF Other
<1> QED BY <1>1, <1>2

(* The invariant contains what the run checks.                             *)
LEMMA HInvKeysAgree == HInv => KeysAgree
<1> SUFFICES ASSUME HInv PROVE KeysAgree
  OBVIOUS
<1>1. SameSidSameKeys
  <2> SUFFICES ASSUME NEW n \in Node, NEW s \in LiveSessions(sm[n]),
                      NEW t \in LiveSessions(sm[Other(n)]), s.id = t.id
               PROVE  s.key = t.key /\ s.local # t.local
    BY DEF SameSidSameKeys
  <2>1. Other(n) \in Node /\ Other(Other(n)) = n
    BY TwoNodes
  <2>2. s.key = t.key
    BY <2>1, ZenonT(30) DEF HInv, OneKey, OneTranscript
  <2>3. TableInv(sm[n]) /\ TableInv(sm[Other(n)])
    BY <2>1 DEF HInv, Shape, TableShape
  <2>4. s \in Session /\ t \in Session
    <3>1. TableType(sm[n]) /\ TableType(sm[Other(n)])
      BY <2>3 DEF TableInv
    <3> QED BY <3>1, LiveTyped
  <2>5. s.local \in BOOLEAN /\ t.local \in BOOLEAN /\ s.id \in Sid
    BY <2>4 DEF Session
  <2>6. CASE s.local = TRUE /\ t.local = TRUE
    BY <2>1, <2>5, <2>6 DEF HInv, OneInitiator, Began, Holds
  <2>7. CASE s.local = FALSE /\ t.local = FALSE
    BY <2>1, <2>5, <2>7 DEF HInv, OneInitiator, Began, Holds
  <2> QED BY <2>2, <2>5, <2>6, <2>7
<1>2. TypeOK
  <2>1. \A n \in Node : TableType(sm[n])
    BY DEF HInv, Shape, TableShape, TableInv
  <2>2. \A n \in Node :
          /\ drv[n].pc \in {"idle", "begun", "reserved", "send", "wait", "await"}
          /\ drv[n].pc \in {"send", "wait"} =>
               drv[n].sid \in Sid /\ drv[n].sends \in 0 .. setting.sends
    <3> SUFFICES ASSUME NEW n \in Node
                 PROVE  /\ drv[n].pc \in {"idle", "begun", "reserved", "send", "wait", "await"}
                        /\ drv[n].pc \in {"send", "wait"} =>
                             drv[n].sid \in Sid /\ drv[n].sends \in 0 .. setting.sends
      OBVIOUS
    <3>1. drv[n] \in Driving
      BY DEF HInv, Shape, DriverShape
    <3>2. drv[n].pc \in {"send", "wait"} => drv[n].sends <= setting.sends
      BY DEF HInv, Shape, DriverShape
    <3>3. setting.sends \in Nat
      BY HandshakeAssumption DEF HInv, Shape
    <3> QED BY <3>1, <3>2, <3>3, SMT DEF Driving
  <2>3. \A n \in Node : rx[n].stage \in {"idle", "checked", "admitted", "installed", "answered"}
    BY DEF HInv, Shape, ReceiverShape, Receiving
  <2>4. \A n \in Node : \A i \in DOMAIN chan[n] :
          chan[n][i].type \in {"INIT", "COOKIE", "RESP", "DATA"} /\ chan[n][i].sid \in Sid
    BY SMT DEF HInv, Shape, ReceiverShape, Message
  <2> QED BY <2>1, <2>2, <2>3, <2>4 DEF HInv, Shape, DriverShape, TypeOK
<1> QED BY <1>1, <1>2 DEF KeysAgree

(* Nothing is under way when the nodes start.                              *)
LEMMA InitHInv == Init => HInv
<1> SUFFICES ASSUME Init PROVE HInv
  OBVIOUS
<1>0. \A n \in Node : Other(n) \in Node
  BY TwoNodes
<1>1. \A n \in Node : sm[n] = EmptyTable /\ rx[n].stage = "idle" /\ drv[n].pc = "idle" /\ chan[n] = <<>>
  BY DEF Init, Idle, Asleep
<1>2. TableInv(EmptyTable) /\ YoungCache(EmptyTable) /\ LiveSessions(EmptyTable) = {}
      /\ DOMAIN EmptyTable.pending = {}
  <2>1. /\ EmptyTable.sessions = <<>> /\ EmptyTable.byId = <<>> /\ EmptyTable.retired = <<>>
        /\ EmptyTable.pending = <<>> /\ EmptyTable.replays = <<>>
        /\ DOMAIN EmptyTable = {"sessions", "byId", "retired", "pending", "replays"}
    BY DEF EmptyTable
  <2>2. DOMAIN <<>> = {}
    BY SMT
  <2>3. TableType(EmptyTable) /\ ByIdInverse(EmptyTable) /\ SidsDisjoint(EmptyTable)
        /\ RetiredHasSuccessor(EmptyTable)
    BY <2>1, <2>2 DEF TableType, ByIdInverse, SidsDisjoint, RetiredHasSuccessor
  <2>4. FiniteTables(EmptyTable) /\ WithinCapacity(EmptyTable)
    BY <2>1, <2>2, FS_EmptySet, TableAssumption, SMT DEF FiniteTables, WithinCapacity
  <2> QED BY <2>1, <2>2, <2>3, <2>4 DEF TableInv, YoungCache, LiveSessions
<1>3. Shape
  <2>1. DOMAIN sm = Node /\ \A n \in Node : TableInv(sm[n]) /\ YoungCache(sm[n])
    BY <1>1, <1>2 DEF Init
  <2>2. hs \in [Node -> [sid : Sid \cup {0}, done : BOOLEAN, cookie : BOOLEAN, updated : BOOLEAN]]
    BY DEF Init, NoEntry
  <2>3. drv \in [Node -> Driving] /\ rx \in [Node -> Receiving] /\ chan \in [Node -> Seq(Message)]
    BY SMT DEF Init, Asleep, Idle, Driving, Receiving
  <2>4. knows \in [Node -> BOOLEAN] /\ answers \in [Sid -> Nat]
    BY SMT DEF Init
  <2>5. setting \in Settings /\ faults \in 0 .. setting.faults
    BY HandshakeAssumption, SMT DEF Init
  <2> QED BY <1>1, <2>1, <2>2, <2>3, <2>4, <2>5, HandshakeAssumption
         DEF Shape, TableShape, DriverShape, ReceiverShape
<1>4. \A n \in Node, sid \in Sid :
        /\ ~Drives(n, sid) /\ ~Carries(n, sid) /\ ~Handles(n, sid)
        /\ ~Holds(n, sid, TRUE) /\ ~Holds(n, sid, FALSE) /\ sid \notin DOMAIN sm[n].pending
  BY <1>1, <1>2, SMT DEF Drives, Carries, Handles, Holds, Range
<1>5. OneInitiator
  BY <1>0, <1>4 DEF OneInitiator, Began
<1>6. AnsweredOnce
  BY <1>0, <1>1, <1>4 DEF AnsweredOnce, Once, Arrives
<1>7. OneKey
  BY <1>1, <1>2, SMT DEF OneKey, Range
<1> QED BY <1>3, <1>5, <1>6, <1>7 DEF HInv

-----------------------------------------------------------------------------
(* What the critical sections do to the sessions, the pending initiators   *)
(* and the replay cache.                                                   *)

SameCache(n, m) == DOMAIN n.replays = DOMAIN m.replays /\ YoungCache(n)

(* From m to n nothing is installed, begun or forgotten.                   *)
Quietly(n, m) ==
  /\ LiveSessions(n) \subseteq LiveSessions(m)
  /\ DOMAIN n.pending \subseteq DOMAIN m.pending
  /\ SameCache(n, m)

(* A table with fewer sessions.                                            *)
LEMMA SubTableLive ==
  ASSUME NEW m, NEW n, SubTable(n, m) PROVE LiveSessions(n) \subseteq LiveSessions(m)
BY DEF SubTable, LiveSessions

(* A purge of the replay cache that comes too early takes nothing.         *)
LEMMA YoungStays ==
  ASSUME NEW m, TableInv(m), YoungCache(m)
  PROVE  SameCache(PurgeReplays(m, 0), m)
<1> DEFINE n == PurgeReplays(m, 0)
<1>1. n.replays = Live(m.replays, 0)
  BY DEF PurgeReplays, TableInv, TableType
<1>2. \A i \in DOMAIN m.replays : m.replays[i].expires > 0
  BY HandshakeAssumption DEF YoungCache
<1>3. /\ DOMAIN Live(m.replays, 0) = DOMAIN m.replays
      /\ \A i \in DOMAIN m.replays : Live(m.replays, 0)[i] = m.replays[i]
  BY <1>2 DEF Live, Restrict
<1> QED BY <1>1, <1>3 DEF SameCache, YoungCache

(* The purges and remove_session.                                          *)
LEMMA PurgesQuiet ==
  ASSUME NEW m, TableInv(m), YoungCache(m), NEW t, NEW peer
  PROVE  /\ Quietly(PurgePending(m, t), m)
         /\ Quietly(PurgeRetired(m, t), m)
         /\ Quietly(RemoveSession(m, peer), m)
<1>1. /\ LiveSessions(PurgePending(m, t)) \subseteq LiveSessions(m)
      /\ LiveSessions(PurgeRetired(m, t)) \subseteq LiveSessions(m)
      /\ LiveSessions(RemoveSession(m, peer)) \subseteq LiveSessions(m)
  BY NothingInstalled, SubTableLive
<1>2. DOMAIN m = {"sessions", "byId", "retired", "pending", "replays"}
  BY DEF TableInv, TableType
<1>3. /\ PurgePending(m, t).replays = m.replays
      /\ PurgePending(m, t).pending = Live(m.pending, t)
  BY <1>2 DEF PurgePending
<1>4. PurgeRetired(m, t).replays = m.replays /\ PurgeRetired(m, t).pending = m.pending
  BY <1>2 DEF PurgeRetired
<1>5. /\ RemoveSession(m, peer).replays = m.replays
      /\ DOMAIN RemoveSession(m, peer).pending \subseteq DOMAIN m.pending
  BY <1>2 DEF RemoveSession, Without, Restrict
<1>6. DOMAIN Live(m.pending, t) \subseteq DOMAIN m.pending
  BY LiveFacts
<1> QED BY <1>1, <1>3, <1>4, <1>5, <1>6 DEF Quietly, SameCache, YoungCache

(* handle_handshake_init, first critical section; it goes on only with an  *)
(* INIT that the cache does not have.                                      *)
LEMMA CheckInitQuiet ==
  ASSUME NEW m, TableInv(m), YoungCache(m), NEW init
  PROVE  /\ Quietly(CheckInit(m, init, 0).m, m)
         /\ CheckInit(m, init, 0).ok => init \notin DOMAIN m.replays
<1> DEFINE p == PurgePending(m, 0)
           n == PurgeReplays(p, 0)
<1>1. TableInv(p) /\ Quietly(p, m)
  BY PurgePendingInv, PurgesQuiet
<1>2. CheckInit(m, init, 0).m = n /\ (CheckInit(m, init, 0).ok => init \notin DOMAIN n.replays)
  BY DEF CheckInit, Outcome
<1> HIDE DEF p
<1>3. SameCache(n, p)
  BY <1>1, YoungStays DEF Quietly, SameCache
<1>4. n.pending = p.pending /\ LiveSessions(n) \subseteq LiveSessions(p)
  BY <1>1, NothingInstalled, SubTableLive DEF PurgeReplays, TableInv, TableType
<1> HIDE DEF n
<1> QED BY <1>1, <1>2, <1>3, <1>4 DEF Quietly, SameCache

(* create_handshake_init adds at most its own initiator.                   *)
LEMMA CreateInitBegins ==
  ASSUME NEW m, TableInv(m), YoungCache(m), NEW peer, NEW sid
  PROVE  LET n == CreateHandshakeInit(m, peer, sid, 0).m
         IN  /\ LiveSessions(n) \subseteq LiveSessions(m)
             /\ DOMAIN n.pending \subseteq DOMAIN m.pending \cup {sid}
             /\ SameCache(n, m)
<1> DEFINE p == PurgePending(m, 0)
           e == [peer |-> peer, expires |-> 0 + HandshakeTimeout]
           q == [p EXCEPT !.pending = Put(@, sid, e)]
           n == CreateHandshakeInit(m, peer, sid, 0).m
<1>1. TableInv(p) /\ Quietly(p, m)
  BY PurgePendingInv, PurgesQuiet
<1>2. n = p \/ n = q
  BY DEF CreateHandshakeInit, Outcome
<1> HIDE DEF p
<1>3. DOMAIN q.pending = DOMAIN p.pending \cup {sid} /\ q.replays = p.replays
  BY <1>1 DEF Put, TableInv, TableType
<1>4. LiveSessions(n) \subseteq LiveSessions(m)
  BY NothingInstalled, SubTableLive
<1> HIDE DEF q, n
<1>5. DOMAIN n.pending \subseteq DOMAIN m.pending \cup {sid} /\ SameCache(n, m)
  BY <1>1, <1>2, <1>3 DEF Quietly, SameCache, YoungCache
<1> QED BY <1>4, <1>5 DEF n

(* handle_handshake_init, second critical section: the cache only grows,   *)
(* and an INIT that is admitted is new to it and then in it.               *)
LEMMA AdmitInitRecords ==
  ASSUME NEW m, TableInv(m), YoungCache(m), NEW self, NEW init \in InitFrame
  PROVE  LET out == AdmitInit(m, self, init, 0)
         IN  /\ LiveSessions(out.m) \subseteq LiveSessions(m)
             /\ DOMAIN out.m.pending \subseteq DOMAIN m.pending
             /\ YoungCache(out.m)
             /\ DOMAIN m.replays \subseteq DOMAIN out.m.replays
             /\ out.ok => init \in DOMAIN out.m.replays
<1> DEFINE p == PurgePending(m, 0)
           c == PurgeReplays(p, 0)
           f == Put(c.replays, init, [expires |-> 0 + ReplayTtl])
           seen == [c EXCEPT !.replays = f]
           mine == {s \in DOMAIN c.pending : c.pending[s].peer = init.peer}
           g == Without(seen.pending, {Min(mine)})
           fewer == [seen EXCEPT !.pending = g]
           out == AdmitInit(m, self, init, 0)
<1>1. TableInv(p) /\ Quietly(p, m)
  BY PurgePendingInv, PurgesQuiet
<1>2. \/ ~out.ok /\ out.m = c
      \/ out.m = seen \/ out.m = fewer
  BY DEF AdmitInit, Outcome
<1>3. LiveSessions(out.m) \subseteq LiveSessions(m)
  BY NothingInstalled, SubTableLive
<1> HIDE DEF p
<1>4. SameCache(c, p) /\ c.pending = p.pending /\ TableInv(c)
  BY <1>1, YoungStays, PurgeReplaysInv DEF Quietly, SameCache, PurgeReplays, TableInv, TableType
<1> HIDE DEF c
<1>5. /\ DOMAIN f = DOMAIN c.replays \cup {init}
      /\ \A i \in DOMAIN f : f[i].expires = ReplayTtl
  <2>1. ReplayTtl \in Nat
    BY TableAssumption
  <2> QED BY <1>4, <2>1, SMT DEF Put, SameCache, YoungCache
<1> HIDE DEF f
<1>6. seen.replays = f /\ seen.pending = c.pending /\ DOMAIN seen = DOMAIN c
  BY <1>4 DEF TableInv, TableType
<1> HIDE DEF seen, mine
<1>7. fewer.replays = f /\ DOMAIN fewer.pending \subseteq DOMAIN c.pending
  BY <1>4, <1>6 DEF TableInv, TableType, Without, Restrict
<1> HIDE DEF fewer, out, g
<1>8. /\ DOMAIN out.m.pending \subseteq DOMAIN m.pending
      /\ YoungCache(out.m)
      /\ DOMAIN m.replays \subseteq DOMAIN out.m.replays
      /\ out.ok => init \in DOMAIN out.m.replays
  BY <1>1, <1>2, <1>4, <1>5, <1>6, <1>7 DEF Quietly, SameCache, YoungCache
<1> QED BY <1>3, <1>8 DEF out

(* The session that create_session and install_noise_keys leave.           *)
NewSession(peer, sid, key, local) ==
  [id |-> sid, peer |-> peer, local |-> local, key |-> key, seq |-> 0, win |-> EmptyWindow]

(* s is the session of a handshake with this id.                           *)
Made(s, sid, local, key) == s.id = sid /\ s.local = local /\ s.key = key

(* create_session adds one session; the one it replaces may be retired.    *)
LEMMA CreateSessionLive ==
  ASSUME NEW m, TableInv(m), NEW peer \in Node, NEW sid \in Sid, NEW key \in Key,
         NEW local \in BOOLEAN, NEW t \in Nat
  PROVE  LET n == CreateSession(m, peer, sid, key, local, t)
         IN  /\ n.pending = m.pending /\ n.replays = m.replays
             /\ LiveSessions(n) \subseteq LiveSessions(m) \cup {NewSession(peer, sid, key, local)}
<1> DEFINE n == CreateSession(m, peer, sid, key, local, t)
           had == peer \in DOMAIN m.sessions
           old == m.sessions[peer]
           new == NewSession(peer, sid, key, local)
<1>1. /\ n.retired = IF had THEN Retire(m.retired, old, t) ELSE m.retired
      /\ n.sessions = Put(m.sessions, peer, new)
      /\ n.pending = m.pending /\ n.replays = m.replays
  BY DEF TableInv, TableType, CreateSession, NewSession
<1> HIDE DEF n, new
<1>3. \A p \in DOMAIN n.sessions : \/ p \in DOMAIN m.sessions /\ n.sessions[p] = m.sessions[p]
                                   \/ n.sessions[p] = new
  BY <1>1 DEF Put
<1>4. \A s \in DOMAIN n.retired : n.retired[s].session \in LiveSessions(m)
  <2>1. CASE had
    <3>1. old \in Session /\ old.id \notin DOMAIN m.retired /\ old \in LiveSessions(m)
      BY <2>1 DEF TableInv, TableType, ByIdInverse, SidsDisjoint, LiveSessions
    <3> HIDE DEF old
    <3> DEFINE r == Retire(m.retired, old, t)
    <3>2. /\ DOMAIN r \subseteq DOMAIN m.retired \cup {old.id}
          /\ \A x \in DOMAIN r : x # old.id => r[x] = m.retired[x]
          /\ old.id \in DOMAIN r => r[old.id] = [session |-> old, expires |-> t + RetiredGrace]
      BY <3>1, RetireFacts, SMT DEF TableInv, TableType, FiniteTables, WithinCapacity
    <3> HIDE DEF r
    <3>3. n.retired = r
      BY <1>1, <2>1 DEF r, old
    <3>4. \A x \in DOMAIN m.retired : m.retired[x].session \in LiveSessions(m)
      BY DEF LiveSessions
    <3> QED BY <3>1, <3>2, <3>3, <3>4, SMT
  <2>2. CASE ~had
    BY <1>1, <2>2 DEF LiveSessions
  <2> QED BY <2>1, <2>2
<1>5. LiveSessions(n) \subseteq LiveSessions(m) \cup {new}
  BY <1>3, <1>4 DEF LiveSessions
<1> QED BY <1>1, <1>5 DEF n, new

(* handle_handshake_init, third critical section.                          *)
LEMMA InstallInitLive ==
  ASSUME NEW m, TableInv(m), YoungCache(m), NEW init \in InitFrame, NEW key \in Key
  PROVE  LET n == InstallInit(m, init, key, 0).m
         IN  /\ DOMAIN n.pending \subseteq DOMAIN m.pending
             /\ SameCache(n, m)
             /\ \A s \in LiveSessions(n) :
                  s \in LiveSessions(m) \/ Made(s, init.sid, FALSE, key)
<1> DEFINE p == PurgePending(m, 0)
           q == CreateSession(p, init.peer, init.sid, key, FALSE, 0)
           new == NewSession(init.peer, init.sid, key, FALSE)
           n == InstallInit(m, init, key, 0).m
<1>1. TableInv(p) /\ Quietly(p, m)
  BY PurgePendingInv, PurgesQuiet
<1>2. n = p \/ n = q
  BY DEF InstallInit, Outcome
<1> HIDE DEF p
<1>3. init.peer \in Node /\ init.sid \in Sid
  BY DEF InitFrame
<1>4. /\ q.pending = p.pending /\ q.replays = p.replays
      /\ LiveSessions(q) \subseteq LiveSessions(p) \cup {new}
  BY <1>1, <1>3, CreateSessionLive
<1>6. Made(new, init.sid, FALSE, key)
  BY DEF NewSession, Made
<1> HIDE DEF q, n, new
<1>5. /\ DOMAIN n.pending \subseteq DOMAIN m.pending
      /\ SameCache(n, m)
      /\ \A s \in LiveSessions(n) :
           s \in LiveSessions(m) \/ Made(s, init.sid, FALSE, key)
  BY <1>1, <1>2, <1>4, <1>6 DEF Quietly, SameCache, YoungCache
<1> QED BY <1>5 DEF n

(* handle_handshake_resp installs only what was begun here.                *)
LEMMA HandleRespLive ==
  ASSUME NEW m, TableInv(m), YoungCache(m), NEW self, NEW sid \in Sid, NEW key \in Key
  PROVE  LET n == HandleResp(m, self, sid, TRUE, key, 0).m
         IN  /\ DOMAIN n.pending \subseteq DOMAIN m.pending
             /\ SameCache(n, m)
             /\ \A s \in LiveSessions(n) :
                  \/ s \in LiveSessions(m)
                  \/ sid \in DOMAIN m.pending /\ Made(s, sid, TRUE, key)
<1> DEFINE p == PurgePending(m, 0)
           peer == p.pending[sid].peer
           g == Without(p.pending, {sid})
           taken == [p EXCEPT !.pending = g]
           q == CreateSession(taken, peer, sid, key, TRUE, 0)
           new == NewSession(peer, sid, key, TRUE)
           n == HandleResp(m, self, sid, TRUE, key, 0).m
<1>1. TableInv(p) /\ Quietly(p, m)
  BY PurgePendingInv, PurgesQuiet
<1>2. \/ n = p \/ n = taken
      \/ sid \in DOMAIN p.pending /\ n = q
  BY DEF HandleResp, Outcome
<1> HIDE DEF p
<1>3. DOMAIN g \subseteq DOMAIN p.pending /\ \A s \in DOMAIN g : g[s] = p.pending[s]
  BY DEF Without, Restrict
<1> HIDE DEF g
<1>4. TableInv(taken)
  BY <1>1, <1>3, FewerPending
<1>5. taken.pending = g /\ taken.replays = p.replays /\ LiveSessions(taken) = LiveSessions(p)
  BY <1>1, SMT DEF TableInv, TableType, LiveSessions
<1>6. sid \in DOMAIN p.pending => peer \in Node
  BY <1>1 DEF TableInv, TableType
<1> HIDE DEF taken, peer
<1>7. sid \in DOMAIN p.pending =>
        /\ q.pending = taken.pending /\ q.replays = taken.replays
        /\ LiveSessions(q) \subseteq LiveSessions(taken) \cup {new}
  BY <1>4, <1>6, CreateSessionLive
<1>9. Made(new, sid, TRUE, key)
  BY DEF NewSession, Made
<1> HIDE DEF q, n, new
<1>8. /\ DOMAIN n.pending \subseteq DOMAIN m.pending
      /\ SameCache(n, m)
      /\ \A s \in LiveSessions(n) :
           \/ s \in LiveSessions(m)
           \/ sid \in DOMAIN m.pending /\ Made(s, sid, TRUE, key)
  BY <1>1, <1>2, <1>3, <1>5, <1>7, <1>9 DEF Quietly, SameCache, YoungCache
<1> QED BY <1>8 DEF n

-----------------------------------------------------------------------------
(* What the receive thread and the network do to a channel.                *)
LEMMA ChannelTail ==
  ASSUME NEW s \in Seq(Message), s # <<>>
  PROVE  /\ Head(s) \in Range(s) /\ Head(s) \in Message
         /\ Tail(s) \in Seq(Message) /\ Range(Tail(s)) \subseteq Range(s)
BY SMT DEF Range

(* A datagram is sent.                                                     *)
LEMMA ChannelAppend ==
  ASSUME NEW s \in Seq(Message), NEW msg \in Message
  PROVE  /\ Append(s, msg) \in Seq(Message)
         /\ Range(Append(s, msg)) \subseteq Range(s) \cup {msg}
BY SMT DEF Range

(* Two pieces of a channel are put together.                               *)
LEMMA ChannelConcat ==
  ASSUME NEW s \in Seq(Message), NEW r \in Seq(Message)
  PROVE  s \o r \in Seq(Message) /\ Range(s \o r) \subseteq Range(s) \cup Range(r)
<1>1. s \o r \in Seq(Message) /\ Len(s \o r) = Len(s) + Len(r)
  BY SMT
<1>2. \A k \in DOMAIN (s \o r) : \/ k \in DOMAIN s /\ (s \o r)[k] = s[k]
                                 \/ k - Len(s) \in DOMAIN r /\ (s \o r)[k] = r[k - Len(s)]
  BY SMT
<1> QED BY <1>1, <1>2 DEF Range

(* A datagram is lost, repeated or overtakes the others.                   *)
LEMMA ChannelFault ==
  ASSUME NEW s \in Seq(Message), NEW i \in DOMAIN s
  PROVE  /\ s[i] \in Message /\ s[i] \in Range(s)
         /\ Cut(s, i) \in Seq(Message) /\ Range(Cut(s, i)) \subseteq Range(s)
         /\ <<s[i]>> \o Cut(s, i) \in Seq(Message)
         /\ Range(<<s[i]>> \o Cut(s, i)) \subseteq Range(s)
<1> DEFINE a == SubSeq(s, 1, i - 1)
           b == SubSeq(s, i + 1, Len(s))
           e == <<s[i]>>
           r == Cut(s, i)
<1>1. s[i] \in Message /\ s[i] \in Range(s)
  BY SMT DEF Range
<1>2. a \in Seq(Message) /\ Range(a) \subseteq Range(s)
  BY SMT DEF Range
<1>3. b \in Seq(Message) /\ Range(b) \subseteq Range(s)
  BY SMT DEF Range
<1>4. r = a \o b
  BY DEF Cut
<1>5. e \in Seq(Message) /\ Range(e) \subseteq Range(s)
  BY <1>1, SMT DEF Range
<1> HIDE DEF a, b, e, r
<1>6. r \in Seq(Message) /\ Range(r) \subseteq Range(s)
  BY <1>2, <1>3, <1>4, ChannelConcat
<1>7. e \o r \in Seq(Message) /\ Range(e \o r) \subseteq Range(s)
  BY <1>5, <1>6, ChannelConcat
<1> QED BY <1>1, <1>6, <1>7 DEF e, r

-----------------------------------------------------------------------------
(* If a step begins nothing, a session id still has one initiator.         *)
LEMMA NothingBegun ==
  ASSUME OneInitiator, \A n \in Node, sid \in Sid : Began(n, sid)' => Began(n, sid)
  PROVE  OneInitiator'
BY TwoNodes DEF OneInitiator

(* An orderly step: what it leaves of a handshake goes back to what was    *)
(* there, and the replay cache forgets nothing.                            *)
OrderlyTable(n) ==
  /\ \A s \in LiveSessions(sm'[n]) :
       \/ s \in LiveSessions(sm[n])
       \/ s.id \in DOMAIN sm[n].pending /\ s.local = TRUE /\ OneTranscript(s)
  /\ \A sid \in DOMAIN sm'[n].pending : sid \in DOMAIN sm[n].pending \/ Drives(n, sid)
  /\ DOMAIN sm[n].replays \subseteq DOMAIN sm'[n].replays

OrderlyDriver(n) ==
  /\ \A sid \in Sid : Drives(n, sid)' => Drives(n, sid)
  /\ drv'[n].pc = "reserved" => drv'[n] = drv[n]

OrderlyReceiver(n) ==
  \/ rx'[n].stage = "idle"
  \/ rx'[n] = rx[n]
  \/ rx'[n].stage = "checked" /\ Carries(n, rx'[n].init.sid) /\ ~Cached(n, rx'[n].init.sid)
  \/ /\ rx[n].stage = "checked" /\ rx'[n].stage = "admitted" /\ rx'[n].init = rx[n].init
     /\ [peer |-> Other(n), sid |-> rx[n].init.sid] \in DOMAIN sm'[n].replays
  \/ rx[n].stage = "installed" /\ rx'[n].stage = "answered" /\ rx'[n].init = rx[n].init

OrderlyChannel(n) ==
  \A msg \in Range(chan'[n]) :
    \/ msg \in Range(chan[n])
    \/ msg.type = "INIT" /\ Drives(Other(n), msg.sid) /\ drv[Other(n)].pc # "reserved"
    \/ msg.type \in {"COOKIE", "DATA"}
    \/ msg.type = "RESP" /\ msg.key = <<msg.sid, 0>>

(* An orderly step keeps the invariant.                                    *)
LEMMA OrderlyStep ==
  ASSUME HInv, Shape', answers' = answers,
         \A n \in Node : /\ OrderlyTable(n) /\ OrderlyDriver(n)
                         /\ OrderlyReceiver(n) /\ OrderlyChannel(n)
  PROVE  HInv'
<1>0. \A n \in Node : Other(n) \in Node /\ Other(Other(n)) = n
  BY TwoNodes
<1>1. \A n \in Node, sid \in Sid : Drives(n, sid)' => Drives(n, sid)
  BY DEF OrderlyDriver
<1>2. \A n \in Node, sid \in Sid :
        Carries(n, sid)' =>
          Carries(n, sid) \/ (Drives(Other(n), sid) /\ drv[Other(n)].pc # "reserved")
  BY DEF OrderlyChannel, Carries
<1>3. \A n \in Node, sid \in Sid : Handles(n, sid)' => Handles(n, sid) \/ Carries(n, sid)
  BY DEF OrderlyReceiver, Handles
<1>4. \A n \in Node, sid \in Sid :
        /\ Holds(n, sid, TRUE)' => Holds(n, sid, TRUE) \/ sid \in DOMAIN sm[n].pending
        /\ Holds(n, sid, FALSE)' => Holds(n, sid, FALSE)
  BY DEF OrderlyTable, Holds
<1>5. \A n \in Node, sid \in Sid :
        sid \in DOMAIN sm'[n].pending => sid \in DOMAIN sm[n].pending \/ Drives(n, sid)
  BY DEF OrderlyTable
<1>6. \A n \in Node, sid \in Sid : Cached(n, sid) => Cached(n, sid)'
  BY DEF OrderlyTable, Cached
<1>7. OneInitiator'
  <2>1. \A n \in Node, sid \in Sid : Began(n, sid)' => Began(n, sid)
    BY <1>0, <1>1, <1>2, <1>3, <1>4, <1>5 DEF Began
  <2> QED BY <2>1, NothingBegun DEF HInv
<1>8. AnsweredOnce'
  <2> SUFFICES ASSUME NEW n \in Node, NEW sid \in Sid PROVE Once(n, sid)'
    BY DEF AnsweredOnce
  <2>1. Once(n, sid)
    BY DEF HInv, AnsweredOnce
  <2>2. Arrives(n, sid)' => Arrives(n, sid)
    BY <1>0, <1>1, <1>2 DEF Arrives
  <2>3. Cached(n, sid) => Cached(n, sid)'
    BY <1>6
  <2>4. Handles(n, sid)' /\ rx'[n].stage \in {"checked", "admitted"} =>
          \/ Handles(n, sid) /\ rx[n].stage = rx'[n].stage
          \/ rx'[n].stage = "checked" /\ Carries(n, sid) /\ ~Cached(n, sid)
          \/ Handles(n, sid) /\ rx[n].stage = "checked" /\ Cached(n, sid)'
    BY DEF OrderlyReceiver, Handles, Cached
  <2>5. /\ Arrives(n, sid)' => answers'[sid] = 0 \/ Cached(n, sid)'
        /\ Handles(n, sid)' /\ rx'[n].stage \in {"checked", "admitted"} => answers'[sid] = 0
        /\ Handles(n, sid)' /\ rx'[n].stage = "admitted" /\ Arrives(n, sid)' => Cached(n, sid)'
    BY <2>1, <2>2, <2>3, <2>4 DEF Once, Arrives
  <2>6. ASSUME Drives(n, sid)', drv'[n].pc = "reserved"
        PROVE  answers'[sid] = 0 /\ ~Carries(Other(n), sid)' /\ ~Handles(Other(n), sid)'
    <3>1. drv[n].pc = "reserved" /\ Drives(n, sid)
      BY <2>6 DEF OrderlyDriver, Drives
    <3>2. answers[sid] = 0 /\ ~Carries(Other(n), sid) /\ ~Handles(Other(n), sid)
      BY <2>1, <3>1 DEF Once
    <3> QED BY <1>0, <1>2, <1>3, <3>1, <3>2
  <2> QED BY <2>5, <2>6 DEF Once
<1>9. OneKey'
  <2> SUFFICES ASSUME NEW n \in Node
               PROVE  /\ \A s \in LiveSessions(sm'[n]) : OneTranscript(s)
                      /\ \A msg \in Range(chan'[n]) : msg.type = "RESP" => msg.key = <<msg.sid, 0>>
                      /\ rx'[n].stage = "installed" => rx'[n].key = <<rx'[n].init.sid, 0>>
    BY DEF OneKey, OneTranscript
  <2>1. \A s \in LiveSessions(sm'[n]) : OneTranscript(s)
    BY DEF HInv, OneKey, OrderlyTable
  <2>2. \A msg \in Range(chan'[n]) : msg.type = "RESP" => msg.key = <<msg.sid, 0>>
    BY DEF HInv, OneKey, OrderlyChannel
  <2>3. rx'[n].stage = "installed" => rx'[n].key = <<rx'[n].init.sid, 0>>
    BY DEF HInv, OneKey, OrderlyReceiver
  <2> QED BY <2>1, <2>2, <2>3
<1> QED BY <1>7, <1>8, <1>9 DEF HInv

(* What does not change is orderly.                                        *)
LEMMA SameOrderly ==
  ASSUME Shape, NEW n \in Node
  PROVE  /\ sm'[n] = sm[n] => OrderlyTable(n)
         /\ drv'[n] = drv[n] => OrderlyDriver(n)
         /\ rx'[n] = rx[n] => OrderlyReceiver(n)
         /\ Range(chan'[n]) \subseteq Range(chan[n]) => OrderlyChannel(n)
<1>1. sm'[n] = sm[n] => OrderlyTable(n)
  BY DEF OrderlyTable
<1>2. drv'[n] = drv[n] => OrderlyDriver(n)
  BY DEF OrderlyDriver, Drives
<1>3. rx'[n] = rx[n] => OrderlyReceiver(n)
  BY DEF OrderlyReceiver
<1>4. Range(chan'[n]) \subseteq Range(chan[n]) => OrderlyChannel(n)
  BY DEF OrderlyChannel
<1> QED BY <1>1, <1>2, <1>3, <1>4

(* The thread in handshake_peer moves and sends nothing.                   *)
LEMMA OrderlyDriverStep ==
  ASSUME HInv, setting' = setting, UNCHANGED <<sm, rx, chan, answers, knows, faults>>,
         DriverShape', \A n \in Node : OrderlyDriver(n)
  PROVE  HInv'
<1>1. Shape'
  BY DEF HInv, Shape, TableShape, ReceiverShape
<1>2. \A n \in Node : OrderlyTable(n) /\ OrderlyReceiver(n) /\ OrderlyChannel(n)
  BY SameOrderly DEF HInv
<1> QED BY <1>1, <1>2, OrderlyStep

(* A channel changes, and no INIT is added to it.                          *)
LEMMA OrderlyChannelStep ==
  ASSUME HInv, setting' = setting, UNCHANGED <<sm, drv, rx, answers, knows>>,
         faults' \in 0 .. setting.faults, DriverShape',
         chan' \in [Node -> Seq(Message)], \A n \in Node : OrderlyChannel(n)
  PROVE  HInv'
<1>1. Shape'
  BY DEF HInv, Shape, TableShape, ReceiverShape
<1>2. \A n \in Node : OrderlyTable(n) /\ OrderlyReceiver(n) /\ OrderlyDriver(n)
  BY SameOrderly DEF HInv
<1> QED BY <1>1, <1>2, OrderlyStep

(* A table loses something; the receive thread stays or goes idle.         *)
LEMMA OrderlyTableStep ==
  ASSUME HInv, setting' = setting, UNCHANGED <<hs, drv, chan, answers, knows>>,
         faults' \in 0 .. setting.faults, NEW n \in Node, NEW m,
         TableInv(m), Quietly(m, sm[n]), sm' = [sm EXCEPT ![n] = m],
         rx' = rx \/ rx' = [rx EXCEPT ![n] = Idle]
  PROVE  HInv'
<1>1. /\ DOMAIN sm' = Node /\ sm'[n] = m
      /\ \A p \in Node : p # n => sm'[p] = sm[p]
  BY DEF HInv, Shape, TableShape
<1>2. TableShape'
  BY <1>1 DEF HInv, Shape, TableShape, Quietly, SameCache
<1>3. DOMAIN rx = Node
  BY DEF HInv, Shape, ReceiverShape
<1>4. \A p \in Node : rx'[p] = rx[p] \/ rx'[p] = Idle
  BY <1>3
<1>5. rx' \in [Node -> Receiving]
  <2>1. Idle \in Receiving
    BY DEF Receiving, Idle
  <2> QED BY <2>1 DEF HInv, Shape, ReceiverShape
<1>6. ReceiverShape'
  BY <1>4, <1>5, SMT DEF HInv, Shape, ReceiverShape, Idle
<1>7. Shape'
  BY <1>2, <1>6 DEF HInv, Shape, DriverShape
<1>8. \A p \in Node : OrderlyDriver(p) /\ OrderlyChannel(p)
  BY SameOrderly DEF HInv
<1>9. \A p \in Node : OrderlyTable(p)
  BY <1>1, SameOrderly, SMT DEF HInv, OrderlyTable, Quietly, SameCache
<1>10. \A p \in Node : OrderlyReceiver(p)
  BY <1>4, SMT DEF OrderlyReceiver, Idle
<1> QED BY <1>7, <1>8, <1>9, <1>10, OrderlyStep

-----------------------------------------------------------------------------
(* handshake_peer is entered, woken or left.                               *)
LEMMA DriverMoves ==
  ASSUME HInv, setting' = setting, NEW n \in Node,
         Begin(n) \/ Wake(n) \/ Await(n) \/ EndAwait(n)
  PROVE  HInv'
<1>0. /\ drv \in [Node -> Driving] /\ drv[n] \in Driving /\ knows[n] \in BOOLEAN
      /\ hs \in [Node -> [sid : Sid \cup {0}, done : BOOLEAN, cookie : BOOLEAN, updated : BOOLEAN]]
      /\ \A p \in Node : /\ drv[p].pc \in {"send", "wait"} => drv[p].sends <= setting.sends
                         /\ drv[p].pc = "send" => drv[p].sends < setting.sends
      /\ setting.sends \in Nat
  BY HandshakeAssumption DEF HInv, Shape, DriverShape
<1>1. ASSUME NEW d \in Driving, drv' = [drv EXCEPT ![n] = d],
             d.pc \notin {"reserved", "send", "wait"}
                \/ (d.pc = "send" /\ drv[n].pc = "wait" /\ d.sid = drv[n].sid
                    /\ d.sends < setting.sends),
             hs' \in [Node -> [sid : Sid \cup {0}, done : BOOLEAN, cookie : BOOLEAN, updated : BOOLEAN]]
      PROVE  DriverShape' /\ \A p \in Node : OrderlyDriver(p)
  <2>1. drv' \in [Node -> Driving] /\ drv'[n] = d /\ \A p \in Node : p # n => drv'[p] = drv[p]
    BY <1>0, <1>1
  <2>2. \A p \in Node : /\ drv'[p].pc \in {"send", "wait"} => drv'[p].sends <= setting.sends
                        /\ drv'[p].pc = "send" => drv'[p].sends < setting.sends
    <3> SUFFICES ASSUME NEW p \in Node
                 PROVE  /\ drv'[p].pc \in {"send", "wait"} => drv'[p].sends <= setting.sends
                        /\ drv'[p].pc = "send" => drv'[p].sends < setting.sends
      OBVIOUS
    <3>1. CASE p # n
      BY <1>0, <2>1, <3>1
    <3>2. CASE p = n
      <4>1. d.pc \in {"send", "wait"} => d.sends < setting.sends /\ d.sends \in Nat
        BY <1>1 DEF Driving
      <4> QED BY <1>0, <2>1, <3>2, <4>1, SMTT(30)
    <3> QED BY <3>1, <3>2
  <2>3. DriverShape'
    BY <1>1, <2>1, <2>2 DEF DriverShape
  <2>4. OrderlyDriver(n)
    BY <1>1, <2>1 DEF OrderlyDriver, Drives
  <2>5. \A p \in Node : p # n => OrderlyDriver(p)
    BY <2>1, SameOrderly DEF HInv
  <2> QED BY <2>3, <2>4, <2>5
<1>2. CASE Begin(n)
  <2> DEFINE d == [pc |-> "begun", dest |-> knows[n]]
  <2>1. d \in Driving /\ d.pc = "begun"
    BY <1>0 DEF Driving
  <2>2. drv' = [drv EXCEPT ![n] = d] /\ UNCHANGED <<sm, hs, rx, chan, answers, faults, knows>>
    BY <1>2 DEF Begin
  <2> HIDE DEF d
  <2>3. DriverShape' /\ \A p \in Node : OrderlyDriver(p)
    BY <1>0, <1>1, <2>1, <2>2
  <2> QED BY <2>2, <2>3, OrderlyDriverStep
<1>3. CASE Wake(n)
  <2> DEFINE d == IF hs[n].done \/ drv[n].sends = setting.sends
                  THEN Asleep ELSE [drv[n] EXCEPT !.pc = "send"]
  <2>1. drv[n].pc = "wait" /\ drv' = [drv EXCEPT ![n] = d]
        /\ UNCHANGED <<sm, hs, rx, chan, answers, faults, knows>>
    BY <1>0, <1>3 DEF Wake
  <2>2. /\ d \in Driving
        /\ \/ d.pc = "idle"
           \/ d.pc = "send" /\ d.sid = drv[n].sid /\ d.sends = drv[n].sends
              /\ drv[n].sends # setting.sends
    BY <1>0, <2>1 DEF Driving, Asleep
  <2>3. drv[n].sends \in Nat
    BY <1>0, <2>1 DEF Driving
  <2> HIDE DEF d
  <2>4. \/ d.pc = "idle"
        \/ d.pc = "send" /\ d.sid = drv[n].sid /\ d.sends < setting.sends
    <3>1. drv[n].sends <= setting.sends
      BY <1>0, <2>1
    <3>2. drv[n].sends # setting.sends => drv[n].sends < setting.sends
      <4>1. setting.sends \in Nat
        BY <1>0
      <4> QED BY <2>3, <3>1, <4>1, SMT
    <3> QED BY <2>2, <3>2
  <2>5. DriverShape' /\ \A p \in Node : OrderlyDriver(p)
    BY <1>0, <1>1, <2>1, <2>2, <2>4
  <2> QED BY <2>1, <2>5, OrderlyDriverStep
<1>4. CASE Await(n)
  <2> DEFINE d == IF Connected(n) THEN Asleep ELSE [pc |-> "await"]
  <2>1. /\ drv' = [drv EXCEPT ![n] = d] /\ hs' = [hs EXCEPT ![n].done = FALSE]
        /\ UNCHANGED <<sm, rx, chan, answers, faults, knows>>
    BY <1>4 DEF Await
  <2>2. d \in Driving /\ d.pc \in {"idle", "await"}
    BY DEF Driving, Asleep
  <2>3. hs' \in [Node -> [sid : Sid \cup {0}, done : BOOLEAN, cookie : BOOLEAN, updated : BOOLEAN]]
    BY <1>0, <2>1
  <2> HIDE DEF d
  <2>4. DriverShape' /\ \A p \in Node : OrderlyDriver(p)
    BY <1>1, <2>1, <2>2, <2>3
  <2> QED BY <2>1, <2>4, OrderlyDriverStep
<1>5. CASE EndAwait(n)
  <2>1. Asleep \in Driving /\ Asleep.pc = "idle"
    BY DEF Driving, Asleep
  <2>2. drv' = [drv EXCEPT ![n] = Asleep] /\ UNCHANGED <<sm, hs, rx, chan, answers, faults, knows>>
    BY <1>5 DEF EndAwait
  <2>3. DriverShape' /\ \A p \in Node : OrderlyDriver(p)
    BY <1>0, <1>1, <2>1, <2>2
  <2> QED BY <2>2, <2>3, OrderlyDriverStep
<1> QED BY <1>2, <1>3, <1>4, <1>5

(* A datagram is challenged, dropped by its handler, sent, lost, repeated  *)
(* or delayed.                                                             *)
LEMMA ChannelMoves ==
  ASSUME HInv, setting' = setting, NEW n \in Node,
         \/ Challenge(n) \/ ReceiveCookie(n) \/ ReceiveData(n) \/ SendData(n)
         \/ \E i \in DOMAIN chan[n] : Lose(n, i) \/ Repeat(n, i) \/ Overtake(n, i)
  PROVE  HInv'
<1>0. Other(n) \in Node /\ Other(n) # n
  BY TwoNodes
<1>1. /\ chan \in [Node -> Seq(Message)] /\ \A p \in Node : chan[p] \in Seq(Message)
      /\ faults \in 0 .. setting.faults /\ setting.faults \in Nat
  BY HandshakeAssumption DEF HInv, Shape, ReceiverShape
<1>2. hs' = hs /\ drv' = drv => DriverShape'
  BY DEF HInv, Shape, DriverShape
<1>3. ASSUME NEW s \in Seq(Message), Range(s) \subseteq Range(chan[n]),
             chan' = [chan EXCEPT ![n] = s]
      PROVE  chan' \in [Node -> Seq(Message)] /\ \A p \in Node : OrderlyChannel(p)
  <2>1. /\ chan' \in [Node -> Seq(Message)]
        /\ \A p \in Node : Range(chan'[p]) \subseteq Range(chan[p])
    BY <1>1, <1>3
  <2> QED BY <2>1, SameOrderly DEF HInv
<1>4. ASSUME NEW s \in Seq(Message), Range(s) \subseteq Range(chan[n]),
             NEW msg \in Message, msg.type \in {"COOKIE", "DATA"},
             \/ chan' = [chan EXCEPT ![n] = s, ![Other(n)] = Append(@, msg)]
             \/ chan' = [chan EXCEPT ![Other(n)] = Append(@, msg)]
      PROVE  chan' \in [Node -> Seq(Message)] /\ \A p \in Node : OrderlyChannel(p)
  <2> DEFINE a == Append(chan[Other(n)], msg)
  <2>1. a \in Seq(Message) /\ Range(a) \subseteq Range(chan[Other(n)]) \cup {msg}
    BY <1>0, <1>1, ChannelAppend
  <2>2. chan' = [chan EXCEPT ![n] = s, ![Other(n)] = a] \/ chan' = [chan EXCEPT ![Other(n)] = a]
    BY <1>0, <1>1, <1>4
  <2> HIDE DEF a
  <2>3. /\ chan' \in [Node -> Seq(Message)] /\ chan'[Other(n)] = a
        /\ \A p \in Node : p # Other(n) => Range(chan'[p]) \subseteq Range(chan[p])
    BY <1>0, <1>1, <1>4, <2>1, <2>2
  <2>4. OrderlyChannel(Other(n))
    BY <1>4, <2>1, <2>3 DEF OrderlyChannel
  <2>5. \A p \in Node : p # Other(n) => OrderlyChannel(p)
    BY <2>3, SameOrderly DEF HInv
  <2> QED BY <2>3, <2>4, <2>5
<1>5. ASSUME NEW type, Take(n, type)
      PROVE  /\ Head(chan[n]) \in Message /\ Tail(chan[n]) \in Seq(Message)
             /\ Range(Tail(chan[n])) \subseteq Range(chan[n])
  BY <1>1, <1>5, ChannelTail DEF Take
<1>6. CASE Challenge(n)
  <2> DEFINE msg == CookieMsg(Head(chan[n]).sid)
  <2>1. Take(n, "INIT")
    BY <1>6 DEF Challenge
  <2>2. Head(chan[n]) \in Message /\ Tail(chan[n]) \in Seq(Message)
        /\ Range(Tail(chan[n])) \subseteq Range(chan[n])
    BY <1>5, <2>1
  <2>3. Head(chan[n]).sid \in Sid
    BY <2>2 DEF Message
  <2>4. msg \in Message /\ msg.type \in {"COOKIE", "DATA"}
    BY <2>3 DEF CookieMsg, Message
  <2>5. /\ chan' = [chan EXCEPT ![n] = Tail(chan[n]), ![Other(n)] = Append(@, msg)]
        /\ UNCHANGED <<sm, hs, drv, rx, answers, faults, knows>>
    BY <1>1, <1>6 DEF Challenge
  <2> HIDE DEF msg
  <2>6. chan' \in [Node -> Seq(Message)] /\ \A p \in Node : OrderlyChannel(p)
    BY <1>4, <2>2, <2>4, <2>5
  <2> QED BY <1>1, <1>2, <2>5, <2>6, OrderlyChannelStep
<1>7. CASE ReceiveCookie(n)
  <2>1. Take(n, "COOKIE") /\ chan' = [chan EXCEPT ![n] = Tail(chan[n])]
        /\ UNCHANGED <<sm, drv, rx, answers, faults, knows>>
    BY <1>1, <1>7 DEF ReceiveCookie
  <2> DEFINE Entry == [sid : Sid \cup {0}, done : BOOLEAN, cookie : BOOLEAN, updated : BOOLEAN]
             e == [hs[n] EXCEPT !.cookie = TRUE, !.updated = TRUE]
  <2>2. hs' = hs \/ hs' = [hs EXCEPT ![n] = e]
    <3>1. DOMAIN hs = Node
      BY DEF HInv, Shape, DriverShape
    <3> QED BY <1>7, <3>1 DEF ReceiveCookie
  <2>7. hs \in [Node -> Entry] /\ hs[n] \in Entry
    BY DEF HInv, Shape, DriverShape
  <2>8. e \in Entry
    BY <2>7
  <2> HIDE DEF e
  <2>3. hs' \in [Node -> [sid : Sid \cup {0}, done : BOOLEAN, cookie : BOOLEAN, updated : BOOLEAN]]
    BY <2>2, <2>7, <2>8
  <2>4. DriverShape'
    BY <2>1, <2>3 DEF HInv, Shape, DriverShape
  <2>5. Tail(chan[n]) \in Seq(Message) /\ Range(Tail(chan[n])) \subseteq Range(chan[n])
    BY <1>5, <2>1
  <2>6. chan' \in [Node -> Seq(Message)] /\ \A p \in Node : OrderlyChannel(p)
    BY <1>3, <2>1, <2>5
  <2> QED BY <1>1, <2>1, <2>4, <2>6, OrderlyChannelStep
<1>8. CASE ReceiveData(n)
  <2>1. Take(n, "DATA") /\ chan' = [chan EXCEPT ![n] = Tail(chan[n])]
        /\ UNCHANGED <<sm, hs, drv, rx, answers, faults, knows>>
    BY <1>1, <1>8 DEF ReceiveData
  <2>2. Tail(chan[n]) \in Seq(Message) /\ Range(Tail(chan[n])) \subseteq Range(chan[n])
    BY <1>5, <2>1
  <2>3. chan' \in [Node -> Seq(Message)] /\ \A p \in Node : OrderlyChannel(p)
    BY <1>3, <2>1, <2>2, ZenonT(30)
  <2> QED BY <1>1, <1>2, <2>1, <2>3, OrderlyChannelStep
<1>9. CASE SendData(n)
  <2> DEFINE s == sm[n].sessions[Other(n)]
             msg == DataMsg(s.id, s.key)
  <2>1. /\ chan' = [chan EXCEPT ![Other(n)] = Append(@, msg)] /\ Connected(n)
        /\ UNCHANGED <<sm, hs, drv, rx, answers, faults, knows>>
    BY <1>9 DEF SendData
  <2>2. s \in Session
    BY <2>1, ZenonT(30) DEF HInv, Shape, TableShape, TableInv, TableType, Connected
  <2>3. s.id \in Sid /\ s.key \in Key
    BY <2>2 DEF Session
  <2> HIDE DEF s
  <2>4. msg \in Message /\ msg.type \in {"COOKIE", "DATA"}
    BY <2>3 DEF DataMsg, Message
  <2> HIDE DEF msg
  <2>5. chan' \in [Node -> Seq(Message)] /\ \A p \in Node : OrderlyChannel(p)
    BY <1>1, <1>4, <2>1, <2>4
  <2> QED BY <1>1, <1>2, <2>1, <2>5, OrderlyChannelStep
<1>10. ASSUME NEW i \in DOMAIN chan[n], Lose(n, i) \/ Repeat(n, i) \/ Overtake(n, i)
       PROVE  HInv'
  <2>1. faults' \in 0 .. setting.faults /\ UNCHANGED <<sm, hs, drv, rx, answers, knows>>
    BY <1>1, <1>10, SMT DEF Lose, Repeat, Overtake
  <2> DEFINE s == chan[n]
  <2>2. s \in Seq(Message)
    BY <1>1
  <2>3. /\ s[i] \in Message /\ s[i] \in Range(s)
        /\ Cut(s, i) \in Seq(Message) /\ Range(Cut(s, i)) \subseteq Range(s)
        /\ <<s[i]>> \o Cut(s, i) \in Seq(Message)
        /\ Range(<<s[i]>> \o Cut(s, i)) \subseteq Range(s)
    BY <1>10, <2>2, ChannelFault
  <2>4. Append(s, s[i]) \in Seq(Message) /\ Range(Append(s, s[i])) \subseteq Range(s)
    BY <2>2, <2>3, ChannelAppend, SMTT(30)
  <2>5. \/ chan' = [chan EXCEPT ![n] = Cut(s, i)]
        \/ chan' = [chan EXCEPT ![n] = Append(s, s[i])]
        \/ chan' = [chan EXCEPT ![n] = <<s[i]>> \o Cut(s, i)]
    BY <1>1, <1>10 DEF Lose, Repeat, Overtake
  <2>6. chan' \in [Node -> Seq(Message)] /\ \A p \in Node : OrderlyChannel(p)
    BY <1>3, <2>3, <2>4, <2>5
  <2> QED BY <1>2, <2>1, <2>6, OrderlyChannelStep
<1> QED BY <1>6, <1>7, <1>8, <1>9, <1>10
=============================================================================
