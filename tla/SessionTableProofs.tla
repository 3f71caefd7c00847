------------------------- MODULE SessionTableProofs -------------------------
(***************************************************************************)
(* Every critical section of session.cpp keeps the tables of the manager   *)
(* consistent, for all node ids, session ids, capacities and time-outs.    *)
(***************************************************************************)
EXTENDS SessionTable, FiniteSetTheorems, WellFoundedInduction, NaturalsInduction, TLAPS

(* Most leaves are steps of logic and sets, for Zenon; those that need     *)
(* arithmetic, or more of functions and records, name SMT.                 *)
USE Zenon

(* update_replay returns a window.                                         *)
LEMMA UpdateType ==
  ASSUME NEW w \in Window, NEW s \in Nat, CheckReplay(w, s)
  PROVE  UpdateReplay(w, s) \in Window
BY ReplayBitsAssumption, SMT DEF Window, CheckReplay, UpdateReplay, ShiftBits

(* Once update_replay has recorded a number, check_replay refuses it.      *)
LEMMA UpdateRefuses ==
  ASSUME NEW w \in Window, NEW s \in Nat, CheckReplay(w, s)
  PROVE  ~CheckReplay(UpdateReplay(w, s), s)
BY ReplayBitsAssumption, SMT DEF Window, CheckReplay, UpdateReplay, ShiftBits

(* What check_replay refuses it refuses for ever: no later update_replay   *)
(* makes a refused number acceptable again.                                *)
LEMMA UpdateKeepsRefusing ==
  ASSUME NEW w \in Window, NEW s \in Nat, NEW q \in Nat,
         CheckReplay(w, s), ~CheckReplay(w, q)
  PROVE  ~CheckReplay(UpdateReplay(w, s), q)
BY ReplayBitsAssumption, SMT DEF Window, CheckReplay, UpdateReplay, ShiftBits

(* A purge only removes entries.                                           *)
LEMMA LiveFacts ==
  ASSUME NEW f, NEW t
  PROVE  /\ DOMAIN Live(f, t) \subseteq DOMAIN f
         /\ \A x \in DOMAIN Live(f, t) : Live(f, t)[x] = f[x]
BY DEF Live, Restrict

(* The sessions of a table are sessions.                                   *)
LEMMA LiveTyped ==
  ASSUME NEW m, TableType(m), NEW s \in LiveSessions(m)
  PROVE  s \in Session
<1>1. /\ \A p \in DOMAIN m.sessions : m.sessions[p] \in Session
      /\ \A i \in DOMAIN m.retired : m.retired[i] \in [session : Session, expires : Nat]
  BY DEF TableType
<1>2. \A i \in DOMAIN m.retired : m.retired[i].session \in Session
  BY <1>1
<1> QED BY <1>1, <1>2 DEF LiveSessions

(* A non-empty set of naturals has a least element.                        *)
LEMMA LeastNat ==
  ASSUME NEW S \in SUBSET Nat, S # {}
  PROVE  \E x \in S : \A y \in S : x <= y
<1> DEFINE R == OpToRel(<, Nat)
<1>1. PICK x \in S : \A y \in S : ~(<<y, x>> \in R)
  BY NatLessThanWellFounded, WFMin
<1>2. \A y \in S : y < x => <<y, x>> \in R
  BY DEF OpToRel
<1>3. \A y \in S : ~(y < x)
  BY <1>1, <1>2
<1> HIDE DEF R
<1> QED BY <1>3, SMT

-----------------------------------------------------------------------------
FiniteTables(m) ==
  /\ IsFiniteSet(DOMAIN m.sessions)
  /\ IsFiniteSet(DOMAIN m.retired)
  /\ IsFiniteSet(DOMAIN m.pending)

TableInv(m) ==
  /\ TableType(m)
  /\ ByIdInverse(m)
  /\ SidsDisjoint(m)
  /\ RetiredHasSuccessor(m)
  /\ FiniteTables(m)
  /\ WithinCapacity(m)

(* A table of which only pending_initiators_ changed, and shrank.          *)
LEMMA FewerPending ==
  ASSUME NEW m, TableInv(m), NEW f, DOMAIN f \subseteq DOMAIN m.pending,
         \A s \in DOMAIN f : f[s] = m.pending[s]
  PROVE  TableInv([m EXCEPT !.pending = f])
<1> DEFINE n == [m EXCEPT !.pending = f]
<1>1. /\ DOMAIN n = DOMAIN m /\ n.sessions = m.sessions /\ n.byId = m.byId
      /\ n.retired = m.retired /\ n.replays = m.replays /\ n.pending = f
  BY DEF TableInv, TableType
<1> HIDE DEF n
<1>2. TableType(n) /\ ByIdInverse(n) /\ SidsDisjoint(n) /\ RetiredHasSuccessor(n)
  BY <1>1, SMT DEF TableInv, TableType, ByIdInverse, SidsDisjoint, RetiredHasSuccessor
<1>3. FiniteTables(n) /\ WithinCapacity(n)
  BY <1>1, FS_Subset, FS_CardinalityType, TableAssumption, SMT
     DEF TableInv, FiniteTables, WithinCapacity
<1>4. TableInv(n) BY <1>2, <1>3 DEF TableInv
<1> QED BY <1>4 DEF n

(* Purging expired initiations keeps the tables' invariant.                *)
LEMMA PurgePendingInv ==
  ASSUME NEW m, TableInv(m), NEW t PROVE TableInv(PurgePending(m, t))
BY FewerPending, LiveFacts DEF PurgePending

(* A table of which only retired_ changed, and shrank.                     *)
LEMMA PurgeRetiredInv ==
  ASSUME NEW m, TableInv(m), NEW t PROVE TableInv(PurgeRetired(m, t))
<1> DEFINE n == PurgeRetired(m, t)
<1>1. /\ DOMAIN n = DOMAIN m /\ n.sessions = m.sessions /\ n.byId = m.byId
      /\ n.pending = m.pending /\ n.replays = m.replays
      /\ n.retired = Live(m.retired, t)
  BY DEF TableInv, TableType, PurgeRetired
<1>2. /\ DOMAIN n.retired \subseteq DOMAIN m.retired
      /\ \A s \in DOMAIN n.retired : n.retired[s] = m.retired[s]
  BY <1>1, LiveFacts, SMT
<1> HIDE DEF n
<1>3. TableType(n) /\ ByIdInverse(n) /\ SidsDisjoint(n) /\ RetiredHasSuccessor(n)
  BY <1>1, <1>2, SMT DEF TableInv, TableType, ByIdInverse, SidsDisjoint, RetiredHasSuccessor
<1>4. FiniteTables(n) /\ WithinCapacity(n)
  BY <1>1, <1>2, FS_Subset, FS_CardinalityType, TableAssumption, SMT
     DEF TableInv, FiniteTables, WithinCapacity
<1>5. TableInv(n) BY <1>3, <1>4 DEF TableInv
<1> QED BY <1>5 DEF n

(* A table of which only handshake_replays_ changed.                       *)
LEMMA OtherReplays ==
  ASSUME NEW m, TableInv(m), NEW f, DOMAIN f \subseteq InitFrame,
         \A i \in DOMAIN f : f[i] \in [expires : Nat]
  PROVE  TableInv([m EXCEPT !.replays = f])
<1> DEFINE n == [m EXCEPT !.replays = f]
<1>1. /\ DOMAIN n = DOMAIN m /\ n.sessions = m.sessions /\ n.byId = m.byId
      /\ n.retired = m.retired /\ n.pending = m.pending /\ n.replays = f
  BY DEF TableInv, TableType
<1> HIDE DEF n
<1>2. TableInv(n)
  BY <1>1 DEF TableInv, TableType, ByIdInverse, SidsDisjoint, RetiredHasSuccessor,
              FiniteTables, WithinCapacity
<1> QED BY <1>2 DEF n

(* Purging the replay cache keeps the tables' invariant.                   *)
LEMMA PurgeReplaysInv ==
  ASSUME NEW m, TableInv(m), NEW t PROVE TableInv(PurgeReplays(m, t))
BY OtherReplays, LiveFacts, SMT DEF PurgeReplays, TableInv, TableType

(* retire_session_locked finds a victim whenever the table is not empty,   *)
(* and no entry expires before it.                                         *)
LEMMA VictimLeast ==
  ASSUME NEW r, DOMAIN r # {}, DOMAIN r \subseteq Nat,
         \A x \in DOMAIN r : r[x].expires \in Nat
  PROVE  /\ EvictionVictim(r) \in DOMAIN r
         /\ \A u \in DOMAIN r : r[EvictionVictim(r)].expires <= r[u].expires
<1> DEFINE E == {r[x].expires : x \in DOMAIN r}
           Least(w) == \A u \in DOMAIN r : \/ r[w].expires < r[u].expires
                                           \/ r[w].expires = r[u].expires /\ w <= u
<1>1. PICK e \in E : \A y \in E : e <= y
  BY LeastNat
<1> DEFINE S == {x \in DOMAIN r : r[x].expires = e}
<1>2. PICK v \in S : \A y \in S : v <= y
  BY LeastNat
<1>3. v \in DOMAIN r /\ Least(v)
  BY <1>1, <1>2, SMT
<1>4. EvictionVictim(r) \in DOMAIN r /\ Least(EvictionVictim(r))
  BY <1>3 DEF EvictionVictim
<1> QED BY <1>4, SMT

(* retire_session_locked adds at most the session it is given, keeps the   *)
(* others unchanged and respects the cap.                                  *)
LEMMA RetireFacts ==
  ASSUME NEW f, NEW s \in Session, NEW t \in Nat,
         DOMAIN f \subseteq Sid, IsFiniteSet(DOMAIN f),
         Cardinality(DOMAIN f) <= RetiredCap, s.id \notin DOMAIN f,
         \A x \in DOMAIN f : f[x] \in [session : Session, expires : Nat]
  PROVE  LET r == Retire(f, s, t)
         IN  /\ DOMAIN r \subseteq DOMAIN f \cup {s.id}
             /\ \A x \in DOMAIN r : x # s.id => r[x] = f[x]
             /\ s.id \in DOMAIN r => r[s.id] = [session |-> s, expires |-> t + RetiredGrace]
             /\ IsFiniteSet(DOMAIN r)
             /\ Cardinality(DOMAIN r) <= RetiredCap
<1> DEFINE l == Live(f, t)
           room == IF s.id \notin DOMAIN l /\ Cardinality(DOMAIN l) >= RetiredCap
                   THEN Without(l, {EvictionVictim(l)}) ELSE l
           new == [session |-> s, expires |-> t + RetiredGrace]
<1>1. DOMAIN l \subseteq DOMAIN f /\ \A x \in DOMAIN l : l[x] = f[x]
  BY LiveFacts
<1>2. IsFiniteSet(DOMAIN l) /\ Cardinality(DOMAIN l) \in Nat
      /\ Cardinality(DOMAIN l) <= RetiredCap
  BY <1>1, FS_Subset, FS_CardinalityType, TableAssumption, SMT
<1>3. Retire(f, s, t) = IF RetiredCap = 0 THEN l ELSE Put(room, s.id, new)
  BY DEF Retire
<1>4. CASE RetiredCap = 0
  BY <1>1, <1>2, <1>3, <1>4
<1>5. CASE RetiredCap # 0
  <2>1. /\ DOMAIN room \subseteq DOMAIN l
        /\ \A x \in DOMAIN room : room[x] = l[x]
        /\ IsFiniteSet(DOMAIN room)
        /\ Cardinality(DOMAIN room) + 1 <= RetiredCap
    <3>1. CASE Cardinality(DOMAIN l) >= RetiredCap
      <4>1. s.id \notin DOMAIN l
        BY <1>1
      <4>2. DOMAIN l # {}
        BY <1>2, <1>5, <3>1, FS_EmptySet, TableAssumption, SMT
      <4>3. EvictionVictim(l) \in DOMAIN l
        BY <1>1, <4>2, VictimLeast, TableAssumption
      <4>4. room = Without(l, {EvictionVictim(l)})
        BY <3>1, <4>1
      <4> HIDE DEF l, room
      <4>5. /\ DOMAIN room = DOMAIN l \ {EvictionVictim(l)}
            /\ \A x \in DOMAIN room : room[x] = l[x]
        BY <4>4 DEF Without, Restrict
      <4>6. /\ IsFiniteSet(DOMAIN room)
            /\ Cardinality(DOMAIN room) = Cardinality(DOMAIN l) - 1
        BY <1>2, <4>3, <4>5, FS_RemoveElement, SMT
      <4> QED BY <1>2, <4>5, <4>6, TableAssumption, SMT
    <3>2. CASE ~(Cardinality(DOMAIN l) >= RetiredCap)
      BY <1>2, <3>2, TableAssumption, SMT
    <3> QED BY <3>1, <3>2
  <2> HIDE DEF room, l, new
  <2>2. s.id \notin DOMAIN room
    BY <1>1, <2>1
  <2>3. Retire(f, s, t) = Put(room, s.id, new)
    BY <1>3, <1>5
  <2>4. /\ DOMAIN Put(room, s.id, new) = DOMAIN room \cup {s.id}
        /\ Put(room, s.id, new)[s.id] = new
        /\ \A x \in DOMAIN room : x # s.id => Put(room, s.id, new)[x] = room[x]
    BY DEF Put
  <2>5. /\ IsFiniteSet(DOMAIN room \cup {s.id})
        /\ Cardinality(DOMAIN room \cup {s.id}) <= RetiredCap
    <3>1. /\ IsFiniteSet(DOMAIN room \cup {s.id})
          /\ Cardinality(DOMAIN room \cup {s.id}) = Cardinality(DOMAIN room) + 1
      BY <2>1, <2>2, FS_AddElement
    <3> QED BY <2>1, <3>1
  <2> QED BY <1>1, <2>1, <2>3, <2>4, <2>5 DEF new
<1> QED BY <1>4, <1>5

(* create_session and install_noise_keys, for an id that is new and a peer *)
(* there is room for, keep the tables consistent.                          *)
LEMMA CreateSessionInv ==
  ASSUME NEW m, TableInv(m), NEW peer \in Node, NEW sid \in Sid, NEW key \in Key,
         NEW local \in BOOLEAN, NEW t \in Nat,
         ~KnownSid(m, sid), ~ActiveFull(m, peer)
  PROVE  TableInv(CreateSession(m, peer, sid, key, local, t))
<1> DEFINE had == peer \in DOMAIN m.sessions
           old == m.sessions[peer]
           new == [id |-> sid, peer |-> peer, local |-> local, key |-> key,
                   seq |-> 0, win |-> EmptyWindow]
           n == CreateSession(m, peer, sid, key, local, t)
<1>1. /\ DOMAIN n = DOMAIN m /\ n.pending = m.pending /\ n.replays = m.replays
      /\ n.retired = IF had THEN Retire(m.retired, old, t) ELSE m.retired
      /\ n.byId = Put(IF had THEN Without(m.byId, {old.id}) ELSE m.byId, sid, peer)
      /\ n.sessions = Put(m.sessions, peer, new)
  BY DEF TableInv, TableType, CreateSession
<1>2. new \in Session
  BY ReplayBitsAssumption DEF Session, Window, EmptyWindow
<1>3. /\ DOMAIN n.sessions = DOMAIN m.sessions \cup {peer}
      /\ n.sessions[peer] = new
      /\ \A p \in DOMAIN m.sessions : p # peer => n.sessions[p] = m.sessions[p]
  BY <1>1 DEF Put
<1>4. /\ DOMAIN n.byId = {sid} \cup (IF had THEN DOMAIN m.byId \ {old.id} ELSE DOMAIN m.byId)
      /\ n.byId[sid] = peer
      /\ \A s \in DOMAIN n.byId : s # sid => n.byId[s] = m.byId[s]
  BY <1>1 DEF Put, Without, Restrict
<1>5. had => old \in Session /\ old.id \in DOMAIN m.byId /\ m.byId[old.id] = peer
             /\ old.peer = peer
  BY DEF TableInv, TableType, ByIdInverse
<1>6. /\ DOMAIN n.retired \subseteq DOMAIN m.retired \cup (IF had THEN {old.id} ELSE {})
      /\ \A s \in DOMAIN n.retired : s \in DOMAIN m.retired => n.retired[s] = m.retired[s]
      /\ had /\ old.id \in DOMAIN n.retired =>
           n.retired[old.id] = [session |-> old, expires |-> t + RetiredGrace]
      /\ IsFiniteSet(DOMAIN n.retired)
      /\ Cardinality(DOMAIN n.retired) <= RetiredCap
  <2>1. CASE had
    <3>1. old.id \notin DOMAIN m.retired
      BY <1>5, <2>1 DEF TableInv, SidsDisjoint
    <3> QED
      BY <1>1, <1>5, <2>1, <3>1, RetireFacts, SMT
         DEF TableInv, TableType, FiniteTables, WithinCapacity
  <2>2. CASE ~had
    BY <1>1, <2>2 DEF TableInv, FiniteTables, WithinCapacity
  <2> QED BY <2>1, <2>2
<1>7. sid \notin DOMAIN m.byId /\ sid \notin DOMAIN m.retired /\ sid \notin DOMAIN m.pending
  BY DEF KnownSid
<1>8. /\ new.id = sid /\ new.peer = peer
  OBVIOUS
<1> HIDE DEF n, new
<1>9. TableType(n)
  <2>1. /\ DOMAIN n.sessions \subseteq Node
        /\ \A p \in DOMAIN n.sessions : n.sessions[p] \in Session
    BY <1>2, <1>3 DEF TableInv, TableType
  <2>2. /\ DOMAIN n.byId \subseteq Sid
        /\ \A s \in DOMAIN n.byId : n.byId[s] \in Node
    BY <1>4 DEF TableInv, TableType
  <2>3. had => old.id \in Sid
    BY <1>5 DEF Session
  <2>4. /\ DOMAIN n.retired \subseteq Sid
        /\ \A s \in DOMAIN n.retired : n.retired[s] \in [session : Session, expires : Nat]
    <3>1. t + RetiredGrace \in Nat
      BY TableAssumption, SMT
    <3> QED BY <1>5, <1>6, <2>3, <3>1, SMT DEF TableInv, TableType
  <2> QED BY <1>1, <2>1, <2>2, <2>4 DEF TableInv, TableType
<1>10. ByIdInverse(n)
  BY <1>3, <1>4, <1>5, <1>7, <1>8, SMT DEF TableInv, ByIdInverse
<1>11. SidsDisjoint(n)
  <2>1. n.pending = m.pending
    BY <1>1
  <2>2. had => old.id \notin DOMAIN m.pending /\ old.id \notin DOMAIN m.retired
               /\ old.id # sid
    BY <1>5, <1>7 DEF TableInv, SidsDisjoint
  <2>3. DOMAIN n.byId \cap DOMAIN n.retired = {}
    BY <1>4, <1>6, <1>7, <2>2 DEF TableInv, SidsDisjoint
  <2>4. /\ DOMAIN n.byId \cap DOMAIN n.pending = {}
        /\ DOMAIN n.retired \cap DOMAIN n.pending = {}
    BY <1>4, <1>6, <1>7, <2>1, <2>2, SMT DEF TableInv, SidsDisjoint
  <2>5. \A s \in DOMAIN n.retired : n.retired[s].session.id = s
    BY <1>6, SMT DEF TableInv, SidsDisjoint
  <2> QED BY <2>3, <2>4, <2>5 DEF SidsDisjoint
<1>12. RetiredHasSuccessor(n)
  BY <1>3, <1>5, <1>6, SMT DEF TableInv, RetiredHasSuccessor
<1>13. IsFiniteSet(DOMAIN n.sessions) /\ Cardinality(DOMAIN n.sessions) <= ActiveCap
  <2>1. IsFiniteSet(DOMAIN m.sessions) /\ Cardinality(DOMAIN m.sessions) \in Nat
        /\ Cardinality(DOMAIN m.sessions) <= ActiveCap
    BY FS_CardinalityType DEF TableInv, FiniteTables, WithinCapacity
  <2>2. CASE had
    <3>1. DOMAIN n.sessions = DOMAIN m.sessions
      BY <1>3, <2>2
    <3> QED BY <2>1, <3>1
  <2>3. CASE ~had
    <3>1. Cardinality(DOMAIN m.sessions) < ActiveCap
      BY <2>1, <2>3, TableAssumption, SMT DEF ActiveFull
    <3>2. /\ IsFiniteSet(DOMAIN m.sessions \cup {peer})
          /\ Cardinality(DOMAIN m.sessions \cup {peer}) = Cardinality(DOMAIN m.sessions) + 1
      BY <2>1, <2>3, FS_AddElement
    <3> QED BY <1>3, <2>1, <3>1, <3>2, TableAssumption, SMT
  <2> QED BY <2>2, <2>3
<1>14. FiniteTables(n) /\ WithinCapacity(n)
  BY <1>1, <1>6, <1>13 DEF TableInv, FiniteTables, WithinCapacity
<1>15. TableInv(n)
  BY <1>9, <1>10, <1>11, <1>12, <1>14 DEF TableInv
<1> QED BY <1>15 DEF n

(* create_handshake_init keeps the tables consistent.                      *)
LEMMA CreateHandshakeInitInv ==
  ASSUME NEW m0, TableInv(m0), NEW peer \in Node, NEW sid \in Sid, NEW t \in Nat
  PROVE  TableInv(CreateHandshakeInit(m0, peer, sid, t).m)
<1> DEFINE m == PurgePending(m0, t)
           e == [peer |-> peer, expires |-> t + HandshakeTimeout]
           n == [m EXCEPT !.pending = Put(@, sid, e)]
<1>1. TableInv(m)
  BY PurgePendingInv
<1> HIDE DEF m
<1>2. ASSUME ~KnownSid(m, sid), ~(Cardinality(DOMAIN m.pending) >= PendingCap)
      PROVE  TableInv(n)
  <2>1. /\ DOMAIN n = DOMAIN m /\ n.sessions = m.sessions /\ n.byId = m.byId
        /\ n.retired = m.retired /\ n.replays = m.replays
        /\ n.pending = Put(m.pending, sid, e)
    BY <1>1 DEF TableInv, TableType
  <2>2. /\ DOMAIN n.pending = DOMAIN m.pending \cup {sid}
        /\ n.pending[sid] = e
        /\ \A s \in DOMAIN m.pending : s # sid => n.pending[s] = m.pending[s]
    BY <2>1 DEF Put
  <2>3. e \in [peer : Node, expires : Nat]
    BY TableAssumption, SMT
  <2> HIDE DEF n, e
  <2>4. TableType(n) /\ ByIdInverse(n) /\ RetiredHasSuccessor(n)
    BY <1>1, <2>1, <2>2, <2>3, SMT
       DEF TableInv, TableType, ByIdInverse, RetiredHasSuccessor
  <2>5. SidsDisjoint(n)
    BY <1>1, <1>2, <2>1, <2>2 DEF TableInv, SidsDisjoint, KnownSid
  <2>6. /\ IsFiniteSet(DOMAIN n.pending)
        /\ Cardinality(DOMAIN n.pending) <= PendingCap
    <3>1. IsFiniteSet(DOMAIN m.pending) /\ Cardinality(DOMAIN m.pending) \in Nat
      BY <1>1, FS_CardinalityType DEF TableInv, FiniteTables
    <3>2. sid \notin DOMAIN m.pending
      BY <1>2 DEF KnownSid
    <3>3. /\ IsFiniteSet(DOMAIN m.pending \cup {sid})
          /\ Cardinality(DOMAIN m.pending \cup {sid}) = Cardinality(DOMAIN m.pending) + 1
      BY <3>1, <3>2, FS_AddElement
    <3> QED BY <1>2, <2>2, <3>1, <3>3, TableAssumption, SMT
  <2>7. FiniteTables(n) /\ WithinCapacity(n)
    BY <1>1, <2>1, <2>6 DEF TableInv, FiniteTables, WithinCapacity
  <2> QED BY <2>4, <2>5, <2>7 DEF TableInv
<1>3. CreateHandshakeInit(m0, peer, sid, t).m =
        IF KnownSid(m, sid) \/ Cardinality(DOMAIN m.pending) >= PendingCap
        THEN m ELSE n
  BY DEF CreateHandshakeInit, Outcome, m
<1> HIDE DEF n
<1> QED BY <1>1, <1>2, <1>3

(* remove_session keeps the tables consistent.                             *)
LEMMA RemoveSessionInv ==
  ASSUME NEW m, TableInv(m), NEW peer \in Node
  PROVE  TableInv(RemoveSession(m, peer))
<1> DEFINE active == IF peer \in DOMAIN m.sessions THEN {m.sessions[peer].id} ELSE {}
           n == RemoveSession(m, peer)
<1>1. /\ DOMAIN n = DOMAIN m /\ n.replays = m.replays
      /\ n.sessions = Without(m.sessions, {peer})
      /\ n.byId = Without(m.byId, active)
      /\ n.retired = Without(m.retired, active \cup
                       {s \in DOMAIN m.retired : m.retired[s].session.peer = peer})
      /\ n.pending = Without(m.pending, {s \in DOMAIN m.pending : m.pending[s].peer = peer})
  BY DEF TableInv, TableType, RemoveSession
<1>2. /\ DOMAIN n.sessions = DOMAIN m.sessions \ {peer}
      /\ \A p \in DOMAIN n.sessions : n.sessions[p] = m.sessions[p]
  BY <1>1 DEF Without, Restrict
<1>3. /\ DOMAIN n.byId = DOMAIN m.byId \ active
      /\ \A s \in DOMAIN n.byId : n.byId[s] = m.byId[s]
  BY <1>1 DEF Without, Restrict
<1>4. /\ DOMAIN n.retired \subseteq DOMAIN m.retired
      /\ \A s \in DOMAIN n.retired :
           n.retired[s] = m.retired[s] /\ m.retired[s].session.peer # peer
  BY <1>1 DEF Without, Restrict
<1>5. /\ DOMAIN n.pending \subseteq DOMAIN m.pending
      /\ \A s \in DOMAIN n.pending : n.pending[s] = m.pending[s]
  BY <1>1 DEF Without, Restrict
<1>6. DOMAIN n = DOMAIN m /\ n.replays = m.replays
  BY <1>1
<1> HIDE DEF n
<1>7. TableType(n)
  BY <1>2, <1>3, <1>4, <1>5, <1>6 DEF TableInv, TableType
<1>8. ByIdInverse(n)
  BY <1>2, <1>3, SMT DEF TableInv, ByIdInverse
<1>9. SidsDisjoint(n) /\ RetiredHasSuccessor(n)
  BY <1>2, <1>3, <1>4, <1>5, SMT DEF TableInv, SidsDisjoint, RetiredHasSuccessor
<1>10. FiniteTables(n) /\ WithinCapacity(n)
  BY <1>2, <1>4, <1>5, FS_Subset, FS_CardinalityType, TableAssumption, SMT
     DEF TableInv, FiniteTables, WithinCapacity
<1>11. TableInv(n) BY <1>7, <1>8, <1>9, <1>10 DEF TableInv
<1> QED BY <1>11 DEF n

(* Replacing the counters of an active session keeps the tables consistent.*)
LEMMA ActiveCountersInv ==
  ASSUME NEW m, TableInv(m), NEW p \in DOMAIN m.sessions, NEW s \in Session,
         s.id = m.sessions[p].id, s.peer = m.sessions[p].peer
  PROVE  TableInv([m EXCEPT !.sessions[p] = s])
<1> DEFINE n == [m EXCEPT !.sessions[p] = s]
<1>1. /\ DOMAIN n = DOMAIN m /\ n.byId = m.byId /\ n.retired = m.retired
      /\ n.pending = m.pending /\ n.replays = m.replays
      /\ DOMAIN n.sessions = DOMAIN m.sessions
      /\ n.sessions[p] = s
      /\ \A q \in DOMAIN m.sessions : q # p => n.sessions[q] = m.sessions[q]
  BY DEF TableInv, TableType
<1> HIDE DEF n
<1>2. TableType(n)
  BY <1>1 DEF TableInv, TableType
<1>3. ByIdInverse(n)
  BY <1>1, SMT DEF TableInv, ByIdInverse
<1>4. SidsDisjoint(n) /\ RetiredHasSuccessor(n) /\ FiniteTables(n) /\ WithinCapacity(n)
  BY <1>1 DEF TableInv, SidsDisjoint, RetiredHasSuccessor, FiniteTables, WithinCapacity
<1>5. TableInv(n) BY <1>2, <1>3, <1>4 DEF TableInv
<1> QED BY <1>5 DEF n

(* Replacing the counters of a retired session, likewise.                  *)
LEMMA RetiredCountersInv ==
  ASSUME NEW m, TableInv(m), NEW x \in DOMAIN m.retired, NEW s \in Session,
         s.id = m.retired[x].session.id, s.peer = m.retired[x].session.peer
  PROVE  TableInv([m EXCEPT !.retired[x].session = s])
<1> DEFINE n == [m EXCEPT !.retired[x].session = s]
<1>1. /\ DOMAIN n = DOMAIN m /\ n.byId = m.byId /\ n.sessions = m.sessions
      /\ n.pending = m.pending /\ n.replays = m.replays
      /\ DOMAIN n.retired = DOMAIN m.retired
      /\ n.retired[x] = [m.retired[x] EXCEPT !.session = s]
      /\ \A y \in DOMAIN m.retired : y # x => n.retired[y] = m.retired[y]
  BY DEF TableInv, TableType
<1>2. /\ n.retired[x] \in [session : Session, expires : Nat]
      /\ n.retired[x].session = s
  BY <1>1, SMT DEF TableInv, TableType
<1> HIDE DEF n
<1>3. TableType(n) /\ ByIdInverse(n)
  BY <1>1, <1>2, SMT DEF TableInv, TableType, ByIdInverse
<1>4. SidsDisjoint(n) /\ RetiredHasSuccessor(n)
  BY <1>1, <1>2, SMT DEF TableInv, SidsDisjoint, RetiredHasSuccessor
<1>5. FiniteTables(n) /\ WithinCapacity(n)
  BY <1>1 DEF TableInv, FiniteTables, WithinCapacity
<1>6. TableInv(n) BY <1>3, <1>4, <1>5 DEF TableInv
<1> QED BY <1>6 DEF n

(* Counting a sent frame keeps the tables' invariant.                      *)
LEMMA AdvanceSendInv ==
  ASSUME NEW m, TableInv(m), NEW p \in DOMAIN m.sessions
  PROVE  TableInv(AdvanceSend(m, p))
<1> DEFINE s == [m.sessions[p] EXCEPT !.seq = @ + 1]
<1>1. m.sessions[p] \in Session
  BY DEF TableInv, TableType
<1>2. s \in Session /\ s.id = m.sessions[p].id /\ s.peer = m.sessions[p].peer
  BY <1>1, SMT DEF Session
<1>3. AdvanceSend(m, p) = [m EXCEPT !.sessions[p] = s]
  BY DEF AdvanceSend
<1> HIDE DEF s
<1> QED BY <1>2, <1>3, ActiveCountersInv, SMT

(* Recording a received frame keeps the tables' invariant.                 *)
LEMMA RecordFrameInv ==
  ASSUME NEW m, TableInv(m), NEW frame, frame.seq \in Nat, Decrypts(m, frame)
  PROVE  TableInv(RecordFrame(m, frame))
<1>1. CASE frame.sid \in DOMAIN m.byId
  <2> DEFINE p == m.byId[frame.sid]
             s == [m.sessions[p] EXCEPT !.win = UpdateReplay(@, frame.seq)]
  <2>1. p \in DOMAIN m.sessions /\ m.sessions[p] \in Session
    BY <1>1 DEF TableInv, TableType, ByIdInverse
  <2>2. CheckReplay(m.sessions[p].win, frame.seq)
    BY <1>1, <2>1 DEF Decrypts, FindById
  <2>3. m.sessions[p].win \in Window
    BY <2>1 DEF Session
  <2>4. UpdateReplay(m.sessions[p].win, frame.seq) \in Window
    BY <2>2, <2>3, UpdateType
  <2>5. s \in Session /\ s.id = m.sessions[p].id /\ s.peer = m.sessions[p].peer
    BY <2>1, <2>4 DEF Session
  <2>6. RecordFrame(m, frame) = [m EXCEPT !.sessions[p] = s]
    BY <1>1 DEF RecordFrame
  <2> HIDE DEF p, s
  <2> QED BY <2>1, <2>5, <2>6, ActiveCountersInv, SMT
<1>2. CASE frame.sid \notin DOMAIN m.byId
  <2> DEFINE x == frame.sid
             s == [m.retired[x].session EXCEPT !.win = UpdateReplay(@, frame.seq)]
  <2>1. x \in DOMAIN m.retired /\ m.retired[x].session \in Session
    BY <1>2, SMT DEF TableInv, TableType, Decrypts, FindById
  <2>2. CheckReplay(m.retired[x].session.win, frame.seq)
    BY <1>2, <2>1 DEF Decrypts, FindById
  <2>3. m.retired[x].session.win \in Window
    BY <2>1 DEF Session
  <2>4. UpdateReplay(m.retired[x].session.win, frame.seq) \in Window
    BY <2>2, <2>3, UpdateType
  <2>5. s \in Session /\ s.id = m.retired[x].session.id /\ s.peer = m.retired[x].session.peer
    BY <2>1, <2>4 DEF Session
  <2>6. RecordFrame(m, frame) = [m EXCEPT !.retired[x].session = s]
    BY <1>2 DEF RecordFrame
  <2> HIDE DEF x, s
  <2> QED BY <2>1, <2>5, <2>6, RetiredCountersInv, SMT
<1> QED BY <1>1, <1>2

-----------------------------------------------------------------------------
(* The handlers of the handshake, on every path through them.              *)

(* handle_handshake_init, first critical section.                          *)
LEMMA CheckInitInv ==
  ASSUME NEW m, TableInv(m), NEW init, NEW t
  PROVE  TableInv(CheckInit(m, init, t).m)
<1>1. CheckInit(m, init, t).m = PurgeReplays(PurgePending(m, t), t)
  BY DEF CheckInit, Outcome
<1> QED BY <1>1, PurgePendingInv, PurgeReplaysInv

(* handle_handshake_init, second critical section.                         *)
LEMMA AdmitInitInv ==
  ASSUME NEW m0, TableInv(m0), NEW self, NEW init \in InitFrame, NEW t \in Nat
  PROVE  TableInv(AdmitInit(m0, self, init, t).m)
<1> DEFINE m == PurgeReplays(PurgePending(m0, t), t)
           f == Put(m.replays, init, [expires |-> t + ReplayTtl])
           seen == [m EXCEPT !.replays = f]
           mine == {s \in DOMAIN m.pending : m.pending[s].peer = init.peer}
           g == Without(seen.pending, {Min(mine)})
           fewer == [seen EXCEPT !.pending = g]
<1>1. TableInv(m)
  BY PurgePendingInv, PurgeReplaysInv
<1> HIDE DEF m
<1>2. DOMAIN f \subseteq InitFrame /\ \A i \in DOMAIN f : f[i] \in [expires : Nat]
  BY <1>1, TableAssumption, SMT DEF Put, TableInv, TableType
<1> HIDE DEF f
<1>3. TableInv(seen)
  BY <1>1, <1>2, OtherReplays
<1> HIDE DEF seen, mine
<1>4. DOMAIN g \subseteq DOMAIN seen.pending /\ \A s \in DOMAIN g : g[s] = seen.pending[s]
  BY DEF Without, Restrict
<1> HIDE DEF g
<1>5. TableInv(fewer)
  BY <1>3, <1>4, FewerPending
<1>6. AdmitInit(m0, self, init, t).m \in {m, seen, fewer}
  BY DEF AdmitInit, Outcome, m, f, seen, mine, g
<1> HIDE DEF fewer
<1> QED BY <1>1, <1>3, <1>5, <1>6

(* handle_handshake_init, third critical section.                          *)
LEMMA InstallInitInv ==
  ASSUME NEW m0, TableInv(m0), NEW init \in InitFrame, NEW key \in Key, NEW t \in Nat
  PROVE  TableInv(InstallInit(m0, init, key, t).m)
<1> DEFINE m == PurgePending(m0, t)
           n == CreateSession(m, init.peer, init.sid, key, FALSE, t)
<1>1. TableInv(m)
  BY PurgePendingInv
<1>2. InstallInit(m0, init, key, t).m =
        IF KnownSid(m, init.sid) \/ ActiveFull(m, init.peer) THEN m ELSE n
  BY DEF InstallInit, Outcome
<1> HIDE DEF m
<1>3. init.peer \in Node /\ init.sid \in Sid
  BY DEF InitFrame
<1>4. ~KnownSid(m, init.sid) /\ ~ActiveFull(m, init.peer) => TableInv(n)
  BY <1>1, <1>3, CreateSessionInv
<1> HIDE DEF n
<1> QED BY <1>1, <1>2, <1>4

(* handle_handshake_resp.                                                  *)
LEMMA HandleRespInv ==
  ASSUME NEW m0, TableInv(m0), NEW self, NEW sid \in Sid, NEW good \in BOOLEAN,
         NEW key \in Key, NEW t \in Nat
  PROVE  TableInv(HandleResp(m0, self, sid, good, key, t).m)
<1> DEFINE m == PurgePending(m0, t)
           peer == m.pending[sid].peer
           g == Without(m.pending, {sid})
           taken == [m EXCEPT !.pending = g]
           n == CreateSession(taken, peer, sid, key, TRUE, t)
<1>1. TableInv(m)
  BY PurgePendingInv
<1>2. HandleResp(m0, self, sid, good, key, t).m =
        IF sid \notin DOMAIN m.pending THEN m
        ELSE IF \/ ~good
                \/ /\ peer \in DOMAIN m.sessions
                   /\ ~m.sessions[peer].local
                   /\ peer < self
                \/ ActiveFull(m, peer)
             THEN taken ELSE n
  BY DEF HandleResp, Outcome
<1> HIDE DEF m
<1>3. DOMAIN g = DOMAIN m.pending \ {sid} /\ \A s \in DOMAIN g : g[s] = m.pending[s]
  BY DEF Without, Restrict
<1> HIDE DEF g
<1>4. TableInv(taken)
  BY <1>1, <1>3, FewerPending
<1>5. ASSUME sid \in DOMAIN m.pending, ~ActiveFull(m, peer) PROVE TableInv(n)
  <2>1. peer \in Node
    BY <1>1, <1>5 DEF TableInv, TableType
  <2>2. /\ taken.sessions = m.sessions /\ taken.byId = m.byId
        /\ taken.retired = m.retired /\ taken.pending = g
    BY <1>1 DEF TableInv, TableType
  <2>3. ~KnownSid(taken, sid)
    BY <1>1, <1>3, <1>5, <2>2 DEF TableInv, SidsDisjoint, KnownSid
  <2>4. ~ActiveFull(taken, peer)
    BY <1>5, <2>2 DEF ActiveFull
  <2> HIDE DEF taken, peer
  <2> QED BY <1>4, <2>1, <2>3, <2>4, CreateSessionInv
<1> HIDE DEF taken, n
<1> QED BY <1>1, <1>2, <1>4, <1>5

-----------------------------------------------------------------------------
(* Keys.  K is the set of transcripts installed so far and D the set of    *)
(* <<key, sequence number>> pairs delivered so far.                        *)

KeysKnown(m, K) ==
  /\ \A p \in DOMAIN m.sessions : m.sessions[p].key \in K
  /\ \A s \in DOMAIN m.retired : m.retired[s].session.key \in K

KeysDistinct(m) ==
  /\ \A p, q \in DOMAIN m.sessions : m.sessions[p].key = m.sessions[q].key => p = q
  /\ \A s, u \in DOMAIN m.retired :
       m.retired[s].session.key = m.retired[u].session.key => s = u
  /\ \A p \in DOMAIN m.sessions, s \in DOMAIN m.retired :
       m.sessions[p].key # m.retired[s].session.key

Refuses(s, D) == \A d \in D : d[1] = s.key => ~CheckReplay(s.win, d[2])

AllRefuse(m, D) ==
  /\ \A p \in DOMAIN m.sessions : Refuses(m.sessions[p], D)
  /\ \A s \in DOMAIN m.retired : Refuses(m.retired[s].session, D)

KeyInv(m, K, D) ==
  /\ KeysKnown(m, K) /\ KeysDistinct(m) /\ AllRefuse(m, D)
  /\ \A d \in D : d[1] \in K /\ d[2] \in Nat

(* n has some of the active and retired sessions of m and no others.       *)
SubTable(n, m) ==
  /\ DOMAIN n.sessions \subseteq DOMAIN m.sessions
  /\ \A p \in DOMAIN n.sessions : n.sessions[p] = m.sessions[p]
  /\ DOMAIN n.retired \subseteq DOMAIN m.retired
  /\ \A s \in DOMAIN n.retired : n.retired[s] = m.retired[s]

(* Losing sessions disturbs nothing about keys.                            *)
LEMMA SubTableKeys ==
  ASSUME NEW m, NEW n, NEW K, NEW D, KeyInv(m, K, D), SubTable(n, m)
  PROVE  KeyInv(n, K, D)
BY SMT DEF KeyInv, KeysKnown, KeysDistinct, AllRefuse, SubTable

(* A new session has a new key, and the one it replaces keeps its window.  *)
LEMMA CreateSessionKeys ==
  ASSUME NEW m, TableInv(m), NEW K, NEW D, KeyInv(m, K, D),
         NEW peer \in Node, NEW sid \in Sid, NEW key \in Key, key \notin K,
         NEW local \in BOOLEAN, NEW t \in Nat
  PROVE  KeyInv(CreateSession(m, peer, sid, key, local, t), K \cup {key}, D)
<1> DEFINE had == peer \in DOMAIN m.sessions
           old == m.sessions[peer]
           new == [id |-> sid, peer |-> peer, local |-> local, key |-> key,
                   seq |-> 0, win |-> EmptyWindow]
           n == CreateSession(m, peer, sid, key, local, t)
<1>1. /\ n.retired = IF had THEN Retire(m.retired, old, t) ELSE m.retired
      /\ n.sessions = Put(m.sessions, peer, new)
  BY DEF TableInv, TableType, CreateSession
<1>2. /\ DOMAIN n.sessions = DOMAIN m.sessions \cup {peer}
      /\ n.sessions[peer] = new
      /\ \A p \in DOMAIN m.sessions : p # peer => n.sessions[p] = m.sessions[p]
  BY <1>1 DEF Put
<1>3. new.key = key
  OBVIOUS
<1>4. \A s \in DOMAIN n.retired :
        \/ s \in DOMAIN m.retired /\ n.retired[s] = m.retired[s]
        \/ had /\ s = old.id /\ s \notin DOMAIN m.retired /\ n.retired[s].session = old
  <2>1. CASE had
    <3>1. old \in Session /\ old.id \notin DOMAIN m.retired
      BY <2>1 DEF TableInv, TableType, ByIdInverse, SidsDisjoint
    <3> HIDE DEF old
    <3> DEFINE r == Retire(m.retired, old, t)
    <3>2. /\ DOMAIN r \subseteq DOMAIN m.retired \cup {old.id}
          /\ \A x \in DOMAIN r : x # old.id => r[x] = m.retired[x]
          /\ old.id \in DOMAIN r => r[old.id] = [session |-> old, expires |-> t + RetiredGrace]
      BY <3>1, RetireFacts, SMT DEF TableInv, TableType, FiniteTables, WithinCapacity
    <3> HIDE DEF r
    <3>3. n.retired = r
      BY <1>1, <2>1 DEF r, old
    <3> HIDE DEF n
    <3> QED BY <2>1, <3>1, <3>2, <3>3, SMT
  <2>2. CASE ~had
    BY <1>1, <2>2
  <2> QED BY <2>1, <2>2
<1> HIDE DEF n, new
<1>5. KeysKnown(n, K \cup {key})
  BY <1>2, <1>3, <1>4 DEF KeyInv, KeysKnown
<1>6. KeysDistinct(n)
  BY <1>2, <1>3, <1>4, SMT DEF KeyInv, KeysKnown, KeysDistinct
<1>7. AllRefuse(n, D)
  <2>1. Refuses(new, D)
    BY <1>3 DEF KeyInv, Refuses
  <2> QED BY <1>2, <1>4, <2>1 DEF KeyInv, AllRefuse
<1>8. KeyInv(n, K \cup {key}, D)
  BY <1>5, <1>6, <1>7 DEF KeyInv
<1> QED BY <1>8 DEF n

(* encrypt_message only moves the send counter.                            *)
LEMMA AdvanceSendKeys ==
  ASSUME NEW m, TableInv(m), NEW K, NEW D, KeyInv(m, K, D), NEW p \in DOMAIN m.sessions
  PROVE  KeyInv(AdvanceSend(m, p), K, D)
<1> DEFINE n == AdvanceSend(m, p)
<1>1. /\ n.retired = m.retired
      /\ DOMAIN n.sessions = DOMAIN m.sessions
      /\ \A q \in DOMAIN m.sessions :
           n.sessions[q].key = m.sessions[q].key /\ n.sessions[q].win = m.sessions[q].win
  BY DEF TableInv, TableType, Session, AdvanceSend
<1> HIDE DEF n
<1>2. KeyInv(n, K, D)
  BY <1>1, SMT DEF KeyInv, KeysKnown, KeysDistinct, AllRefuse, Refuses
<1> QED BY <1>2 DEF n

(* The session that returned a frame refuses it from then on, and no other *)
(* session has its key.                                                    *)
LEMMA RefusesRecorded ==
  ASSUME NEW s \in Session, NEW D, \A d \in D : d[2] \in Nat, Refuses(s, D),
         NEW q \in Nat, CheckReplay(s.win, q),
         NEW u, u.key = s.key, u.win = UpdateReplay(s.win, q)
  PROVE  Refuses(u, D \cup {<<s.key, q>>})
<1>1. s.win \in Window
  BY DEF Session
<1>2. ~CheckReplay(u.win, q)
  BY <1>1, UpdateRefuses
<1>3. \A d \in D : d[1] = s.key => ~CheckReplay(u.win, d[2])
  BY <1>1, UpdateKeepsRefusing DEF Refuses
<1> QED BY <1>2, <1>3, SMT DEF Refuses

(* decrypt_message.                                                        *)
LEMMA RecordFrameKeys ==
  ASSUME NEW m, TableInv(m), NEW K, NEW D, KeyInv(m, K, D),
         NEW frame, frame.seq \in Nat, Decrypts(m, frame)
  PROVE  KeyInv(RecordFrame(m, frame), K, D \cup {<<frame.key, frame.seq>>})
<1> DEFINE n == RecordFrame(m, frame)
           E == D \cup {<<frame.key, frame.seq>>}
<1>1. CASE frame.sid \in DOMAIN m.byId
  <2> DEFINE p == m.byId[frame.sid]
  <2>1. p \in DOMAIN m.sessions /\ m.sessions[p] \in Session
    BY <1>1 DEF TableInv, TableType, ByIdInverse
  <2>2. CheckReplay(m.sessions[p].win, frame.seq) /\ m.sessions[p].key = frame.key
    BY <1>1, <2>1 DEF Decrypts, FindById
  <2>3. /\ n.retired = m.retired /\ DOMAIN n.sessions = DOMAIN m.sessions
        /\ n.sessions[p].key = frame.key
        /\ n.sessions[p].win = UpdateReplay(m.sessions[p].win, frame.seq)
        /\ \A q \in DOMAIN m.sessions : q # p => n.sessions[q] = m.sessions[q]
    BY <1>1, <2>1, <2>2 DEF RecordFrame, TableInv, TableType, Session
  <2> HIDE DEF n, p
  <2>4. Refuses(n.sessions[p], E)
    BY <2>1, <2>2, <2>3, RefusesRecorded DEF KeyInv, AllRefuse
  <2>5. \A q \in DOMAIN m.sessions : q # p => Refuses(n.sessions[q], E)
    BY <2>1, <2>2, <2>3, SMT DEF KeyInv, KeysDistinct, AllRefuse, Refuses
  <2>6. \A s \in DOMAIN m.retired : Refuses(n.retired[s].session, E)
    BY <2>1, <2>2, <2>3, SMT DEF KeyInv, KeysDistinct, AllRefuse, Refuses
  <2>7. KeysKnown(n, K) /\ KeysDistinct(n)
    BY <2>1, <2>2, <2>3, SMT DEF KeyInv, KeysKnown, KeysDistinct
  <2>8. frame.key \in K
    BY <2>1, <2>2 DEF KeyInv, KeysKnown
  <2>9. \A d \in E : d[1] \in K /\ d[2] \in Nat
    BY <2>8, SMT DEF KeyInv
  <2> HIDE DEF E
  <2>10. KeyInv(n, K, E)
    BY <2>3, <2>4, <2>5, <2>6, <2>7, <2>9 DEF KeyInv, AllRefuse
  <2> QED BY <2>10 DEF n, E
<1>2. CASE frame.sid \notin DOMAIN m.byId
  <2> DEFINE x == frame.sid
  <2>1. x \in DOMAIN m.retired /\ m.retired[x].session \in Session
    BY <1>2, SMT DEF TableInv, TableType, Decrypts, FindById
  <2>2. /\ CheckReplay(m.retired[x].session.win, frame.seq)
        /\ m.retired[x].session.key = frame.key
    BY <1>2, <2>1 DEF Decrypts, FindById
  <2>3. /\ n.sessions = m.sessions /\ DOMAIN n.retired = DOMAIN m.retired
        /\ n.retired[x].session.key = frame.key
        /\ n.retired[x].session.win = UpdateReplay(m.retired[x].session.win, frame.seq)
        /\ \A y \in DOMAIN m.retired : y # x => n.retired[y] = m.retired[y]
    BY <1>2, <2>1, <2>2 DEF RecordFrame, TableInv, TableType, Session
  <2> HIDE DEF n, x
  <2>4. Refuses(n.retired[x].session, E)
    BY <2>1, <2>2, <2>3, RefusesRecorded DEF KeyInv, AllRefuse
  <2>5. \A y \in DOMAIN m.retired : y # x => Refuses(n.retired[y].session, E)
    BY <2>1, <2>2, <2>3, SMT DEF KeyInv, KeysDistinct, AllRefuse, Refuses
  <2>6. \A p \in DOMAIN m.sessions : Refuses(n.sessions[p], E)
    BY <2>1, <2>2, <2>3, SMT DEF KeyInv, KeysDistinct, AllRefuse, Refuses
  <2>7. KeysKnown(n, K) /\ KeysDistinct(n)
    BY <2>1, <2>2, <2>3, SMT DEF KeyInv, KeysKnown, KeysDistinct
  <2>8. frame.key \in K
    BY <2>1, <2>2 DEF KeyInv, KeysKnown
  <2>9. \A d \in E : d[1] \in K /\ d[2] \in Nat
    BY <2>8, SMT DEF KeyInv
  <2> HIDE DEF E
  <2>10. KeyInv(n, K, E)
    BY <2>3, <2>4, <2>5, <2>6, <2>7, <2>9 DEF KeyInv, AllRefuse
  <2> QED BY <2>10 DEF n, E
<1> QED BY <1>1, <1>2

(* The purges, create_handshake_init, the first two critical sections of   *)
(* handle_handshake_init and remove_session install nothing.               *)
LEMMA NothingInstalled ==
  ASSUME NEW m, TableInv(m), NEW t
  PROVE  /\ SubTable(PurgePending(m, t), m)
         /\ SubTable(PurgeRetired(m, t), m)
         /\ SubTable(PurgeReplays(m, t), m)
         /\ \A peer, sid : SubTable(CreateHandshakeInit(m, peer, sid, t).m, m)
         /\ \A init : SubTable(CheckInit(m, init, t).m, m)
         /\ \A self, init : SubTable(AdmitInit(m, self, init, t).m, m)
         /\ \A peer : SubTable(RemoveSession(m, peer), m)
<1> DEFINE Same(n) == n.sessions = m.sessions /\ n.retired = m.retired
<1>1. \A n : Same(n) => SubTable(n, m)
  BY DEF SubTable
<1>2. DOMAIN m = {"sessions", "byId", "retired", "pending", "replays"}
  BY DEF TableInv, TableType
<1>3. Same(PurgePending(m, t)) /\ Same(PurgeReplays(m, t))
  BY <1>2 DEF PurgePending, PurgeReplays
<1>4. SubTable(PurgeRetired(m, t), m)
  BY <1>2, LiveFacts, SMT DEF PurgeRetired, SubTable
<1>5. ASSUME NEW peer, NEW sid PROVE Same(CreateHandshakeInit(m, peer, sid, t).m)
  BY <1>2 DEF CreateHandshakeInit, PurgePending, Outcome
<1>6. ASSUME NEW init PROVE Same(CheckInit(m, init, t).m)
  BY <1>2 DEF CheckInit, PurgePending, PurgeReplays, Outcome
<1>7. ASSUME NEW self, NEW init PROVE Same(AdmitInit(m, self, init, t).m)
  BY <1>2 DEF AdmitInit, PurgePending, PurgeReplays, Outcome
<1>8. ASSUME NEW peer PROVE SubTable(RemoveSession(m, peer), m)
  BY <1>2 DEF RemoveSession, SubTable, Without, Restrict
<1> HIDE DEF Same
<1> QED BY <1>1, <1>3, <1>4, <1>5, <1>6, <1>7, <1>8

(* The third critical section of handle_handshake_init.                    *)
LEMMA InstallInitKeys ==
  ASSUME NEW m0, TableInv(m0), NEW K, NEW D, KeyInv(m0, K, D),
         NEW init \in InitFrame, NEW key \in Key, key \notin K, NEW t \in Nat
  PROVE  LET out == InstallInit(m0, init, key, t)
         IN  KeyInv(out.m, IF out.ok THEN K \cup {key} ELSE K, D)
<1> DEFINE m == PurgePending(m0, t)
           n == CreateSession(m, init.peer, init.sid, key, FALSE, t)
           no == KnownSid(m, init.sid) \/ ActiveFull(m, init.peer)
<1>1. TableInv(m) /\ KeyInv(m, K, D)
  BY PurgePendingInv, NothingInstalled, SubTableKeys
<1>2. /\ no => ~InstallInit(m0, init, key, t).ok /\ InstallInit(m0, init, key, t).m = m
      /\ ~no => InstallInit(m0, init, key, t).ok /\ InstallInit(m0, init, key, t).m = n
  BY DEF InstallInit, Outcome
<1> HIDE DEF m, no
<1>3. init.peer \in Node /\ init.sid \in Sid
  BY DEF InitFrame
<1>4. KeyInv(n, K \cup {key}, D)
  BY <1>1, <1>3, CreateSessionKeys, ZenonT(30)
<1> HIDE DEF n
<1> QED BY <1>1, <1>2, <1>4

(* handle_handshake_resp.                                                  *)
LEMMA HandleRespKeys ==
  ASSUME NEW m0, TableInv(m0), NEW K, NEW D, KeyInv(m0, K, D),
         NEW self, NEW sid \in Sid, NEW good \in BOOLEAN,
         NEW key \in Key, key \notin K, NEW t \in Nat
  PROVE  LET out == HandleResp(m0, self, sid, good, key, t)
         IN  KeyInv(out.m, IF out.ok THEN K \cup {key} ELSE K, D)
<1> DEFINE m == PurgePending(m0, t)
           peer == m.pending[sid].peer
           g == Without(m.pending, {sid})
           taken == [m EXCEPT !.pending = g]
           n == CreateSession(taken, peer, sid, key, TRUE, t)
           out == HandleResp(m0, self, sid, good, key, t)
<1>1. TableInv(m) /\ KeyInv(m, K, D)
  BY PurgePendingInv, NothingInstalled, SubTableKeys
<1>2. \/ ~out.ok /\ out.m = m
      \/ ~out.ok /\ out.m = taken
      \/ sid \in DOMAIN m.pending /\ out.ok /\ out.m = n
  BY DEF HandleResp, Outcome
<1> HIDE DEF m, out
<1>3. DOMAIN g \subseteq DOMAIN m.pending /\ \A s \in DOMAIN g : g[s] = m.pending[s]
  BY DEF Without, Restrict
<1> HIDE DEF g
<1>4. TableInv(taken)
  BY <1>1, <1>3, FewerPending
<1>5. SubTable(taken, m)
  BY <1>1 DEF TableInv, TableType, SubTable
<1> HIDE DEF taken
<1>6. KeyInv(taken, K, D)
  BY <1>1, <1>5, SubTableKeys
<1>7. sid \in DOMAIN m.pending => peer \in Node
  BY <1>1 DEF TableInv, TableType
<1> HIDE DEF peer
<1>8. sid \in DOMAIN m.pending => KeyInv(n, K \cup {key}, D)
  BY <1>4, <1>6, <1>7, CreateSessionKeys
<1> HIDE DEF n
<1>9. KeyInv(out.m, IF out.ok THEN K \cup {key} ELSE K, D)
  BY <1>1, <1>2, <1>6, <1>8
<1> QED BY <1>9 DEF out

-----------------------------------------------------------------------------
(* Sessions that are replaced, and the old keys.                           *)

(* From m to n no session is replaced, and an old key is lost only after   *)
(* its grace period or together with its peer.                             *)
Keeps(n, m, t) ==
  /\ DOMAIN n.sessions \subseteq DOMAIN m.sessions
  /\ \A p \in DOMAIN n.sessions : /\ n.sessions[p].id = m.sessions[p].id
                                  /\ n.sessions[p].local = m.sessions[p].local
  /\ \A s \in DOMAIN m.retired \ DOMAIN n.retired :
       m.retired[s].expires <= t \/ m.retired[s].session.peer \notin DOMAIN n.sessions

(* From m to n the session with peer is created anew.                      *)
Replaces(n, m, peer, local, t) ==
  /\ DOMAIN n.sessions = DOMAIN m.sessions \cup {peer}
  /\ n.sessions[peer].local = local
  /\ \A p \in DOMAIN m.sessions : p # peer => n.sessions[p] = m.sessions[p]
  /\ n.retired = IF peer \in DOMAIN m.sessions
                 THEN Retire(m.retired, m.sessions[peer], t) ELSE m.retired

(* A purge takes what has expired, and nothing else.                       *)
LEMMA LiveKeeps ==
  ASSUME NEW f, NEW t \in Nat, \A x \in DOMAIN f : f[x].expires \in Nat
  PROVE  \A x \in DOMAIN f : x \in DOMAIN Live(f, t) <=> f[x].expires > t
BY DEF Live, Restrict

(* retire_session_locked gives up an old key before its time only for want *)
(* of room: one key, the table is full, and no key that stays would have   *)
(* expired earlier.                                                        *)
LEMMA RetireEvicts ==
  ASSUME NEW f, NEW s \in Session, NEW t \in Nat,
         DOMAIN f \subseteq Sid, IsFiniteSet(DOMAIN f),
         Cardinality(DOMAIN f) <= RetiredCap, s.id \notin DOMAIN f,
         \A x \in DOMAIN f : f[x] \in [session : Session, expires : Nat]
  PROVE  LET r == Retire(f, s, t)
             gone == {x \in DOMAIN f \ DOMAIN r : f[x].expires > t}
         IN  /\ RetiredCap > 0 => s.id \in DOMAIN r
             /\ gone # {} => /\ Cardinality(gone) = 1
                             /\ Cardinality(DOMAIN r) = RetiredCap
                             /\ \A x \in gone, u \in DOMAIN f \cap DOMAIN r :
                                  f[x].expires <= f[u].expires
<1> DEFINE l == Live(f, t)
           full == Cardinality(DOMAIN l) >= RetiredCap
           v == EvictionVictim(l)
           new == [session |-> s, expires |-> t + RetiredGrace]
           r == Retire(f, s, t)
           gone == {x \in DOMAIN f \ DOMAIN r : f[x].expires > t}
<1> SUFFICES /\ RetiredCap > 0 => s.id \in DOMAIN r
             /\ gone # {} => /\ Cardinality(gone) = 1
                             /\ Cardinality(DOMAIN r) = RetiredCap
                             /\ \A x \in gone, u \in DOMAIN f \cap DOMAIN r :
                                  f[x].expires <= f[u].expires
  OBVIOUS
<1>1. DOMAIN l \subseteq DOMAIN f /\ \A x \in DOMAIN l : l[x] = f[x]
  BY LiveFacts
<1>2. \A x \in DOMAIN f : f[x].expires \in Nat
  OBVIOUS
<1>3. \A x \in DOMAIN f : x \in DOMAIN l <=> f[x].expires > t
  BY <1>2, LiveKeeps
<1>4. /\ IsFiniteSet(DOMAIN l) /\ Cardinality(DOMAIN l) \in Nat
      /\ Cardinality(DOMAIN l) <= RetiredCap
  BY <1>1, FS_Subset, FS_CardinalityType, TableAssumption, SMT
<1>5. s.id \notin DOMAIN l
  BY <1>1
<1>6. /\ RetiredCap = 0 => r = l
      /\ RetiredCap # 0 /\ full => r = Put(Without(l, {v}), s.id, new)
      /\ RetiredCap # 0 /\ ~full => r = Put(l, s.id, new)
  BY <1>5 DEF Retire
<1> HIDE DEF l, r, new
<1>10. RetiredCap > 0 <=> RetiredCap # 0
  BY TableAssumption, SMT
<1>7. CASE RetiredCap = 0
  BY <1>3, <1>6, <1>7, <1>10
<1>8. CASE RetiredCap # 0 /\ ~full
  <2>1. DOMAIN r = DOMAIN l \cup {s.id}
    BY <1>6, <1>8 DEF Put
  <2> QED BY <1>3, <2>1
<1>9. CASE RetiredCap # 0 /\ full
  <2>1. DOMAIN l # {} /\ Cardinality(DOMAIN l) = RetiredCap
    BY <1>4, <1>9, FS_EmptySet, TableAssumption, SMT
  <2>2. v \in DOMAIN l /\ \A u \in DOMAIN l : l[v].expires <= l[u].expires
    BY <1>1, <1>2, <2>1, VictimLeast, TableAssumption
  <2> HIDE DEF v
  <2>3. DOMAIN r = (DOMAIN l \ {v}) \cup {s.id}
    BY <1>6, <1>9 DEF Put, Without, Restrict
  <2>4. gone = {v}
    BY <1>1, <1>3, <1>5, <2>2, <2>3
  <2>5. Cardinality(gone) = 1
    BY <2>4, FS_Singleton
  <2>6. Cardinality(DOMAIN r) = RetiredCap
    <3>1. /\ IsFiniteSet(DOMAIN l \ {v})
          /\ Cardinality(DOMAIN l \ {v}) = Cardinality(DOMAIN l) - 1
      BY <1>4, <2>2, FS_RemoveElement
    <3>2. Cardinality((DOMAIN l \ {v}) \cup {s.id}) = Cardinality(DOMAIN l \ {v}) + 1
      BY <1>5, <3>1, FS_AddElement
    <3> QED BY <2>1, <2>3, <3>1, <3>2, TableAssumption, SMT
  <2>7. \A x \in gone, u \in DOMAIN f \cap DOMAIN r : f[x].expires <= f[u].expires
    BY <1>1, <2>2, <2>3, <2>4
  <2> QED BY <2>3, <2>5, <2>6, <2>7
<1> QED BY <1>7, <1>8, <1>9

(* A table with the same active and retired sessions.                      *)
LEMMA SameKeeps ==
  ASSUME NEW m, NEW n, NEW t, n.sessions = m.sessions, n.retired = m.retired
  PROVE  Keeps(n, m, t)
BY DEF Keeps

(* Only create_session replaces a session, and besides it only a purge and *)
(* remove_session take old keys away.                                      *)
LEMMA NothingReplaced ==
  ASSUME NEW m, TableInv(m), NEW t \in Nat
  PROVE  /\ Keeps(PurgePending(m, t), m, t)
         /\ Keeps(PurgeRetired(m, t), m, t)
         /\ Keeps(PurgeReplays(m, t), m, t)
         /\ \A peer, sid : Keeps(CreateHandshakeInit(m, peer, sid, t).m, m, t)
         /\ \A init : Keeps(CheckInit(m, init, t).m, m, t)
         /\ \A self, init : Keeps(AdmitInit(m, self, init, t).m, m, t)
         /\ \A peer : Keeps(RemoveSession(m, peer), m, t)
         /\ \A p \in DOMAIN m.sessions : Keeps(AdvanceSend(m, p), m, t)
         /\ \A frame : Decrypts(m, frame) => Keeps(RecordFrame(m, frame), m, t)
<1>1. DOMAIN m = {"sessions", "byId", "retired", "pending", "replays"}
  BY DEF TableInv, TableType
<1>2. Keeps(PurgePending(m, t), m, t) /\ Keeps(PurgeReplays(m, t), m, t)
  BY <1>1, SameKeeps DEF PurgePending, PurgeReplays
<1>3. Keeps(PurgeRetired(m, t), m, t)
  <2> DEFINE n == PurgeRetired(m, t)
  <2>1. n.sessions = m.sessions /\ n.retired = Live(m.retired, t)
    BY <1>1 DEF PurgeRetired
  <2>2. \A x \in DOMAIN m.retired : m.retired[x].expires \in Nat
    BY DEF TableInv, TableType
  <2>3. \A x \in DOMAIN m.retired :
          x \in DOMAIN Live(m.retired, t) <=> m.retired[x].expires > t
    BY <2>2, LiveKeeps
  <2> QED BY <2>1, <2>2, <2>3, SMT DEF Keeps
<1>4. ASSUME NEW peer, NEW sid PROVE Keeps(CreateHandshakeInit(m, peer, sid, t).m, m, t)
  BY <1>1, SameKeeps DEF CreateHandshakeInit, PurgePending, Outcome
<1>5. ASSUME NEW init PROVE Keeps(CheckInit(m, init, t).m, m, t)
  BY <1>1, SameKeeps DEF CheckInit, PurgePending, PurgeReplays, Outcome
<1>6. ASSUME NEW self, NEW init PROVE Keeps(AdmitInit(m, self, init, t).m, m, t)
  BY <1>1, SameKeeps DEF AdmitInit, PurgePending, PurgeReplays, Outcome
<1>7. ASSUME NEW peer PROVE Keeps(RemoveSession(m, peer), m, t)
  <2> DEFINE n == RemoveSession(m, peer)
             active == IF peer \in DOMAIN m.sessions THEN {m.sessions[peer].id} ELSE {}
             theirs == {s \in DOMAIN m.retired : m.retired[s].session.peer = peer}
  <2>1. /\ n.sessions = Without(m.sessions, {peer})
        /\ n.retired = Without(m.retired, active \cup theirs)
    BY <1>1 DEF RemoveSession
  <2>2. active \cap DOMAIN m.retired = {}
    BY SMT DEF TableInv, ByIdInverse, SidsDisjoint
  <2> HIDE DEF n, active
  <2>3. Keeps(n, m, t)
    BY <2>1, <2>2 DEF Keeps, Without, Restrict
  <2> QED BY <2>3 DEF n
<1>8. ASSUME NEW p \in DOMAIN m.sessions PROVE Keeps(AdvanceSend(m, p), m, t)
  BY <1>1 DEF AdvanceSend, Keeps, TableInv, TableType, Session
<1>9. ASSUME NEW frame, Decrypts(m, frame) PROVE Keeps(RecordFrame(m, frame), m, t)
  <2>1. CASE frame.sid \in DOMAIN m.byId
    <3>1. m.byId[frame.sid] \in DOMAIN m.sessions
      BY <2>1 DEF TableInv, ByIdInverse
    <3> QED BY <1>1, <2>1, <3>1, SMT DEF RecordFrame, Keeps, TableInv, TableType, Session
  <2>2. CASE frame.sid \notin DOMAIN m.byId
    BY <1>1, <2>2 DEF RecordFrame, Keeps
  <2> QED BY <2>1, <2>2
<1> QED BY <1>2, <1>3, <1>4, <1>5, <1>6, <1>7, <1>8, <1>9

(* create_session.                                                         *)
LEMMA CreateSessionReplaces ==
  ASSUME NEW m, TableInv(m), NEW k, k.sessions = m.sessions, k.retired = m.retired,
         DOMAIN k = DOMAIN m, NEW peer, NEW sid, NEW key, NEW local, NEW t
  PROVE  Replaces(CreateSession(k, peer, sid, key, local, t), m, peer, local, t)
<1> DEFINE new == [id |-> sid, peer |-> peer, local |-> local, key |-> key,
                   seq |-> 0, win |-> EmptyWindow]
           n == CreateSession(k, peer, sid, key, local, t)
<1>1. /\ n.retired = IF peer \in DOMAIN m.sessions
                     THEN Retire(m.retired, m.sessions[peer], t) ELSE m.retired
      /\ n.sessions = Put(m.sessions, peer, new)
  BY DEF TableInv, TableType, CreateSession
<1>2. new.local = local
  OBVIOUS
<1> HIDE DEF n, new
<1>3. Replaces(n, m, peer, local, t)
  BY <1>1, <1>2 DEF Replaces, Put
<1> QED BY <1>3 DEF n

(* The third critical section of handle_handshake_init.                    *)
LEMMA InstallInitReplaces ==
  ASSUME NEW m, TableInv(m), NEW init, NEW key, NEW t \in Nat
  PROVE  LET n == InstallInit(m, init, key, t).m
         IN  Keeps(n, m, t) \/ Replaces(n, m, init.peer, FALSE, t)
<1> DEFINE k == PurgePending(m, t)
<1>1. k.sessions = m.sessions /\ k.retired = m.retired /\ DOMAIN k = DOMAIN m
  BY DEF PurgePending, TableInv, TableType
<1>2. \/ InstallInit(m, init, key, t).m = k
      \/ InstallInit(m, init, key, t).m = CreateSession(k, init.peer, init.sid, key, FALSE, t)
  BY DEF InstallInit, Outcome
<1> HIDE DEF k
<1> QED BY <1>1, <1>2, SameKeeps, CreateSessionReplaces

(* handle_handshake_resp: a session of the lower peer's initiation is left *)
(* alone.                                                                  *)
LEMMA HandleRespReplaces ==
  ASSUME NEW m, TableInv(m), NEW self, NEW sid, NEW good \in BOOLEAN, NEW key, NEW t \in Nat
  PROVE  LET n == HandleResp(m, self, sid, good, key, t).m
         IN  \/ Keeps(n, m, t)
             \/ \E peer : /\ sid \in DOMAIN m.pending /\ peer = m.pending[sid].peer
                          /\ ~(peer \in DOMAIN m.sessions /\ ~m.sessions[peer].local
                               /\ peer < self)
                          /\ Replaces(n, m, peer, TRUE, t)
<1> DEFINE k == PurgePending(m, t)
           taken == [k EXCEPT !.pending = Without(@, {sid})]
           peer == k.pending[sid].peer
           n == HandleResp(m, self, sid, good, key, t).m
<1>1. /\ k.sessions = m.sessions /\ k.retired = m.retired /\ DOMAIN k = DOMAIN m
      /\ DOMAIN k.pending \subseteq DOMAIN m.pending
      /\ \A s \in DOMAIN k.pending : k.pending[s] = m.pending[s]
  BY LiveFacts, SMT DEF PurgePending, TableInv, TableType
<1>2. \/ n = k
      \/ n = taken
      \/ /\ sid \in DOMAIN k.pending
         /\ ~(peer \in DOMAIN k.sessions /\ ~k.sessions[peer].local /\ peer < self)
         /\ n = CreateSession(taken, peer, sid, key, TRUE, t)
  BY DEF HandleResp, Outcome
<1> HIDE DEF k, n
<1>3. taken.sessions = m.sessions /\ taken.retired = m.retired /\ DOMAIN taken = DOMAIN m
  BY <1>1 DEF TableInv, TableType
<1> HIDE DEF taken
<1>4. \/ Keeps(n, m, t)
      \/ /\ sid \in DOMAIN m.pending /\ peer = m.pending[sid].peer
         /\ ~(peer \in DOMAIN m.sessions /\ ~m.sessions[peer].local /\ peer < self)
         /\ Replaces(n, m, peer, TRUE, t)
  BY <1>1, <1>2, <1>3, SameKeeps, CreateSessionReplaces
<1> QED BY <1>4 DEF n

-----------------------------------------------------------------------------
(* Pending initiations and the replay cache.                               *)

(* From m to n no initiation is entered, and no INIT is forgotten before   *)
(* its time.                                                               *)
Remembers(n, m, t) ==
  /\ \A s \in DOMAIN n.pending : s \in DOMAIN m.pending /\ n.pending[s] = m.pending[s]
  /\ \A i \in DOMAIN m.replays :
       m.replays[i].expires > t => i \in DOMAIN n.replays /\ n.replays[i] = m.replays[i]

(* Every critical section but create_handshake_init and the second one of  *)
(* handle_handshake_init.                                                  *)
LEMMA CachesKept ==
  ASSUME NEW m, TableInv(m), NEW t \in Nat
  PROVE  /\ Remembers(PurgePending(m, t), m, t)
         /\ Remembers(PurgeRetired(m, t), m, t)
         /\ Remembers(PurgeReplays(m, t), m, t)
         /\ \A init : Remembers(CheckInit(m, init, t).m, m, t)
         /\ \A peer : Remembers(RemoveSession(m, peer), m, t)
         /\ \A p : Remembers(AdvanceSend(m, p), m, t)
         /\ \A frame : Remembers(RecordFrame(m, frame), m, t)
         /\ \A init, key : Remembers(InstallInit(m, init, key, t).m, m, t)
         /\ \A self, sid, good, key :
              good \in BOOLEAN => Remembers(HandleResp(m, self, sid, good, key, t).m, m, t)
<1>1. DOMAIN m = {"sessions", "byId", "retired", "pending", "replays"}
  BY DEF TableInv, TableType
<1> DEFINE q == Live(m.pending, t)
           c == Live(m.replays, t)
<1>2. /\ \A s \in DOMAIN q : s \in DOMAIN m.pending /\ q[s] = m.pending[s]
      /\ \A i \in DOMAIN m.replays : m.replays[i].expires > t => i \in DOMAIN c /\ c[i] = m.replays[i]
  BY LiveFacts DEF Live, Restrict
<1> HIDE DEF q, c
<1> DEFINE Good(n) == /\ n.replays = m.replays \/ n.replays = c
                      /\ n.pending = m.pending \/ n.pending = q
                         \/ \E S : n.pending = Without(q, S) \/ n.pending = Without(m.pending, S)
<1>3. ASSUME NEW n, Good(n) PROVE Remembers(n, m, t)
  <2>1. \A f, S : \A s \in DOMAIN Without(f, S) : s \in DOMAIN f /\ Without(f, S)[s] = f[s]
    BY DEF Without, Restrict
  <2> QED BY <1>2, <1>3, <2>1, SMT DEF Remembers
<1>4. Good(PurgePending(m, t)) /\ Good(PurgeRetired(m, t)) /\ Good(PurgeReplays(m, t))
  BY <1>1 DEF PurgePending, PurgeRetired, PurgeReplays, q, c
<1>5. ASSUME NEW init PROVE Good(CheckInit(m, init, t).m)
  BY <1>1 DEF CheckInit, PurgePending, PurgeReplays, Outcome, q, c
<1>6. ASSUME NEW peer PROVE Good(RemoveSession(m, peer))
  BY <1>1 DEF RemoveSession
<1>7. ASSUME NEW p PROVE Good(AdvanceSend(m, p))
  BY <1>1 DEF AdvanceSend
<1>8. ASSUME NEW frame PROVE Good(RecordFrame(m, frame))
  BY <1>1 DEF RecordFrame
<1>9. ASSUME NEW init, NEW key PROVE Good(InstallInit(m, init, key, t).m)
  BY <1>1 DEF InstallInit, CreateSession, PurgePending, Outcome, q
<1>10. ASSUME NEW self, NEW sid, NEW good \in BOOLEAN, NEW key
       PROVE  Good(HandleResp(m, self, sid, good, key, t).m)
  BY <1>1 DEF HandleResp, CreateSession, PurgePending, Outcome, q
<1> HIDE DEF Good
<1> QED BY <1>3, <1>4, <1>5, <1>6, <1>7, <1>8, <1>9, <1>10

(* create_handshake_init enters one initiation.                            *)
LEMMA CreateInitCaches ==
  ASSUME NEW m, TableInv(m), NEW peer, NEW sid, NEW t \in Nat
  PROVE  LET n == CreateHandshakeInit(m, peer, sid, t).m
         IN  /\ n.replays = m.replays
             /\ \A s \in DOMAIN n.pending :
                  n.pending[s].peer = peer
                    \/ (s \in DOMAIN m.pending /\ n.pending[s] = m.pending[s])
<1> DEFINE q == Live(m.pending, t)
           e == [peer |-> peer, expires |-> t + HandshakeTimeout]
           n == CreateHandshakeInit(m, peer, sid, t).m
<1>1. \A s \in DOMAIN q : s \in DOMAIN m.pending /\ q[s] = m.pending[s]
  BY LiveFacts
<1>2. n.replays = m.replays /\ (n.pending = q \/ n.pending = Put(q, sid, e))
  BY DEF CreateHandshakeInit, PurgePending, Outcome, TableInv, TableType
<1> HIDE DEF q
<1>3. \A s \in DOMAIN Put(q, sid, e) :
        Put(q, sid, e)[s].peer = peer \/ (s \in DOMAIN q /\ Put(q, sid, e)[s] = q[s])
  BY DEF Put
<1> QED BY <1>1, <1>2, <1>3

(* The second critical section of handle_handshake_init records the INIT,  *)
(* unless it is recorded, and lets the lower NodeId's initiation stand.    *)
LEMMA AdmitInitCaches ==
  ASSUME NEW m, TableInv(m), NEW self, NEW init, NEW t \in Nat
  PROVE  LET out == AdmitInit(m, self, init, t)
             known == init \in DOMAIN PurgeReplays(m, t).replays
         IN  /\ known => Remembers(out.m, m, t)
             /\ ~known => /\ init \in DOMAIN m.replays => m.replays[init].expires <= t
                          /\ init \in DOMAIN out.m.replays
                          /\ out.m.replays[init].expires = t + ReplayTtl
                          /\ \A i \in DOMAIN m.replays :
                               i # init /\ m.replays[i].expires > t =>
                                 i \in DOMAIN out.m.replays /\ out.m.replays[i] = m.replays[i]
             /\ \A s \in DOMAIN out.m.pending :
                  s \in DOMAIN m.pending /\ out.m.pending[s] = m.pending[s]
             /\ out.m.sessions = m.sessions
             /\ out.ok /\ self < init.peer /\ init.peer \in DOMAIN m.sessions =>
                  ~m.sessions[init.peer].local
<1>1. DOMAIN m = {"sessions", "byId", "retired", "pending", "replays"}
  BY DEF TableInv, TableType
<1> DEFINE q == Live(m.pending, t)
           c == Live(m.replays, t)
           e == [expires |-> t + ReplayTtl]
           out == AdmitInit(m, self, init, t)
<1>2. /\ \A s \in DOMAIN q : s \in DOMAIN m.pending /\ q[s] = m.pending[s]
      /\ \A i \in DOMAIN m.replays : m.replays[i].expires > t => i \in DOMAIN c /\ c[i] = m.replays[i]
      /\ \A i \in DOMAIN m.replays : i \notin DOMAIN c => m.replays[i].expires <= t
  BY LiveFacts, SMT DEF Live, Restrict, TableInv, TableType
<1> HIDE DEF q, c
<1>3. PurgeReplays(m, t).replays = c
  BY <1>1 DEF PurgeReplays, c
<1>4. /\ init \in DOMAIN c => out.m.replays = c
      /\ init \notin DOMAIN c => out.m.replays = Put(c, init, e)
      /\ out.m.pending = q \/ \E S : out.m.pending = Without(q, S)
      /\ out.m.sessions = m.sessions
      /\ out.ok /\ self < init.peer /\ init.peer \in DOMAIN m.sessions =>
                  ~m.sessions[init.peer].local
  BY <1>1 DEF AdmitInit, PurgePending, PurgeReplays, Outcome, q, c
<1> HIDE DEF out
<1>5. \A S : \A s \in DOMAIN Without(q, S) : s \in DOMAIN q /\ Without(q, S)[s] = q[s]
  BY DEF Without, Restrict
<1>6. /\ DOMAIN Put(c, init, e) = DOMAIN c \cup {init}
      /\ Put(c, init, e)[init].expires = t + ReplayTtl
      /\ \A i \in DOMAIN c : i # init => Put(c, init, e)[i] = c[i]
  BY DEF Put
<1>7. \A s \in DOMAIN out.m.pending : s \in DOMAIN m.pending /\ out.m.pending[s] = m.pending[s]
  BY <1>2, <1>4, <1>5, SMT
<1>8. init \in DOMAIN c => Remembers(out.m, m, t)
  BY <1>2, <1>4, <1>7 DEF Remembers
<1>9. init \notin DOMAIN c =>
        /\ init \in DOMAIN m.replays => m.replays[init].expires <= t
        /\ init \in DOMAIN out.m.replays
        /\ out.m.replays[init].expires = t + ReplayTtl
        /\ \A i \in DOMAIN m.replays :
             i # init /\ m.replays[i].expires > t =>
               i \in DOMAIN out.m.replays /\ out.m.replays[i] = m.replays[i]
  BY <1>2, <1>4, <1>6
<1> QED BY <1>3, <1>4, <1>7, <1>8, <1>9 DEF out
=============================================================================
