--------------------------- MODULE HandshakeProofs ---------------------------
(***************************************************************************)
(* The steps that change the tables of a node keep HInv, which             *)
(* HandshakeInvariant states and proves of the other steps; so two nodes   *)
(* never disagree about what a session id stands for.                      *)
(***************************************************************************)
EXTENDS HandshakeInvariant

(* Most leaves are steps of logic and sets, for Zenon; those that need     *)
(* arithmetic, or more of functions and records, name SMT.                 *)
USE Zenon

(* The peer is declared dead, an answer finds its queue full, a deadline   *)
(* passes.                                                                 *)
LEMMA TableShrinks ==
  ASSUME HInv, setting' = setting, NEW n \in Node,
         AnswerFails(n) \/ Dead(n) \/ GraceOver(n) \/ PendingOver(n)
  PROVE  HInv'
<1>0. Other(n) \in Node
  BY TwoNodes
<1>1. TableInv(sm[n]) /\ YoungCache(sm[n]) /\ DOMAIN sm = Node
  BY DEF HInv, Shape, TableShape
<1>2. faults \in 0 .. setting.faults /\ setting.faults \in Nat
  BY HandshakeAssumption DEF HInv, Shape
<1>3. /\ TableInv(RemoveSession(sm[n], Other(n)))
      /\ TableInv(PurgeRetired(sm[n], RetiredGrace))
      /\ TableInv(PurgePending(sm[n], HandshakeTimeout))
  BY <1>0, <1>1, RemoveSessionInv, PurgeRetiredInv, PurgePendingInv
<1>4. /\ Quietly(RemoveSession(sm[n], Other(n)), sm[n])
      /\ Quietly(PurgeRetired(sm[n], RetiredGrace), sm[n])
      /\ Quietly(PurgePending(sm[n], HandshakeTimeout), sm[n])
  BY <1>1, PurgesQuiet
<1>5. CASE AnswerFails(n)
  <2>1. /\ sm' = [sm EXCEPT ![n] = RemoveSession(sm[n], Other(n))]
        /\ rx' = [rx EXCEPT ![n] = Idle]
        /\ faults' \in 0 .. setting.faults /\ UNCHANGED <<hs, drv, chan, answers, knows>>
    BY <1>1, <1>2, <1>5, SMT DEF AnswerFails
  <2> QED BY <1>3, <1>4, <2>1, OrderlyTableStep
<1>6. CASE Dead(n)
  <2>1. /\ sm' = [sm EXCEPT ![n] = RemoveSession(sm[n], Other(n))] /\ rx' = rx
        /\ faults' \in 0 .. setting.faults /\ UNCHANGED <<hs, drv, chan, answers, knows>>
    BY <1>1, <1>2, <1>6, SMT DEF Dead
  <2> QED BY <1>3, <1>4, <2>1, OrderlyTableStep
<1>7. CASE GraceOver(n)
  <2>1. /\ sm' = [sm EXCEPT ![n] = PurgeRetired(sm[n], RetiredGrace)] /\ rx' = rx
        /\ faults' \in 0 .. setting.faults /\ UNCHANGED <<hs, drv, chan, answers, knows>>
    BY <1>1, <1>2, <1>7 DEF GraceOver
  <2> QED BY <1>3, <1>4, <2>1, OrderlyTableStep
<1>8. CASE PendingOver(n)
  <2>1. /\ sm' = [sm EXCEPT ![n] = PurgePending(sm[n], HandshakeTimeout)] /\ rx' = rx
        /\ faults' \in 0 .. setting.faults /\ UNCHANGED <<hs, drv, chan, answers, knows>>
    BY <1>1, <1>2, <1>8 DEF PendingOver
  <2> QED BY <1>3, <1>4, <2>1, OrderlyTableStep
<1> QED BY <1>5, <1>6, <1>7, <1>8

(* The RESP leaves; the entry of the handshake is overwritten.             *)
LEMMA AnswerMoves ==
  ASSUME HInv, setting' = setting, NEW n \in Node, Answer(n) \/ MarkDone(n)
  PROVE  HInv'
<1>0. Other(n) \in Node /\ Other(n) # n
  BY TwoNodes
<1>1. /\ rx \in [Node -> Receiving] /\ rx[n] \in Receiving
      /\ \A p \in Node : rx[p].stage # "idle" => rx[p].init.peer = Other(p)
      /\ chan \in [Node -> Seq(Message)] /\ \A p \in Node : chan[p] \in Seq(Message)
  BY DEF HInv, Shape, ReceiverShape
<1>2. CASE Answer(n)
  <2> DEFINE msg == RespMsg(rx[n].init.sid, rx[n].key)
             r == [stage |-> "answered", init |-> rx[n].init]
             a == Append(chan[Other(n)], msg)
  <2>1. /\ rx[n].stage = "installed" /\ chan' = [chan EXCEPT ![Other(n)] = a]
        /\ rx' = [rx EXCEPT ![n] = r] /\ UNCHANGED <<sm, hs, drv, answers, faults, knows>>
    BY <1>0, <1>1, <1>2 DEF Answer
  <2>2. rx[n].init \in InitFrame /\ rx[n].key \in Key
    BY <1>1, <2>1 DEF Receiving
  <2>3. rx[n].init.sid \in Sid /\ rx[n].key = <<rx[n].init.sid, 0>>
    BY <2>1, <2>2 DEF InitFrame, HInv, OneKey
  <2>4. msg \in Message /\ msg.type = "RESP" /\ msg.key = <<msg.sid, 0>>
    BY <2>2, <2>3 DEF RespMsg, Message
  <2>5. r \in Receiving /\ r.stage = "answered" /\ r.init = rx[n].init
    BY <2>2 DEF Receiving
  <2> HIDE DEF msg, r
  <2>6. a \in Seq(Message) /\ Range(a) \subseteq Range(chan[Other(n)]) \cup {msg}
    BY <1>0, <1>1, <2>4, ChannelAppend
  <2> HIDE DEF a
  <2>7. /\ chan' \in [Node -> Seq(Message)] /\ chan'[Other(n)] = a
        /\ \A p \in Node : p # Other(n) => chan'[p] = chan[p]
    BY <1>0, <1>1, <2>1, <2>6
  <2>8. rx' \in [Node -> Receiving] /\ rx'[n] = r /\ \A p \in Node : p # n => rx'[p] = rx[p]
    BY <1>1, <2>1, <2>5
  <2>9. ReceiverShape'
    BY <1>1, <2>1, <2>5, <2>7, <2>8 DEF ReceiverShape
  <2>10. Shape'
    BY <2>1, <2>9 DEF HInv, Shape, TableShape, DriverShape
  <2>11. \A p \in Node : OrderlyTable(p) /\ OrderlyDriver(p)
    BY <2>1, SameOrderly DEF HInv
  <2>12. OrderlyChannel(Other(n)) /\ OrderlyReceiver(n)
    BY <2>1, <2>4, <2>5, <2>6, <2>7, <2>8, SMT DEF OrderlyChannel, OrderlyReceiver
  <2>13. \A p \in Node : (p # Other(n) => OrderlyChannel(p)) /\ (p # n => OrderlyReceiver(p))
    BY <2>7, <2>8, SameOrderly DEF HInv
  <2> QED BY <2>1, <2>10, <2>11, <2>12, <2>13, OrderlyStep
<1>3. CASE MarkDone(n)
  <2> DEFINE e == [NoEntry EXCEPT !.sid = rx[n].init.sid, !.done = TRUE]
  <2>1. /\ rx[n].stage = "answered" /\ hs' = [hs EXCEPT ![n] = e]
        /\ rx' = [rx EXCEPT ![n] = Idle] /\ UNCHANGED <<sm, drv, chan, answers, faults, knows>>
    BY <1>3 DEF MarkDone
  <2>2. rx[n].init \in InitFrame
    BY <1>1, <2>1 DEF Receiving
  <2>3. e \in [sid : Sid \cup {0}, done : BOOLEAN, cookie : BOOLEAN, updated : BOOLEAN]
    BY <2>2 DEF InitFrame, NoEntry
  <2> HIDE DEF e
  <2>4. Idle \in Receiving /\ Idle.stage = "idle"
    BY DEF Receiving, Idle
  <2>5. rx' \in [Node -> Receiving] /\ rx'[n] = Idle /\ \A p \in Node : p # n => rx'[p] = rx[p]
    BY <1>1, <2>1, <2>4
  <2>6. ReceiverShape'
    BY <1>1, <2>1, <2>4, <2>5 DEF ReceiverShape
  <2>7. DriverShape'
    BY <2>1, <2>3 DEF HInv, Shape, DriverShape
  <2>8. Shape'
    BY <2>1, <2>6, <2>7 DEF HInv, Shape, TableShape
  <2>9. \A p \in Node : OrderlyTable(p) /\ OrderlyDriver(p) /\ OrderlyChannel(p)
    BY <2>1, SameOrderly DEF HInv
  <2>10. \A p \in Node : OrderlyReceiver(p)
    BY <2>4, <2>5 DEF OrderlyReceiver
  <2> QED BY <2>1, <2>8, <2>9, <2>10, OrderlyStep
<1> QED BY <1>2, <1>3

(* create_handshake_init.                                                  *)
LEMMA CreateMoves ==
  ASSUME HInv, setting' = setting, NEW n \in Node, Create(n) PROVE HInv'
<1> DEFINE sid == drv[n].sid
           out == CreateHandshakeInit(sm[n], Other(n), sid, 0)
           d == IF out.ok THEN [pc |-> "send", sid |-> sid, dest |-> drv[n].dest, sends |-> 0]
                ELSE Asleep
<1>0. Other(n) \in Node
  BY TwoNodes
<1>1. TableInv(sm[n]) /\ YoungCache(sm[n]) /\ DOMAIN sm = Node
  BY DEF HInv, Shape, TableShape
<1>2. /\ drv \in [Node -> Driving] /\ drv[n] \in Driving
      /\ hs \in [Node -> [sid : Sid \cup {0}, done : BOOLEAN, cookie : BOOLEAN, updated : BOOLEAN]]
  BY DEF HInv, Shape, DriverShape
<1>3. /\ drv[n].pc = "reserved" /\ sm' = [sm EXCEPT ![n] = out.m]
      /\ drv' = [drv EXCEPT ![n] = d]
      /\ hs' = hs \/ hs' = [hs EXCEPT ![n] = NoEntry]
      /\ UNCHANGED <<rx, chan, answers, faults, knows>>
  BY <1>2 DEF Create
<1>4. sid \in Sid /\ drv[n].dest \in BOOLEAN
  BY <1>2, <1>3 DEF Driving
<1>5. TableInv(out.m)
  BY <1>0, <1>1, <1>4, CreateHandshakeInitInv
<1>6. /\ LiveSessions(out.m) \subseteq LiveSessions(sm[n])
      /\ DOMAIN out.m.pending \subseteq DOMAIN sm[n].pending \cup {sid}
      /\ SameCache(out.m, sm[n])
  BY <1>1, CreateInitBegins
<1>7. /\ d \in Driving /\ d.pc \in {"send", "idle"}
      /\ d.pc = "send" => d.sid = sid /\ d.sends = 0
  BY <1>4 DEF Driving, Asleep
<1>8. setting.sends \in Nat \ {0}
  BY HandshakeAssumption DEF HInv, Shape
<1>9. Drives(n, sid)
  BY <1>3 DEF Drives
<1> HIDE DEF out, d
<1>10. /\ DOMAIN sm' = Node /\ sm'[n] = out.m
       /\ \A p \in Node : p # n => sm'[p] = sm[p]
  BY <1>1, <1>3
<1>11. TableShape'
  BY <1>5, <1>6, <1>10 DEF HInv, Shape, TableShape, SameCache
<1>12. drv' \in [Node -> Driving] /\ drv'[n] = d /\ \A p \in Node : p # n => drv'[p] = drv[p]
  BY <1>2, <1>3, <1>7
<1>13. hs' \in [Node -> [sid : Sid \cup {0}, done : BOOLEAN, cookie : BOOLEAN, updated : BOOLEAN]]
  <2>1. NoEntry \in [sid : Sid \cup {0}, done : BOOLEAN, cookie : BOOLEAN, updated : BOOLEAN]
    BY DEF NoEntry
  <2> QED BY <1>2, <1>3, <2>1
<1>14. DriverShape'
  <2>1. ASSUME NEW p \in Node
        PROVE  /\ drv'[p].pc \in {"send", "wait"} => drv'[p].sends <= setting.sends
               /\ drv'[p].pc = "send" => drv'[p].sends < setting.sends
    <3>1. CASE p # n
      BY <1>12, <3>1 DEF HInv, Shape, DriverShape
    <3>2. CASE p = n
      BY <1>7, <1>8, <1>12, <3>2, SMT
    <3> QED BY <3>1, <3>2
  <2> QED BY <1>12, <1>13, <2>1 DEF DriverShape
<1>15. Shape'
  BY <1>3, <1>11, <1>14 DEF HInv, Shape, ReceiverShape
<1>16. \A p \in Node : OrderlyReceiver(p) /\ OrderlyChannel(p)
  BY <1>3, SameOrderly DEF HInv
<1>17. OrderlyTable(n)
  BY <1>6, <1>9, <1>10 DEF OrderlyTable, SameCache
<1>18. OrderlyDriver(n)
  BY <1>7, <1>9, <1>12 DEF OrderlyDriver, Drives
<1>19. \A p \in Node : p # n => OrderlyTable(p) /\ OrderlyDriver(p)
  BY <1>10, <1>12, SameOrderly DEF HInv
<1> QED BY <1>3, <1>15, <1>16, <1>17, <1>18, <1>19, OrderlyStep, SMTT(30)

(* The INIT is sent.                                                       *)
LEMMA SendMoves ==
  ASSUME HInv, setting' = setting, NEW n \in Node, Send(n) PROVE HInv'
<1> DEFINE Entry == [sid : Sid \cup {0}, done : BOOLEAN, cookie : BOOLEAN, updated : BOOLEAN]
           msg == InitMsg(drv[n].sid, hs[n].cookie)
           a == Append(chan[Other(n)], msg)
           c == IF drv[n].dest THEN a ELSE chan[Other(n)]
           d == [pc |-> "wait", sid |-> drv[n].sid, dest |-> drv[n].dest,
                 sends |-> drv[n].sends + 1]
           e == [hs[n] EXCEPT !.updated = FALSE]
<1>0. Other(n) \in Node /\ Other(n) # n /\ Other(Other(n)) = n
  BY TwoNodes
<1>1. drv \in [Node -> Driving] /\ drv[n] \in Driving /\ hs \in [Node -> Entry] /\ hs[n] \in Entry
  BY DEF HInv, Shape, DriverShape
<1>2. chan \in [Node -> Seq(Message)] /\ chan[Other(n)] \in Seq(Message)
  BY <1>0 DEF HInv, Shape, ReceiverShape
<1>3. /\ drv[n].pc = "send" /\ chan' = [chan EXCEPT ![Other(n)] = c]
      /\ hs' = [hs EXCEPT ![n] = e] /\ drv' = [drv EXCEPT ![n] = d]
      /\ UNCHANGED <<sm, rx, answers, faults, knows>>
  BY <1>0, <1>1, <1>2 DEF Send
<1>4. drv[n].sid \in Sid /\ drv[n].sends \in Nat
  BY <1>1, <1>3 DEF Driving
<1>5. d \in Driving /\ d.pc = "wait" /\ d.sid = drv[n].sid /\ d.sends = drv[n].sends + 1
  <2>1. drv[n] \in [pc : {"send", "wait"}, sid : Sid, dest : BOOLEAN, sends : Nat]
    BY <1>1, <1>3 DEF Driving
  <2>2. drv[n].sid \in Sid /\ drv[n].dest \in BOOLEAN /\ drv[n].sends + 1 \in Nat
    BY <2>1, SMT
  <2> QED BY <2>2 DEF Driving
<1>6. e \in Entry
  BY <1>1
<1>7. msg \in Message /\ msg.type = "INIT" /\ msg.sid = drv[n].sid
  <2>1. hs[n].cookie \in BOOLEAN
    BY <1>1
  <2> QED BY <1>4, <2>1 DEF InitMsg, Message
<1> HIDE DEF msg, d, e
<1>8. a \in Seq(Message) /\ Range(a) \subseteq Range(chan[Other(n)]) \cup {msg}
  BY <1>2, <1>7, ChannelAppend
<1> HIDE DEF a
<1>9. c \in Seq(Message) /\ Range(c) \subseteq Range(chan[Other(n)]) \cup {msg}
  BY <1>2, <1>8
<1> HIDE DEF c
<1>10. /\ chan' \in [Node -> Seq(Message)] /\ chan'[Other(n)] = c
       /\ \A p \in Node : p # Other(n) => chan'[p] = chan[p]
  BY <1>0, <1>2, <1>3, <1>9
<1>11. drv' \in [Node -> Driving] /\ drv'[n] = d /\ \A p \in Node : p # n => drv'[p] = drv[p]
  BY <1>1, <1>3, <1>5
<1>12. hs' \in [Node -> Entry]
  BY <1>1, <1>3, <1>6
<1>13. DriverShape'
  <2>1. ASSUME NEW p \in Node
        PROVE  /\ drv'[p].pc \in {"send", "wait"} => drv'[p].sends <= setting.sends
               /\ drv'[p].pc = "send" => drv'[p].sends < setting.sends
    <3>1. CASE p # n
      BY <1>11, <3>1 DEF HInv, Shape, DriverShape
    <3>2. CASE p = n
      <4>1. drv[n].sends < setting.sends /\ setting.sends \in Nat
        BY <1>3, HandshakeAssumption DEF HInv, Shape, DriverShape
      <4> QED BY <1>4, <1>5, <1>11, <3>2, <4>1, SMT
    <3> QED BY <3>1, <3>2
  <2> QED BY <1>11, <1>12, <2>1, SMTT(30) DEF DriverShape
<1>14. ReceiverShape'
  BY <1>3, <1>10 DEF HInv, Shape, ReceiverShape
<1>15. Shape'
  BY <1>3, <1>13, <1>14 DEF HInv, Shape, TableShape
<1>16. \A p \in Node : OrderlyTable(p) /\ OrderlyReceiver(p)
  BY <1>3, SameOrderly DEF HInv
<1>17. OrderlyDriver(n)
  BY <1>3, <1>5, <1>11 DEF OrderlyDriver, Drives
<1>18. OrderlyChannel(Other(n))
  BY <1>0, <1>3, <1>7, <1>9, <1>10 DEF OrderlyChannel, Drives
<1>19. \A p \in Node : (p # n => OrderlyDriver(p)) /\ (p # Other(n) => OrderlyChannel(p))
  BY <1>10, <1>11, SameOrderly DEF HInv
<1> QED BY <1>3, <1>15, <1>16, <1>17, <1>18, <1>19, OrderlyStep, SMTT(30)

(* handle_handshake_init, first critical section.                          *)
LEMMA ReceiveInitMoves ==
  ASSUME HInv, setting' = setting, NEW n \in Node, ReceiveInit(n) PROVE HInv'
<1> DEFINE msg == Head(chan[n])
           init == [peer |-> Other(n), sid |-> msg.sid]
           out == CheckInit(sm[n], init, 0)
           r == IF out.ok THEN [stage |-> "checked", init |-> init] ELSE Idle
<1>0. Other(n) \in Node
  BY TwoNodes
<1>1. TableInv(sm[n]) /\ YoungCache(sm[n]) /\ DOMAIN sm = Node
  BY DEF HInv, Shape, TableShape
<1>2. /\ chan \in [Node -> Seq(Message)] /\ chan[n] \in Seq(Message)
      /\ rx \in [Node -> Receiving]
  BY DEF HInv, Shape, ReceiverShape
<1>3. /\ chan[n] # <<>> /\ msg.type = "INIT" /\ chan' = [chan EXCEPT ![n] = Tail(chan[n])]
      /\ sm' = [sm EXCEPT ![n] = out.m] /\ rx' = [rx EXCEPT ![n] = r]
      /\ UNCHANGED <<hs, drv, answers, faults, knows>>
  BY <1>2 DEF ReceiveInit, Take
<1>4. msg \in Range(chan[n]) /\ msg \in Message /\ Tail(chan[n]) \in Seq(Message)
      /\ Range(Tail(chan[n])) \subseteq Range(chan[n])
  BY <1>2, <1>3, ChannelTail
<1>5. msg.sid \in Sid
  BY <1>4 DEF Message
<1>6. Carries(n, msg.sid)
  BY <1>3, <1>4 DEF Carries
<1> HIDE DEF msg
<1>7. init \in InitFrame /\ init.peer = Other(n) /\ init.sid = msg.sid
  BY <1>0, <1>5 DEF InitFrame
<1>8. TableInv(out.m) /\ Quietly(out.m, sm[n])
      /\ (out.ok => init \notin DOMAIN sm[n].replays)
  BY <1>1, CheckInitInv, CheckInitQuiet
<1>9. out.ok => ~Cached(n, msg.sid)
  BY <1>8 DEF Cached
<1> HIDE DEF out, init
<1>10. /\ r \in Receiving /\ (r.stage = "idle" \/ r.stage = "checked")
       /\ r.stage = "checked" => out.ok /\ r.init = init
  BY <1>7 DEF Receiving, Idle
<1> HIDE DEF r
<1>11. /\ DOMAIN sm' = Node /\ sm'[n] = out.m
       /\ \A p \in Node : p # n => sm'[p] = sm[p]
  BY <1>1, <1>3
<1>12. TableShape'
  BY <1>8, <1>11 DEF HInv, Shape, TableShape, Quietly, SameCache
<1>13. rx' \in [Node -> Receiving] /\ rx'[n] = r /\ \A p \in Node : p # n => rx'[p] = rx[p]
  BY <1>2, <1>3, <1>10
<1>14. /\ chan' \in [Node -> Seq(Message)]
       /\ \A p \in Node : Range(chan'[p]) \subseteq Range(chan[p])
  BY <1>2, <1>3, <1>4
<1>15. ReceiverShape'
  BY <1>7, <1>10, <1>13, <1>14 DEF HInv, Shape, ReceiverShape
<1>16. Shape'
  BY <1>3, <1>12, <1>15 DEF HInv, Shape, DriverShape
<1>17. \A p \in Node : OrderlyDriver(p) /\ OrderlyChannel(p)
  BY <1>3, <1>14, SameOrderly DEF HInv
<1>18. OrderlyTable(n)
  BY <1>8, <1>11 DEF OrderlyTable, Quietly, SameCache
<1>19. OrderlyReceiver(n)
  BY <1>6, <1>7, <1>9, <1>10, <1>13 DEF OrderlyReceiver
<1>20. \A p \in Node : p # n => OrderlyTable(p) /\ OrderlyReceiver(p)
  BY <1>11, <1>13, SameOrderly DEF HInv
<1> QED BY <1>3, <1>16, <1>17, <1>18, <1>19, <1>20, OrderlyStep, SMTT(30)

(* handle_handshake_init, second critical section.                         *)
LEMMA AdmitMoves ==
  ASSUME HInv, setting' = setting, NEW n \in Node, Admit(n) PROVE HInv'
<1> DEFINE init == rx[n].init
           out == AdmitInit(sm[n], n, init, 0)
           r == IF out.ok THEN [rx[n] EXCEPT !.stage = "admitted"] ELSE Idle
<1>1. TableInv(sm[n]) /\ YoungCache(sm[n]) /\ DOMAIN sm = Node
  BY DEF HInv, Shape, TableShape
<1>2. rx \in [Node -> Receiving] /\ rx[n] \in Receiving
  BY DEF HInv, Shape, ReceiverShape
<1>3. /\ rx[n].stage = "checked" /\ sm' = [sm EXCEPT ![n] = out.m]
      /\ rx' = [rx EXCEPT ![n] = r] /\ UNCHANGED <<hs, drv, chan, answers, faults, knows>>
  BY <1>2 DEF Admit
<1>4. init \in InitFrame /\ init.peer = Other(n)
  BY <1>2, <1>3 DEF HInv, Shape, ReceiverShape, Receiving
<1>5. init = [peer |-> Other(n), sid |-> init.sid]
  BY <1>4 DEF InitFrame
<1>6. /\ r \in Receiving /\ (r.stage = "idle" \/ r.stage = "admitted")
      /\ r.stage = "admitted" => out.ok /\ r.init = init
  BY <1>2, <1>3, <1>4 DEF Receiving, Idle
<1>7. TableInv(out.m)
  BY <1>1, <1>4, AdmitInitInv
<1>8. /\ LiveSessions(out.m) \subseteq LiveSessions(sm[n])
      /\ DOMAIN out.m.pending \subseteq DOMAIN sm[n].pending
      /\ YoungCache(out.m)
      /\ DOMAIN sm[n].replays \subseteq DOMAIN out.m.replays
      /\ out.ok => init \in DOMAIN out.m.replays
  BY <1>1, <1>4, AdmitInitRecords
<1> HIDE DEF out, r
<1>9. /\ DOMAIN sm' = Node /\ sm'[n] = out.m
      /\ \A p \in Node : p # n => sm'[p] = sm[p]
  BY <1>1, <1>3
<1>10. TableShape'
  BY <1>7, <1>8, <1>9 DEF HInv, Shape, TableShape
<1>11. rx' \in [Node -> Receiving] /\ rx'[n] = r /\ \A p \in Node : p # n => rx'[p] = rx[p]
  BY <1>2, <1>3, <1>6
<1>12. ReceiverShape'
  BY <1>3, <1>4, <1>6, <1>11 DEF HInv, Shape, ReceiverShape
<1>13. Shape'
  BY <1>3, <1>10, <1>12 DEF HInv, Shape, DriverShape
<1>14. \A p \in Node : OrderlyDriver(p) /\ OrderlyChannel(p)
  BY <1>3, SameOrderly DEF HInv
<1>15. OrderlyTable(n)
  BY <1>8, <1>9 DEF OrderlyTable
<1>16. OrderlyReceiver(n)
  BY <1>3, <1>5, <1>6, <1>8, <1>9, <1>11, SMTT(30) DEF OrderlyReceiver
<1>17. \A p \in Node : p # n => OrderlyTable(p) /\ OrderlyReceiver(p)
  BY <1>9, <1>11, SameOrderly DEF HInv
<1> QED BY <1>3, <1>13, <1>14, <1>15, <1>16, <1>17, OrderlyStep, SMTT(30)

(* handle_handshake_resp.                                                  *)
LEMMA ReceiveRespMoves ==
  ASSUME HInv, setting' = setting, NEW n \in Node, ReceiveResp(n) PROVE HInv'
<1> DEFINE Entry == [sid : Sid \cup {0}, done : BOOLEAN, cookie : BOOLEAN, updated : BOOLEAN]
           msg == Head(chan[n])
           out == HandleResp(sm[n], n, msg.sid, TRUE, msg.key, 0)
           e == [hs[n] EXCEPT !.done = @ \/ out.ok]
<1>1. TableInv(sm[n]) /\ YoungCache(sm[n]) /\ DOMAIN sm = Node
  BY DEF HInv, Shape, TableShape
<1>2. chan \in [Node -> Seq(Message)] /\ chan[n] \in Seq(Message)
  BY DEF HInv, Shape, ReceiverShape
<1>3. hs \in [Node -> Entry] /\ hs[n] \in Entry
  BY DEF HInv, Shape, DriverShape
<1>4. /\ chan[n] # <<>> /\ msg.type = "RESP" /\ chan' = [chan EXCEPT ![n] = Tail(chan[n])]
      /\ \/ sm' = [sm EXCEPT ![n] = out.m] /\ hs' = [hs EXCEPT ![n] = e]
         \/ sm' = sm /\ hs' = hs
      /\ UNCHANGED <<drv, rx, answers, faults, knows>>
  BY <1>2, <1>3 DEF ReceiveResp, Take
<1>5. msg \in Range(chan[n]) /\ msg \in Message /\ Tail(chan[n]) \in Seq(Message)
      /\ Range(Tail(chan[n])) \subseteq Range(chan[n])
  BY <1>2, <1>4, ChannelTail
<1>6. msg.sid \in Sid /\ msg.key \in Key
  BY <1>4, <1>5 DEF Message
<1>7. msg.key = <<msg.sid, 0>>
  BY <1>4, <1>5 DEF HInv, OneKey
<1> HIDE DEF msg
<1>8. TableInv(out.m)
  BY <1>1, <1>6, HandleRespInv
<1>9. /\ DOMAIN out.m.pending \subseteq DOMAIN sm[n].pending
      /\ SameCache(out.m, sm[n])
      /\ \A s \in LiveSessions(out.m) :
           \/ s \in LiveSessions(sm[n])
           \/ msg.sid \in DOMAIN sm[n].pending /\ Made(s, msg.sid, TRUE, msg.key)
  <2> DEFINE m == sm[n]
             sid == msg.sid
             key == msg.key
             o == HandleResp(m, n, sid, TRUE, key, 0)
  <2>1. TableInv(m) /\ YoungCache(m) /\ sid \in Sid /\ key \in Key
    BY <1>1, <1>6
  <2> HIDE DEF m, sid, key
  <2>2. /\ DOMAIN o.m.pending \subseteq DOMAIN m.pending
        /\ SameCache(o.m, m)
        /\ \A s \in LiveSessions(o.m) :
             \/ s \in LiveSessions(m)
             \/ sid \in DOMAIN m.pending /\ Made(s, sid, TRUE, key)
    BY <2>1, HandleRespLive
  <2>3. o = out
    BY DEF m, sid, key
  <2> HIDE DEF o, out
  <2> QED BY <2>2, <2>3 DEF m, sid, key
<1>10. out.ok \in BOOLEAN
  BY DEF HandleResp, Outcome, ActiveFull
<1>11. e \in Entry
  BY <1>3, <1>10
<1> HIDE DEF out, e
<1>12. /\ DOMAIN sm' = Node /\ (sm'[n] = out.m \/ sm'[n] = sm[n])
       /\ \A p \in Node : p # n => sm'[p] = sm[p]
  BY <1>1, <1>4
<1>13. TableShape'
  BY <1>8, <1>9, <1>12 DEF HInv, Shape, TableShape, SameCache
<1>14. hs' \in [Node -> Entry]
  BY <1>3, <1>4, <1>11
<1>15. DriverShape'
  BY <1>4, <1>14 DEF HInv, Shape, DriverShape
<1>16. /\ chan' \in [Node -> Seq(Message)]
       /\ \A p \in Node : Range(chan'[p]) \subseteq Range(chan[p])
  BY <1>2, <1>4, <1>5
<1>17. ReceiverShape'
  BY <1>4, <1>16 DEF HInv, Shape, ReceiverShape
<1>18. Shape'
  BY <1>4, <1>13, <1>15, <1>17 DEF HInv, Shape
<1>19. \A p \in Node : OrderlyDriver(p) /\ OrderlyReceiver(p) /\ OrderlyChannel(p)
  BY <1>4, <1>16, SameOrderly DEF HInv
<1>20. sm'[n] = out.m => OrderlyTable(n)
  BY <1>7, <1>9 DEF OrderlyTable, SameCache, OneTranscript, Made
<1>21. \A p \in Node : OrderlyTable(p)
  BY <1>12, <1>20, SameOrderly DEF HInv
<1> QED BY <1>4, <1>18, <1>19, <1>21, OrderlyStep

(* A session id is drawn: nobody has anything of it.                       *)
LEMMA ReserveMoves ==
  ASSUME HInv, setting' = setting, NEW n \in Node, NEW sid \in setting.sids, Reserve(n, sid)
  PROVE  HInv'
<1> DEFINE Entry == [sid : Sid \cup {0}, done : BOOLEAN, cookie : BOOLEAN, updated : BOOLEAN]
           d == [pc |-> "reserved", sid |-> sid, dest |-> drv[n].dest]
           e == [NoEntry EXCEPT !.sid = sid]
<1>0. /\ Other(n) \in Node /\ Other(n) # n
      /\ \A p \in Node : Other(p) \in Node /\ Other(Other(p)) = p
      /\ \A p \in Node : p = n \/ p = Other(n)
  BY TwoNodes
<1>1. sid \in Sid
  BY HandshakeAssumption DEF HInv, Shape
<1>2. drv \in [Node -> Driving] /\ drv[n] \in Driving /\ hs \in [Node -> Entry]
  BY DEF HInv, Shape, DriverShape
<1>3. /\ drv[n].pc = "begun" /\ Fresh(n, sid) /\ answers' = [answers EXCEPT ![sid] = 0]
      /\ hs' = [hs EXCEPT ![n] = e] /\ drv' = [drv EXCEPT ![n] = d]
      /\ UNCHANGED <<sm, rx, chan, faults, knows>>
  BY DEF Reserve
<1>4. d \in Driving /\ d.pc = "reserved" /\ d.sid = sid
  <2>1. drv[n].dest \in BOOLEAN
    BY <1>2, <1>3 DEF Driving
  <2> QED BY <1>1, <2>1 DEF Driving
<1>5. e \in Entry
  BY <1>1 DEF NoEntry
<1> HIDE DEF d, e
<1>6. drv' \in [Node -> Driving] /\ drv'[n] = d /\ \A p \in Node : p # n => drv'[p] = drv[p]
  BY <1>2, <1>3, <1>4
<1>7. hs' \in [Node -> Entry]
  BY <1>2, <1>3, <1>5
<1>8. /\ answers' \in [Sid -> Nat] /\ answers'[sid] = 0
      /\ \A x \in Sid : x # sid => answers'[x] = answers[x]
  BY <1>1, <1>3 DEF HInv, Shape
<1>9. Shape'
  <2>1. \A p \in Node : /\ drv'[p].pc \in {"send", "wait"} => drv'[p].sends <= setting.sends
                        /\ drv'[p].pc = "send" => drv'[p].sends < setting.sends
    BY <1>4, <1>6 DEF HInv, Shape, DriverShape
  <2>2. DriverShape'
    BY <1>6, <1>7, <2>1 DEF DriverShape
  <2> QED BY <1>3, <1>8, <2>2 DEF HInv, Shape, TableShape, ReceiverShape
<1>10. \A p \in Node : /\ ~Drives(p, sid) /\ ~Carries(p, sid) /\ ~Handles(p, sid)
                       /\ sid \notin DOMAIN sm[p].pending
                       /\ ~Holds(p, sid, TRUE) /\ ~Holds(p, sid, FALSE)
  <2> SUFFICES ASSUME NEW p \in Node
               PROVE  /\ ~Drives(p, sid) /\ ~Carries(p, sid) /\ ~Handles(p, sid)
                      /\ sid \notin DOMAIN sm[p].pending
                      /\ ~Holds(p, sid, TRUE) /\ ~Holds(p, sid, FALSE)
    OBVIOUS
  <2>1. ~Drives(p, sid)
    BY <1>3 DEF Fresh, Drives
  <2>2. ~Carries(p, sid)
    BY <1>3 DEF Fresh, Carries, Range
  <2>3. ~Handles(p, sid)
    BY <1>3, SMT DEF Fresh, Handles, Idle
  <2>4. ~KnownSid(sm[p], sid)
    BY <1>3 DEF Fresh
  <2>5. \A s \in LiveSessions(sm[p]) : s.id \in DOMAIN sm[p].byId \cup DOMAIN sm[p].retired
    BY SMT DEF HInv, Shape, TableShape, TableInv, ByIdInverse, SidsDisjoint, LiveSessions
  <2>6. \A s \in LiveSessions(sm[p]) : s.id # sid
    BY <2>4, <2>5 DEF KnownSid
  <2> QED BY <2>1, <2>2, <2>3, <2>4, <2>6 DEF KnownSid, Holds
<1>11. \A p \in Node, x \in Sid :
         /\ Drives(p, x)' => Drives(p, x) \/ (p = n /\ x = sid)
         /\ Carries(p, x)' <=> Carries(p, x)
         /\ Handles(p, x)' <=> Handles(p, x)
         /\ Holds(p, x, TRUE)' <=> Holds(p, x, TRUE)
         /\ Holds(p, x, FALSE)' <=> Holds(p, x, FALSE)
         /\ Cached(p, x)' <=> Cached(p, x)
  <2>1. \A p \in Node, x \in Sid : Drives(p, x)' => Drives(p, x) \/ (p = n /\ x = sid)
    BY <1>4, <1>6 DEF Drives
  <2> QED BY <1>3, <2>1 DEF Carries, Handles, Holds, Cached
<1>12. OneInitiator'
  <2>1. \A p \in Node, x \in Sid : Began(p, x)' => Began(p, x) \/ (p = n /\ x = sid)
    BY <1>0, <1>3, <1>11, ZenonT(30) DEF Began
  <2>2. \A p \in Node : ~Began(p, sid)
    BY <1>0, <1>10, ZenonT(30) DEF Began
  <2> QED BY <1>0, <2>1, <2>2, SMT DEF HInv, OneInitiator
<1>13. AnsweredOnce'
  <2> SUFFICES ASSUME NEW p \in Node, NEW x \in Sid PROVE Once(p, x)'
    BY DEF AnsweredOnce
  <2>1. CASE x = sid
    BY <1>0, <1>8, <1>10, <1>11, <2>1, ZenonT(30) DEF Once
  <2>2. CASE x # sid
    <3>1. Once(p, x)
      BY DEF HInv, AnsweredOnce
    <3>2. Arrives(p, x)' => Arrives(p, x)
      BY <1>0, <1>11, <2>2 DEF Arrives
    <3>3. Drives(p, x)' /\ drv'[p].pc = "reserved" => Drives(p, x) /\ drv[p].pc = "reserved"
      BY <1>4, <1>6, <2>2 DEF Drives
    <3> QED BY <1>0, <1>3, <1>8, <1>11, <2>2, <3>1, <3>2, <3>3, ZenonT(30) DEF Once
  <2> QED BY <2>1, <2>2
<1>14. OneKey'
  BY <1>3 DEF HInv, OneKey, OneTranscript
<1> QED BY <1>9, <1>12, <1>13, <1>14 DEF HInv

(* handle_handshake_init, third critical section: the INIT has not been    *)
(* answered, and no copy of it will be.                                    *)
LEMMA InstallMoves ==
  ASSUME HInv, setting' = setting, NEW n \in Node, Install(n) PROVE HInv'
<1> DEFINE init == rx[n].init
           sid == init.sid
           key == Transcript(sid)
           out == InstallInit(sm[n], init, key, 0)
           r == IF out.ok THEN [stage |-> "installed", init |-> init, key |-> key] ELSE Idle
<1>0. /\ Other(n) \in Node /\ Other(n) # n
      /\ \A p \in Node : Other(p) \in Node /\ Other(Other(p)) = p
      /\ \A p \in Node : p = n \/ p = Other(n)
  BY TwoNodes
<1>1. TableInv(sm[n]) /\ YoungCache(sm[n]) /\ DOMAIN sm = Node
  BY DEF HInv, Shape, TableShape
<1>2. rx \in [Node -> Receiving] /\ rx[n] \in Receiving
  BY DEF HInv, Shape, ReceiverShape
<1>3. /\ rx[n].stage = "admitted" /\ sm' = [sm EXCEPT ![n] = out.m]
      /\ rx' = [rx EXCEPT ![n] = r]
      /\ answers' = [answers EXCEPT ![sid] = IF out.ok THEN @ + 1 ELSE @]
      /\ knows' = [knows EXCEPT ![n] = @ \/ out.ok]
      /\ UNCHANGED <<hs, drv, chan, faults>>
  BY DEF Install
<1>4. init \in InitFrame /\ init.peer = Other(n) /\ sid \in Sid
  BY <1>2, <1>3 DEF HInv, Shape, ReceiverShape, Receiving, InitFrame
<1>5. Handles(n, sid)
  BY <1>3 DEF Handles
<1> HIDE DEF init
<1>6. key = <<sid, 0>> /\ key \in Key
  <2>1. Once(n, sid)
    BY <1>4 DEF HInv, AnsweredOnce
  <2>2. answers[sid] = 0
    BY <1>3, <1>5, <2>1, ZenonT(30) DEF Once
  <2> QED BY <1>4, <2>2, HandshakeAssumption DEF Transcript
<1> HIDE DEF key, sid
<1>7. TableInv(out.m)
  BY <1>1, <1>4, <1>6, InstallInitInv
<1>8. /\ DOMAIN out.m.pending \subseteq DOMAIN sm[n].pending
      /\ SameCache(out.m, sm[n])
      /\ \A s \in LiveSessions(out.m) : s \in LiveSessions(sm[n]) \/ Made(s, sid, FALSE, key)
  BY <1>1, <1>4, <1>6, InstallInitLive DEF sid
<1>9. out.ok \in BOOLEAN
  BY DEF InstallInit, Outcome
<1>10. /\ r \in Receiving /\ (r.stage = "idle" \/ r.stage = "installed")
       /\ r.stage = "installed" => r.init = init /\ r.key = key
  BY <1>4, <1>6 DEF Receiving, Idle
<1> HIDE DEF out, r
<1>11. /\ DOMAIN sm' = Node /\ sm'[n] = out.m
       /\ \A p \in Node : p # n => sm'[p] = sm[p]
  BY <1>1, <1>3
<1>12. rx' \in [Node -> Receiving] /\ rx'[n] = r /\ \A p \in Node : p # n => rx'[p] = rx[p]
  BY <1>2, <1>3, <1>10
<1>13. answers' \in [Sid -> Nat] /\ \A x \in Sid : x # sid => answers'[x] = answers[x]
  BY <1>3, <1>4, <1>9, SMT DEF HInv, Shape
<1>14. Shape'
  <2>1. TableShape'
    BY <1>7, <1>8, <1>11 DEF HInv, Shape, TableShape, SameCache
  <2>2. ReceiverShape'
    BY <1>3, <1>4, <1>10, <1>12 DEF HInv, Shape, ReceiverShape
  <2>3. knows' \in [Node -> BOOLEAN]
    BY <1>3, <1>9 DEF HInv, Shape
  <2> QED BY <1>3, <1>13, <2>1, <2>2, <2>3 DEF HInv, Shape, DriverShape
<1>15. \A p \in Node, x \in Sid :
         /\ Drives(p, x)' <=> Drives(p, x)
         /\ Carries(p, x)' <=> Carries(p, x)
         /\ Handles(p, x)' => Handles(p, x)
         /\ Holds(p, x, TRUE)' => Holds(p, x, TRUE)
         /\ Holds(p, x, FALSE)' => Holds(p, x, FALSE) \/ (p = n /\ x = sid)
         /\ Cached(p, x)' <=> Cached(p, x)
         /\ x \in DOMAIN sm'[p].pending => x \in DOMAIN sm[p].pending
  <2>1. \A p \in Node, x \in Sid : /\ Drives(p, x)' <=> Drives(p, x)
                                   /\ Carries(p, x)' <=> Carries(p, x)
    BY <1>3 DEF Drives, Carries
  <2>2. \A p \in Node, x \in Sid : Handles(p, x)' => Handles(p, x)
    BY <1>3, <1>10, <1>12 DEF Handles, init
  <2>3. \A p \in Node, x \in Sid : Cached(p, x)' <=> Cached(p, x)
    BY <1>8, <1>11 DEF Cached, SameCache
  <2>4. \A p \in Node, x \in Sid : x \in DOMAIN sm'[p].pending => x \in DOMAIN sm[p].pending
    BY <1>8, <1>11
  <2>5. \A p \in Node, x \in Sid : Holds(p, x, TRUE)' => Holds(p, x, TRUE)
    BY <1>8, <1>11 DEF Holds, Made
  <2>6. \A p \in Node, x \in Sid :
          Holds(p, x, FALSE)' => Holds(p, x, FALSE) \/ (p = n /\ x = sid)
    BY <1>8, <1>11 DEF Holds, Made
  <2> QED BY <2>1, <2>2, <2>3, <2>4, <2>5, <2>6
<1>16. OneInitiator'
  <2>1. \A p \in Node, x \in Sid : Began(p, x)' => Began(p, x)
    BY <1>0, <1>5, <1>15, ZenonT(30) DEF Began
  <2> QED BY <2>1, NothingBegun DEF HInv
<1>17. AnsweredOnce'
  <2> SUFFICES ASSUME NEW p \in Node, NEW x \in Sid PROVE Once(p, x)'
    BY DEF AnsweredOnce
  <2>1. Once(p, x)
    BY DEF HInv, AnsweredOnce
  <2>2. Arrives(p, x)' <=> Arrives(p, x)
    BY <1>0, <1>15, ZenonT(30) DEF Arrives
  <2>3. CASE x # sid
    <3>1. Handles(p, x)' /\ rx'[p].stage \in {"checked", "admitted"} => rx'[p] = rx[p]
      BY <1>10, <1>12
    <3> QED BY <1>0, <1>3, <1>13, <1>15, <2>1, <2>2, <2>3, <3>1, ZenonT(30) DEF Once
  <2>4. CASE x = sid
    <3>1. Began(Other(n), sid) /\ ~Began(n, sid)
      BY <1>0, <1>4, <1>5 DEF Began, HInv, OneInitiator
    <3>2. CASE p = n
      <4>1. Arrives(n, sid) => Cached(n, sid)
        BY <1>3, <1>5, <2>1, <2>4, <3>2 DEF Once
      <4>2. ~Drives(n, sid)
        BY <3>1, ZenonT(30) DEF Began
      <4>3. rx'[n].stage \notin {"checked", "admitted"}
        BY <1>10, <1>12
      <4> QED BY <1>15, <2>2, <2>4, <3>2, <4>1, <4>2, <4>3, ZenonT(30) DEF Once
    <3>3. CASE p = Other(n)
      <4>1. ~Arrives(Other(n), sid)
        BY <1>0, <3>1 DEF Began, Arrives
      <4>2. ~Handles(Other(n), sid)
        BY <3>1, ZenonT(30) DEF Began
      <4>3. ~(Drives(Other(n), sid) /\ drv[Other(n)].pc = "reserved")
        BY <1>0, <1>5, <2>1, <2>4, <3>3 DEF Once
      <4> QED BY <1>0, <1>3, <1>15, <2>2, <2>4, <3>3, <4>1, <4>2, <4>3, ZenonT(30) DEF Once
    <3> QED BY <1>0, <3>2, <3>3
  <2> QED BY <2>3, <2>4
<1>18. OneKey'
  <2> SUFFICES ASSUME NEW p \in Node
               PROVE  /\ \A s \in LiveSessions(sm'[p]) : OneTranscript(s)
                      /\ \A msg \in Range(chan'[p]) : msg.type = "RESP" => msg.key = <<msg.sid, 0>>
                      /\ rx'[p].stage = "installed" => rx'[p].key = <<rx'[p].init.sid, 0>>
    BY DEF OneKey, OneTranscript
  <2>1. \A s \in LiveSessions(sm'[p]) : OneTranscript(s)
    BY <1>6, <1>8, <1>11, SMT DEF HInv, OneKey, OneTranscript, Made
  <2>2. \A msg \in Range(chan'[p]) : msg.type = "RESP" => msg.key = <<msg.sid, 0>>
    BY <1>3 DEF HInv, OneKey
  <2>3. rx'[p].stage = "installed" => rx'[p].key = <<rx'[p].init.sid, 0>>
    <3>1. CASE p # n
      BY <1>12, <3>1 DEF HInv, OneKey
    <3>2. CASE p = n
      BY <1>6, <1>10, <1>12, <3>2 DEF sid
    <3> QED BY <3>1, <3>2
  <2> QED BY <2>1, <2>2, <2>3
<1> QED BY <1>14, <1>16, <1>17, <1>18 DEF HInv

(* The replay cache is emptied: no INIT it had can still arrive.           *)
LEMMA ReplaysOverMoves ==
  ASSUME HInv, setting' = setting, NEW n \in Node, ReplaysOver(n) PROVE HInv'
<1> DEFINE m == PurgeReplays(sm[n], ReplayTtl)
<1>0. /\ Other(n) \in Node /\ Other(n) # n
      /\ \A p \in Node : Other(p) \in Node /\ Other(Other(p)) = p
      /\ \A p \in Node : p = n \/ p = Other(n)
  BY TwoNodes
<1>1. TableInv(sm[n]) /\ YoungCache(sm[n]) /\ DOMAIN sm = Node
  BY DEF HInv, Shape, TableShape
<1>2. /\ drv[Other(n)].pc \notin {"send", "wait"}
      /\ \A i \in DOMAIN chan[n] : chan[n][i].type # "INIT"
      /\ sm' = [sm EXCEPT ![n] = m]
      /\ UNCHANGED <<hs, drv, rx, chan, answers, faults, knows>>
  BY <1>1 DEF ReplaysOver
<1>3. TableInv(m)
  BY <1>1, PurgeReplaysInv
<1>4. m.pending = sm[n].pending /\ m.replays = Live(sm[n].replays, ReplayTtl)
  BY <1>1 DEF PurgeReplays, TableInv, TableType
<1>5. YoungCache(m)
  BY <1>1, <1>4, LiveFacts, SMT DEF YoungCache
<1>6. LiveSessions(m) \subseteq LiveSessions(sm[n])
  BY <1>1, NothingInstalled, SubTableLive
<1> HIDE DEF m
<1>7. /\ DOMAIN sm' = Node /\ sm'[n] = m
      /\ \A p \in Node : p # n => sm'[p] = sm[p]
  BY <1>1, <1>2
<1>8. Shape'
  <2>1. TableShape'
    BY <1>3, <1>5, <1>7 DEF HInv, Shape, TableShape
  <2> QED BY <1>2, <2>1 DEF HInv, Shape, DriverShape, ReceiverShape
<1>9. \A p \in Node, x \in Sid :
        /\ Drives(p, x)' <=> Drives(p, x)
        /\ Carries(p, x)' <=> Carries(p, x)
        /\ Handles(p, x)' <=> Handles(p, x)
        /\ Arrives(p, x)' <=> Arrives(p, x)
  BY <1>2 DEF Drives, Carries, Handles, Arrives
<1>10. \A p \in Node, x \in Sid :
         /\ Holds(p, x, TRUE)' => Holds(p, x, TRUE)
         /\ Holds(p, x, FALSE)' => Holds(p, x, FALSE)
         /\ x \in DOMAIN sm'[p].pending => x \in DOMAIN sm[p].pending
  BY <1>4, <1>6, <1>7 DEF Holds
<1>11. OneInitiator'
  <2>1. \A p \in Node, x \in Sid : Began(p, x)' => Began(p, x)
    BY <1>0, <1>9, <1>10 DEF Began
  <2> QED BY <2>1, NothingBegun DEF HInv
<1>12. AnsweredOnce'
  <2> SUFFICES ASSUME NEW p \in Node, NEW x \in Sid PROVE Once(p, x)'
    BY DEF AnsweredOnce
  <2>1. Once(p, x)
    BY DEF HInv, AnsweredOnce
  <2>2. CASE p # n
    <3>1. Cached(p, x)' <=> Cached(p, x)
      BY <1>7, <2>2 DEF Cached
    <3> QED BY <1>0, <1>2, <1>9, <2>1, <3>1, ZenonT(30) DEF Once
  <2>3. CASE p = n
    <3>1. ~Carries(n, x)
      BY <1>2 DEF Carries, Range
    <3>2. Arrives(n, x) => Drives(Other(n), x) /\ drv[Other(n)].pc = "reserved"
      BY <1>2, <3>1 DEF Arrives, Drives
    <3>3. Once(Other(n), x)
      BY <1>0 DEF HInv, AnsweredOnce
    <3>4. Arrives(n, x) => answers[x] = 0 /\ ~Handles(n, x)
      BY <1>0, <3>2, <3>3 DEF Once
    <3> QED BY <1>0, <1>2, <1>9, <2>1, <2>3, <3>4, ZenonT(30) DEF Once
  <2> QED BY <2>2, <2>3
<1>13. OneKey'
  <2>1. \A p \in Node : LiveSessions(sm'[p]) \subseteq LiveSessions(sm[p])
    BY <1>6, <1>7
  <2> QED BY <1>2, <2>1 DEF HInv, OneKey, OneTranscript
<1> QED BY <1>8, <1>11, <1>12, <1>13 DEF HInv

-----------------------------------------------------------------------------
(* Every step keeps the invariant.                                         *)
LEMMA NextHInv == HInv /\ [Next]_<<setting, vars>> => HInv'
<1> SUFFICES ASSUME HInv, [Next]_<<setting, vars>> PROVE HInv'
  OBVIOUS
<1>1. CASE UNCHANGED <<setting, vars>>
  <2>1. setting' = setting /\ UNCHANGED <<sm, hs, drv, knows, rx, chan, answers, faults>>
    BY <1>1 DEF vars
  <2>2. DriverShape' /\ \A n \in Node : OrderlyDriver(n)
    BY <2>1, SameOrderly DEF HInv, Shape, DriverShape
  <2> QED BY <2>1, <2>2, OrderlyDriverStep
<1>2. CASE Next
  <2>1. PICK n \in Node : Driver(n) \/ Receiver(n) \/ SendData(n) \/ Expiry(n) \/ Fault(n)
    BY <1>2 DEF Next
  <2>2. setting' = setting
    BY <1>2 DEF Next
  <2>3. CASE Driver(n)
    BY <2>2, <2>3, DriverMoves, CreateMoves, SendMoves, ReserveMoves, SMTT(30) DEF Driver
  <2>4. CASE Receiver(n)
    BY <2>2, <2>4, ChannelMoves, ReceiveInitMoves, AdmitMoves, InstallMoves, AnswerMoves,
       ReceiveRespMoves, SMTT(30) DEF Receiver
  <2>5. CASE SendData(n)
    BY <2>2, <2>5, ChannelMoves
  <2>6. CASE Expiry(n)
    BY <2>2, <2>6, TableShrinks, ReplaysOverMoves DEF Expiry
  <2>7. CASE Fault(n)
    BY <2>2, <2>7, TableShrinks, ChannelMoves DEF Fault
  <2> QED BY <2>1, <2>3, <2>4, <2>5, <2>6, <2>7, SMT
<1> QED BY <1>1, <1>2

(* Whatever is lost, repeated, delayed or torn down, two sessions with one *)
(* id at the two nodes come from one handshake, have the same keys and     *)
(* agree about who began it.                                               *)
THEOREM KeysAlwaysAgree == Spec => []KeysAgree
<1>1. Init => HInv
  BY InitHInv
<1>2. HInv /\ [Next]_<<setting, vars>> => HInv'
  BY NextHInv
<1>3. HInv => KeysAgree
  BY HInvKeysAgree
<1> QED BY <1>1, <1>2, <1>3, PTL DEF Spec
====
