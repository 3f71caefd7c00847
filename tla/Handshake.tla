------------------------------ MODULE Handshake ------------------------------
(***************************************************************************)
(* Two tunnels that establish and rekey their session: handshake_peer (the *)
(* connect thread and, for a rekey, the maintenance thread), the receive   *)
(* thread's handlers for INIT, COOKIE, RESP and session frames, the two    *)
(* SessionManagers (SessionTable) and the datagrams between them.          *)
(*                                                                         *)
(*   sm[n]    the SessionManager of n                                      *)
(*   hs[n]    pending_handshakes_[peer] of n, or NoEntry                   *)
(*   drv[n]   the thread of n inside handshake_peer, or idle               *)
(*   knows[n] n has an endpoint for its peer (configured, or learned from  *)
(*            an INIT)                                                     *)
(*   rx[n]    the receive thread of n inside handle_handshake_init_frame,  *)
(*            or Idle                                                      *)
(*   chan[n]  the datagrams on their way to n, in the order they left the  *)
(*            sender's queue                                               *)
(*                                                                         *)
(* A deadline is a step of its own: it may pass at any moment after it was *)
(* set (RetiredGrace, ReplayTtl), or, for the 15 s of a pending initiator, *)
(* once the at most ten seconds of its handshake_peer call are over.       *)
(* Session ids are 32 random bits: a new one is one that nobody uses; a    *)
(* collision is SessionManager's subject.  The connect and the maintenance *)
(* thread are not in handshake_peer for one peer at the same time: one     *)
(* runs it when there is no session, the other for a session older than    *)
(* the rekey interval.                                                     *)
(***************************************************************************)
EXTENDS SessionTable, Sequences

(* A setting of one behaviour:                                             *)
(*   sids        session ids to draw from                                  *)
(*   configured  nodes configured with an endpoint of the other one        *)
(*   patient     the waits are longer than a round trip                    *)
(*   sends       transmissions of one INIT, 10 in the code                 *)
(*   data        session frames on their way to a node at any time         *)
(*   faults      datagrams the network loses, repeats or delays, and       *)
(*               sessions torn down, in one behaviour                      *)
CONSTANT Settings

ASSUME HandshakeAssumption ==
  /\ \E a, b \in Node : a # b /\ Node = {a, b}
  /\ ReplayTtl > 0
  /\ \A s \in Sid : <<s, 0>> \in Key
  /\ \A s \in Settings : /\ s.sids \subseteq Sid /\ s.configured \subseteq Node /\ s.patient \in BOOLEAN
                         /\ s.sends \in Nat \ {0} /\ s.data \in Nat /\ s.faults \in Nat

VARIABLES setting, sm, hs, drv, knows, rx, chan, answers, faults

vars == <<sm, hs, drv, knows, rx, chan, answers, faults>>

Other(n) == CHOOSE p \in Node : p # n

Lower(n) == n < Other(n)

Connected(n) == Other(n) \in DOMAIN sm[n].sessions

ActiveId(n) == sm[n].sessions[Other(n)].id

NoEntry == [sid |-> 0, done |-> FALSE, cookie |-> FALSE, updated |-> FALSE]

Idle == [stage |-> "idle"]

(* Nobody has the session id in a table, a thread or a datagram; the entry *)
(* of the node that draws it is about to be overwritten.                   *)
Fresh(self, sid) ==
  \A n \in Node :
    /\ ~KnownSid(sm[n], sid)
    /\ \A i \in DOMAIN sm[n].replays : i.sid # sid
    /\ n # self => hs[n].sid # sid
    /\ drv[n].pc \in {"reserved", "send", "wait"} => drv[n].sid # sid
    /\ rx[n] # Idle => rx[n].init.sid # sid
    /\ \A i \in DOMAIN chan[n] : chan[n][i].sid # sid

Asleep == [pc |-> "idle"]

InitMsg(sid, cookie) == [type |-> "INIT", sid |-> sid, cookie |-> cookie]
CookieMsg(sid) == [type |-> "COOKIE", sid |-> sid]
RespMsg(sid, key) == [type |-> "RESP", sid |-> sid, key |-> key]
DataMsg(sid, key) == [type |-> "DATA", sid |-> sid, key |-> key]

(* A transcript: the INIT and the answer to it (a responder that answered  *)
(* an INIT twice would do so with a new ephemeral key).                    *)
Transcript(sid) == <<sid, answers[sid]>>

Init ==
  /\ setting \in Settings
  /\ sm = [n \in Node |-> EmptyTable]
  /\ hs = [n \in Node |-> NoEntry]
  /\ drv = [n \in Node |-> Asleep]
  /\ knows = [n \in Node |-> n \in setting.configured]
  /\ rx = [n \in Node |-> Idle]
  /\ chan = [n \in Node |-> <<>>]
  /\ answers = [s \in Sid |-> 0]
  /\ faults = 0

-----------------------------------------------------------------------------
(* handshake_peer.                                                         *)

(* connect_loop finds no session.                                          *)
ConnectDue(n) == ~Connected(n)

(* Bug variant of RekeyDue: an old session is never rekeyed.               *)
RekeyDueNever(n) == FALSE

(* rekey_due finds a session older than the interval; only the lower       *)
(* NodeId forces the handshake, and rekey_peer needs an endpoint.          *)
RekeyDue(n) == Connected(n) /\ Lower(n) /\ knows[n]

(* handshake_peer is entered with the endpoint known now.                  *)
Begin(n) ==
  /\ drv[n] = Asleep
  /\ ConnectDue(n) \/ RekeyDue(n)
  /\ drv' = [drv EXCEPT ![n] = [pc |-> "begun", dest |-> knows[n]]]
  /\ UNCHANGED <<sm, hs, rx, chan, answers, faults, knows>>

(* The lower NodeId initiates even when it has no endpoint to send to.     *)
Initiates(n) == Lower(n) \/ drv[n].dest

(* A session id is drawn and pending_handshakes_[peer] overwritten.        *)
Reserve(n, sid) ==
  /\ drv[n].pc = "begun" /\ Initiates(n)
  /\ Fresh(n, sid)
  /\ answers' = [answers EXCEPT ![sid] = 0]
  /\ hs' = [hs EXCEPT ![n] = [NoEntry EXCEPT !.sid = sid]]
  /\ drv' = [drv EXCEPT ![n] = [pc |-> "reserved", sid |-> sid, dest |-> @.dest]]
  /\ UNCHANGED <<sm, rx, chan, faults, knows>>

(* create_handshake_init; when it refuses, the entry is erased.            *)
Create(n) ==
  LET out == CreateHandshakeInit(sm[n], Other(n), drv[n].sid, 0)
  IN  /\ drv[n].pc = "reserved"
      /\ sm' = [sm EXCEPT ![n] = out.m]
      /\ IF out.ok
         THEN /\ drv' = [drv EXCEPT ![n] = [pc |-> "send", sid |-> @.sid,
                                                dest |-> @.dest, sends |-> 0]]
              /\ UNCHANGED hs
         ELSE /\ drv' = [drv EXCEPT ![n] = Asleep]
              /\ hs' = [hs EXCEPT ![n] = NoEntry]
      /\ UNCHANGED <<rx, chan, answers, faults, knows>>

(* One round of the retransmission loop up to the wait: the cookie of the  *)
(* entry is used, whichever handshake the entry now belongs to.            *)
Send(n) ==
  /\ drv[n].pc = "send"
  /\ chan' = [chan EXCEPT ![Other(n)] =
                IF drv[n].dest THEN Append(@, InitMsg(drv[n].sid, hs[n].cookie)) ELSE @]
  /\ hs' = [hs EXCEPT ![n].updated = FALSE]
  /\ drv' = [drv EXCEPT ![n] = [pc |-> "wait", sid |-> @.sid, dest |-> @.dest,
                                sends |-> @.sends + 1]]
  /\ UNCHANGED <<sm, rx, answers, faults, knows>>

(* The datagrams of these handshakes have all been received and handled.   *)
Settled(sids) ==
  \A n \in Node :
    /\ rx[n] # Idle => rx[n].init.sid \notin sids
    /\ \A i \in DOMAIN chan[n] : chan[n][i].type = "DATA" \/ chan[n][i].sid \notin sids

(* The wait ends: done, a cookie has come, or a second has passed.  The    *)
(* call returns when the handshake is done or the sends are used up; the   *)
(* entry and the pending initiator stay behind.                            *)
Wake(n) ==
  /\ drv[n].pc = "wait"
  /\ hs[n].done \/ hs[n].updated \/ (setting.patient => Settled({drv[n].sid}))
  /\ drv' = [drv EXCEPT ![n] = IF hs[n].done \/ @.sends = setting.sends
                               THEN Asleep ELSE [@ EXCEPT !.pc = "send"]]
  /\ UNCHANGED <<sm, hs, rx, chan, answers, faults, knows>>

(* The responder's branch: the stale done is cleared, and without a        *)
(* session it waits for the peer's INIT.                                   *)
Await(n) ==
  /\ drv[n].pc = "begun" /\ ~Initiates(n)
  /\ drv' = [drv EXCEPT ![n] = IF Connected(n) THEN Asleep ELSE [pc |-> "await"]]
  /\ hs' = [hs EXCEPT ![n].done = FALSE]
  /\ UNCHANGED <<sm, rx, chan, answers, faults, knows>>

(* done, or ten seconds have passed.                                       *)
EndAwait(n) ==
  /\ drv[n].pc = "await"
  /\ hs[n].done \/ (setting.patient => Settled(Sid))
  /\ drv' = [drv EXCEPT ![n] = Asleep]
  /\ UNCHANGED <<sm, hs, rx, chan, answers, faults, knows>>

-----------------------------------------------------------------------------
(* The receive thread.  Take(n, type): the next datagram of that type.     *)

Take(n, type) ==
  /\ rx[n] = Idle
  /\ chan[n] # <<>>
  /\ Head(chan[n]).type = type

(* handle_handshake_init_frame without a valid cookie: challenge.          *)
Challenge(n) ==
  /\ Take(n, "INIT")
  /\ ~Head(chan[n]).cookie
  /\ chan' = [chan EXCEPT ![n] = Tail(@),
                          ![Other(n)] = Append(@, CookieMsg(Head(chan[n]).sid))]
  /\ UNCHANGED <<sm, hs, drv, rx, answers, faults, knows>>

(* With one: handle_handshake_init, first critical section.                *)
ReceiveInit(n) ==
  LET init == [peer |-> Other(n), sid |-> Head(chan[n]).sid]
      out == CheckInit(sm[n], init, 0)
  IN  /\ Take(n, "INIT")
      /\ Head(chan[n]).cookie
      /\ chan' = [chan EXCEPT ![n] = Tail(@)]
      /\ sm' = [sm EXCEPT ![n] = out.m]
      /\ rx' = [rx EXCEPT ![n] = IF out.ok THEN [stage |-> "checked", init |-> init]
                                 ELSE Idle]
      /\ UNCHANGED <<hs, drv, answers, faults, knows>>

(* Second critical section.                                                *)
Admit(n) ==
  LET out == AdmitInit(sm[n], n, rx[n].init, 0)
  IN  /\ rx[n].stage = "checked"
      /\ sm' = [sm EXCEPT ![n] = out.m]
      /\ rx' = [rx EXCEPT ![n] = IF out.ok THEN [@ EXCEPT !.stage = "admitted"] ELSE Idle]
      /\ UNCHANGED <<hs, drv, chan, answers, faults, knows>>

(* Third critical section: from here on other threads encrypt with it.     *)
(* The upsert that records the sender's endpoint follows at once.          *)
Install(n) ==
  LET init == rx[n].init
      out == InstallInit(sm[n], init, Transcript(init.sid), 0)
  IN  /\ rx[n].stage = "admitted"
      /\ sm' = [sm EXCEPT ![n] = out.m]
      /\ rx' = [rx EXCEPT ![n] =
                  IF out.ok THEN [stage |-> "installed", init |-> init,
                                  key |-> Transcript(init.sid)]
                  ELSE Idle]
      /\ answers' = [answers EXCEPT ![init.sid] = IF out.ok THEN @ + 1 ELSE @]
      /\ knows' = [knows EXCEPT ![n] = @ \/ out.ok]
      /\ UNCHANGED <<hs, drv, chan, faults>>

(* The RESP is queued.                                                     *)
Answer(n) ==
  /\ rx[n].stage = "installed"
  /\ chan' = [chan EXCEPT ![Other(n)] = Append(@, RespMsg(rx[n].init.sid, rx[n].key))]
  /\ rx' = [rx EXCEPT ![n] = [stage |-> "answered", init |-> rx[n].init]]
  /\ UNCHANGED <<sm, hs, drv, answers, faults, knows>>

(* The RESP finds its queue full: the whole state of the peer is removed.  *)
(* (A configured peer is never refused by PeerManager; an INIT over the    *)
(* rate limit counts as a loss.)                                           *)
AnswerFails(n) ==
  /\ rx[n].stage = "installed"
  /\ faults < setting.faults
  /\ faults' = faults + 1
  /\ sm' = [sm EXCEPT ![n] = RemoveSession(@, Other(n))]
  /\ rx' = [rx EXCEPT ![n] = Idle]
  /\ UNCHANGED <<hs, drv, chan, answers, knows>>

(* pending_handshakes_[peer] is overwritten with the finished handshake.   *)
MarkDone(n) ==
  /\ rx[n].stage = "answered"
  /\ hs' = [hs EXCEPT ![n] = [NoEntry EXCEPT !.sid = rx[n].init.sid, !.done = TRUE]]
  /\ rx' = [rx EXCEPT ![n] = Idle]
  /\ UNCHANGED <<sm, drv, chan, answers, faults, knows>>

(* handle_handshake_cookie_frame: only for the handshake of the entry.     *)
ReceiveCookie(n) ==
  LET msg == Head(chan[n])
  IN  /\ Take(n, "COOKIE")
      /\ chan' = [chan EXCEPT ![n] = Tail(@)]
      /\ hs' = IF hs[n].sid = msg.sid /\ ~hs[n].done
               THEN [hs EXCEPT ![n].cookie = TRUE, ![n].updated = TRUE]
               ELSE hs
      /\ UNCHANGED <<sm, drv, rx, answers, faults, knows>>

(* handle_handshake_response_frame: only for the handshake of the entry.   *)
ReceiveResp(n) ==
  LET msg == Head(chan[n])
      out == HandleResp(sm[n], n, msg.sid, TRUE, msg.key, 0)
  IN  /\ Take(n, "RESP")
      /\ chan' = [chan EXCEPT ![n] = Tail(@)]
      /\ IF hs[n].sid = msg.sid
         THEN /\ sm' = [sm EXCEPT ![n] = out.m]
              /\ hs' = [hs EXCEPT ![n].done = @ \/ out.ok]
         ELSE UNCHANGED <<sm, hs>>
      /\ UNCHANGED <<drv, rx, answers, faults, knows>>

(* handle_data_frame and the other session frames, as far as the session   *)
(* is concerned (replay windows are ReplayChannel's subject).              *)
ReceiveData(n) ==
  /\ Take(n, "DATA")
  /\ chan' = [chan EXCEPT ![n] = Tail(@)]
  /\ UNCHANGED <<sm, hs, drv, rx, answers, faults, knows>>

-----------------------------------------------------------------------------
(* The other threads, the clock and the network.                           *)

InFlight(n) == Cardinality({i \in DOMAIN chan[n] : chan[n][i].type = "DATA"})

(* tx_loop, gossip_loop, send_keepalive: encrypt under the active session  *)
(* and queue the frame.                                                    *)
SendData(n) ==
  LET s == sm[n].sessions[Other(n)]
  IN  /\ Connected(n) /\ knows[n]
      /\ InFlight(Other(n)) < setting.data
      /\ chan' = [chan EXCEPT ![Other(n)] = Append(@, DataMsg(s.id, s.key))]
      /\ UNCHANGED <<sm, hs, drv, rx, answers, faults, knows>>

(* maintenance: the peer was silent for the dead timeout.                  *)
Dead(n) ==
  /\ Connected(n)
  /\ faults < setting.faults
  /\ faults' = faults + 1
  /\ sm' = [sm EXCEPT ![n] = RemoveSession(@, Other(n))]
  /\ UNCHANGED <<hs, drv, rx, chan, answers, knows>>

(* The grace period of the retired sessions is over.                       *)
GraceOver(n) ==
  /\ DOMAIN sm[n].retired # {}
  /\ sm' = [sm EXCEPT ![n] = PurgeRetired(@, RetiredGrace)]
  /\ UNCHANGED <<hs, drv, rx, chan, answers, faults, knows>>

(* The 15 s of the pending initiators are over; none is still being sent.  *)
PendingOver(n) ==
  /\ DOMAIN sm[n].pending # {}
  /\ drv[n].pc \notin {"send", "wait"}
  /\ setting.patient => Settled(DOMAIN sm[n].pending)
  /\ sm' = [sm EXCEPT ![n] = PurgePending(@, HandshakeTimeout)]
  /\ UNCHANGED <<hs, drv, rx, chan, answers, faults, knows>>

(* The two minutes of the replay cache are over; an INIT of it is neither  *)
(* still being sent nor on its way.                                        *)
ReplaysOver(n) ==
  /\ DOMAIN sm[n].replays # {}
  /\ drv[Other(n)].pc \notin {"send", "wait"}
  /\ \A i \in DOMAIN chan[n] : chan[n][i].type # "INIT"
  /\ sm' = [sm EXCEPT ![n] = PurgeReplays(@, ReplayTtl)]
  /\ UNCHANGED <<hs, drv, rx, chan, answers, faults, knows>>

(* A channel without its i-th datagram.                                    *)
Cut(s, i) == SubSeq(s, 1, i - 1) \o SubSeq(s, i + 1, Len(s))

(* The network loses, repeats or delays a datagram.                        *)
Lose(n, i) ==
  /\ faults < setting.faults
  /\ faults' = faults + 1
  /\ chan' = [chan EXCEPT ![n] = Cut(@, i)]
  /\ UNCHANGED <<sm, hs, drv, rx, answers, knows>>

Repeat(n, i) ==
  /\ faults < setting.faults
  /\ faults' = faults + 1
  /\ chan' = [chan EXCEPT ![n] = Append(@, @[i])]
  /\ UNCHANGED <<sm, hs, drv, rx, answers, knows>>

Overtake(n, i) ==
  /\ faults < setting.faults
  /\ faults' = faults + 1
  /\ chan' = [chan EXCEPT ![n] = <<@[i]>> \o Cut(@, i)]
  /\ UNCHANGED <<sm, hs, drv, rx, answers, knows>>

Driver(n) ==
  \/ Begin(n) \/ Create(n) \/ Send(n) \/ Wake(n) \/ Await(n) \/ EndAwait(n)
  \/ \E sid \in setting.sids : Reserve(n, sid)

Receiver(n) ==
  \/ Challenge(n) \/ ReceiveInit(n) \/ Admit(n) \/ Install(n) \/ Answer(n)
  \/ MarkDone(n) \/ ReceiveCookie(n) \/ ReceiveResp(n) \/ ReceiveData(n)

Expiry(n) == GraceOver(n) \/ PendingOver(n) \/ ReplaysOver(n)

Fault(n) ==
  \/ AnswerFails(n) \/ Dead(n)
  \/ \E i \in DOMAIN chan[n] : Lose(n, i) \/ Repeat(n, i) \/ Overtake(n, i)

Next ==
  /\ \E n \in Node : Driver(n) \/ Receiver(n) \/ SendData(n) \/ Expiry(n) \/ Fault(n)
  /\ UNCHANGED setting

Spec == Init /\ [][Next]_<<setting, vars>>

(* The threads run for ever and the deadlines pass; the datagrams that are *)
(* not lost arrive.  Nothing makes a node send data, and faults may end.   *)
(* Reserve is strongly fair because 32-bit ids do not run out: a thread    *)
(* that wants one never waits for another to give one back.                *)
Fairness ==
  \A n \in Node :
    /\ WF_vars(Driver(n)) /\ WF_vars(Receiver(n))
    /\ SF_vars(\E sid \in setting.sids : Reserve(n, sid))
    /\ WF_vars(GraceOver(n)) /\ WF_vars(PendingOver(n)) /\ WF_vars(ReplaysOver(n))

FairSpec == Spec /\ Fairness

-----------------------------------------------------------------------------
(* Types of the variables.                                                 *)
TypeOK ==
  /\ \A n \in Node : TableType(sm[n])
  /\ hs \in [Node -> [sid : Sid \cup {0}, done : BOOLEAN, cookie : BOOLEAN,
                      updated : BOOLEAN]]
  /\ \A n \in Node :
       /\ drv[n].pc \in {"idle", "begun", "reserved", "send", "wait", "await"}
       /\ drv[n].pc \in {"send", "wait"} =>
            drv[n].sid \in Sid /\ drv[n].sends \in 0 .. setting.sends
  /\ knows \in [Node -> BOOLEAN]
  /\ \A n \in Node :
       rx[n].stage \in {"idle", "checked", "admitted", "installed", "answered"}
  /\ \A n \in Node : \A i \in DOMAIN chan[n] :
       chan[n][i].type \in {"INIT", "COOKIE", "RESP", "DATA"} /\ chan[n][i].sid \in Sid
  /\ faults \in 0 .. setting.faults

(* Two live sessions with one id are the two ends of one handshake: they   *)
(* have the same keys, and one of them only was initiated locally.         *)
SameSidSameKeys ==
  \A n \in Node : \A s \in LiveSessions(sm[n]), t \in LiveSessions(sm[Other(n)]) :
    s.id = t.id => s.key = t.key /\ s.local # t.local

(* The state is well formed and the two nodes never disagree about what a  *)
(* session id stands for, whatever is lost, repeated or out of order.      *)
KeysAgree == TypeOK /\ SameSidSameKeys

(* Nobody is inside handshake_peer's initiator branch or handling a frame. *)
Quiet == Settled(Sid) /\ \A n \in Node : drv[n].pc \in {"idle", "begun", "await"}

(* Both nodes use one session.                                             *)
Agreed ==
  /\ \A n \in Node : Connected(n)
  /\ \A n \in Node : ActiveId(n) = ActiveId(Other(n))

(* SECURITY.md: "so both peers converge on one session ID".  Once a node   *)
(* has a session and no handshake is under way, both have that session, if *)
(* the waits outlast a round trip and nothing has been lost.               *)
Converged == setting.patient /\ faults = 0 /\ Quiet /\ (\E n \in Node : Connected(n)) => Agreed

(* Whatever was lost, repeated or torn down, the nodes use one session     *)
(* again, if the waits outlast a round trip: the retries of connect_loop   *)
(* and the rekeys of the lower NodeId repair what a lost RESP or a         *)
(* half-removed session leaves behind.                                     *)
Heals == setting.patient => []<>Agreed
=============================================================================
