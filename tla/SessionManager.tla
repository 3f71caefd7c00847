--------------------------- MODULE SessionManager ---------------------------
(***************************************************************************)
(* The SessionManager of one node, driven by the threads of its tunnel     *)
(* against an arbitrary network:                                           *)
(*   - the connect and maintenance threads create INITs, remove dead       *)
(*     peers' sessions and purge;                                          *)
(*   - the tx, gossip and maintenance threads encrypt;                     *)
(*   - the single receive thread handles INIT, RESP and session frames one *)
(*     at a time.  handle_handshake_init releases the mutex twice, for its *)
(*     Noise work; rx holds the INIT the receive thread is at work on, and *)
(*     every other thread may run in between.                              *)
(***************************************************************************)
EXTENDS SessionTable

CONSTANTS
  Self,       \* this node's NodeId
  MaxTime,    \* bound on the clock
  MaxSeq      \* bound on the frames of one session, in each direction

ASSUME ManagerAssumption ==
  Self \in Node /\ MaxTime \in Nat /\ MaxSeq \in Nat

VARIABLES
  now,        \* the ProtocolClock
  sm,         \* the tables
  rx,         \* the receive thread: idle, or between two critical sections
  keys,       \* the transcripts installed so far (history)
  admitted,   \* INIT -> when the replay cache last took it (history)
  delivered   \* <<key, sequence number>> decrypt_message returned (history)

vars == <<now, sm, rx, keys, admitted, delivered>>

Peer == Node \ {Self}

Idle == [stage |-> "idle"]

Frame == [sid : Sid, key : Key, seq : 0 .. MaxSeq - 1]

Init ==
  /\ now = 0
  /\ sm = EmptyTable
  /\ rx = Idle
  /\ keys = {}
  /\ admitted = <<>>
  /\ delivered = {}

Tick ==
  /\ now < MaxTime
  /\ now' = now + 1
  /\ UNCHANGED <<sm, rx, keys, admitted, delivered>>

(* create_handshake_init, from a connect thread or the maintenance thread. *)
CreateInit(peer, sid) ==
  /\ sm' = CreateHandshakeInit(sm, peer, sid, now).m
  /\ UNCHANGED <<now, rx, keys, admitted, delivered>>

(* handle_handshake_init up to its first unlock.                           *)
ReceiveInit(init) ==
  LET out == CheckInit(sm, init, now)
  IN  /\ rx = Idle
      /\ sm' = out.m
      /\ rx' = IF out.ok THEN [stage |-> "checked", init |-> init] ELSE Idle
      /\ UNCHANGED <<now, keys, admitted, delivered>>

(* The Noise read fails, or yields no usable static key; or, after the     *)
(* admission, the Noise write, the split or the encoding fails.            *)
AbandonInit ==
  /\ rx # Idle
  /\ rx' = Idle
  /\ UNCHANGED <<now, sm, keys, admitted, delivered>>

(* handle_handshake_init, its second critical section.                     *)
AuthenticateInit ==
  LET out == AdmitInit(sm, Self, rx.init, now)
  IN  /\ rx.stage = "checked"
      /\ sm' = out.m
      /\ rx' = IF out.ok THEN [stage |-> "admitted", init |-> rx.init] ELSE Idle
      /\ admitted' = IF rx.init \in DOMAIN PurgeReplays(sm, now).replays
                     THEN admitted ELSE Put(admitted, rx.init, now)
      /\ UNCHANGED <<now, keys, delivered>>

(* handle_handshake_init, its third critical section.  The responder's     *)
(* ephemeral key makes the transcript a new one.                           *)
RespondInit(key) ==
  LET out == InstallInit(sm, rx.init, key, now)
  IN  /\ rx.stage = "admitted"
      /\ key \notin keys
      /\ sm' = out.m
      /\ keys' = IF out.ok THEN keys \cup {key} ELSE keys
      /\ rx' = Idle
      /\ UNCHANGED <<now, admitted, delivered>>

(* handle_handshake_resp.                                                  *)
ReceiveResp(sid, good, key) ==
  LET out == HandleResp(sm, Self, sid, good, key, now)
  IN  /\ rx = Idle
      /\ key \notin keys
      /\ sm' = out.m
      /\ keys' = IF out.ok THEN keys \cup {key} ELSE keys
      /\ UNCHANGED <<now, rx, admitted, delivered>>

(* encrypt_message; without a session it returns nullopt.                  *)
Encrypt(peer) ==
  /\ peer \in DOMAIN sm.sessions
  /\ sm.sessions[peer].seq < MaxSeq
  /\ sm' = AdvanceSend(sm, peer)
  /\ UNCHANGED <<now, rx, keys, admitted, delivered>>

(* decrypt_message on a frame that passes; any other frame changes nothing.*)
Decrypt(frame) ==
  /\ rx = Idle
  /\ Decrypts(sm, frame)
  /\ sm' = RecordFrame(sm, frame)
  /\ delivered' = delivered \cup {<<frame.key, frame.seq>>}
  /\ UNCHANGED <<now, rx, keys, admitted>>

(* remove_session: a dead peer (maintenance), or a RESP that could not be  *)
(* queued or a peer the peer table refused (receive thread).               *)
Remove(peer) ==
  /\ sm' = RemoveSession(sm, peer)
  /\ UNCHANGED <<now, rx, keys, admitted, delivered>>

(* Maintenance step 4: three calls, three critical sections.               *)
PurgeRetiredSessions ==
  /\ sm' = PurgeRetired(sm, now)
  /\ UNCHANGED <<now, rx, keys, admitted, delivered>>

PurgeIncompleteHandshakes ==
  /\ sm' = PurgePending(sm, now)
  /\ UNCHANGED <<now, rx, keys, admitted, delivered>>

PurgeHandshakeReplays ==
  /\ sm' = PurgeReplays(sm, now)
  /\ UNCHANGED <<now, rx, keys, admitted, delivered>>

Next ==
  \/ Tick
  \/ \E peer \in Peer, sid \in Sid : CreateInit(peer, sid)
  \/ \E peer \in Peer, sid \in Sid : ReceiveInit([peer |-> peer, sid |-> sid])
  \/ AbandonInit
  \/ AuthenticateInit
  \/ \E key \in Key : RespondInit(key)
  \/ \E sid \in Sid, good \in BOOLEAN, key \in Key : ReceiveResp(sid, good, key)
  \/ \E peer \in Peer : Encrypt(peer)
  \/ \E frame \in Frame : Decrypt(frame)
  \/ \E peer \in Peer : Remove(peer)
  \/ PurgeRetiredSessions
  \/ PurgeIncompleteHandshakes
  \/ PurgeHandshakeReplays

Spec == Init /\ [][Next]_vars

-----------------------------------------------------------------------------
(* Types of the variables.                                                 *)
TypeOK ==
  /\ now \in 0 .. MaxTime
  /\ TableType(sm)
  /\ \/ rx = Idle
     \/ rx \in [stage : {"checked", "admitted"}, init : [peer : Peer, sid : Sid]]
  /\ keys \subseteq Key
  /\ DOMAIN admitted \subseteq InitFrame
  /\ \A i \in DOMAIN admitted : admitted[i] \in Nat
  /\ delivered \subseteq Key \X (0 .. MaxSeq - 1)

(* sessions_ and session_to_peer_ are two views of one relation in every   *)
(* state: get_session (by peer) and decrypt_message (by id) agree.         *)
LookupsAgree == ByIdInverse(sm)

(* A session id is active, retired or pending, never two of them, although *)
(* handle_handshake_init checks it and installs it under different locks.  *)
OneMeaningPerSid == SidsDisjoint(sm)

(* remove_session leaves neither an old key nor a handshake of the peer:   *)
(* a retired session never outlives its successor.                         *)
NoOrphanedKeys == RetiredHasSuccessor(sm)

(* The three tables never exceed their caps, although the capacity is      *)
(* checked in one critical section and used in a later one.                *)
HardCaps == WithinCapacity(sm)

(* The maps of session.hpp fit together in every state between two         *)
(* critical sections: one relation looked up in two ways, one meaning for  *)
(* each session id, no key without its peer, every cap kept.               *)
TablesConsistent ==
  TypeOK /\ LookupsAgree /\ OneMeaningPerSid /\ NoOrphanedKeys /\ HardCaps

(* What decrypt_message returned once is refused by every session that     *)
(* still has its key: create_session moves the replay window to retired_   *)
(* together with the key.                                                  *)
DeliveredRefused ==
  \A s \in LiveSessions(sm), d \in delivered :
    d[1] = s.key => ~CheckReplay(s.win, d[2])

(* The lower NodeId's initiation stays where it is.                        *)
LowerKept ==
  \A p \in DOMAIN sm.sessions \cap DOMAIN sm'.sessions :
    LET lower(s) == IF Self < p THEN s.local ELSE ~s.local
    IN  lower(sm.sessions[p]) => lower(sm'.sessions[p])

(* Simultaneous initiation, as one node sees it: a session of the lower    *)
(* NodeId's initiation is never replaced by one of the higher NodeId's,    *)
(* neither by handle_handshake_init nor by handle_handshake_resp.          *)
LowerInitiationKept == [][LowerKept]_vars

(* What a step does to the sessions it replaces and to the retired ones.   *)
OldKeyStep ==
  LET replaced == {p \in DOMAIN sm.sessions \cap DOMAIN sm'.sessions :
                     sm.sessions[p].id # sm'.sessions[p].id}
      gone == {s \in DOMAIN sm.retired \ DOMAIN sm'.retired :
                 /\ sm.retired[s].expires > now
                 /\ sm.retired[s].session.peer \in DOMAIN sm'.sessions}
      kept == DOMAIN sm.retired \cap DOMAIN sm'.retired
  IN  /\ RetiredCap > 0 =>
           \A p \in replaced :
             LET old == sm.sessions[p]
             IN  /\ old.id \in DOMAIN sm'.retired
                 /\ sm'.retired[old.id] = [session |-> old, expires |-> now + RetiredGrace]
      /\ gone # {} =>
           /\ Cardinality(gone) = 1
           /\ Cardinality(DOMAIN sm'.retired) = RetiredCap
           /\ \A s \in gone, u \in kept :
                sm.retired[s].expires <= sm.retired[u].expires

(* A session that is replaced (rekey) goes on decrypting: it is put into   *)
(* retired_ as it is, for the whole grace period, and leaves it earlier    *)
(* only with its peer (remove_session) or as the single entry nearest      *)
(* expiry when the table is full (retire_session_locked).                  *)
OldKeyKept == [][OldKeyStep]_vars

(* An INIT that the cache takes once more is an old one.                   *)
TakenAgainLater ==
  \A i \in DOMAIN admitted :
    admitted'[i] # admitted[i] => admitted'[i] >= admitted[i] + ReplayTtl

(* The replay cache is independent of session teardown: an INIT it took is *)
(* not taken again before ReplayTtl has passed.                            *)
InitOncePerTtl == [][TakenAgainLater]_vars
=============================================================================
