--------------------------- MODULE ServicesProofs ---------------------------
(***************************************************************************)
(* Proofs about three services of a node: the replay window of a channel,  *)
(* the endpoint that a peer is reached at, and the routing table.  Each    *)
(* section is about one module.                                            *)
(***************************************************************************)
EXTENDS ReplayChannel, EndpointPunch, RouteProbes, FiniteSetTheorems, TLAPS

(* Most leaves are steps of logic and sets, for Zenon; those that need     *)
(* arithmetic, or more of functions and records, name SMT.                 *)
USE Zenon

-----------------------------------------------------------------------------
(* ReplayChannel: check_replay and update_replay.                          *)

(* update_replay returns a window.                                         *)
LEMMA UpdateType ==
  ASSUME NEW w \in Window, NEW s \in Nat, CheckReplay(w, s)
  PROVE  UpdateReplay(w, s) \in Window
BY ReplayBitsAssumption, SMT DEF Window, CheckReplay, UpdateReplay, ShiftBits

(* A sequence number on the wire is a natural number.                      *)
LEMMA WireSeqType == ASSUME NEW n \in Nat PROVE WireSeq(n) \in Nat
BY ChannelAssumption, SMT DEF WireSeq

-----------------------------------------------------------------------------
(* The inductive invariant: the window is well-formed and is the exact     *)
(* record of what was delivered.                                           *)
WindowInv == ChannelTypeOK /\ WindowExact

(* Nothing has been sent and the window is empty.                          *)
LEMMA InitWindowInv == ChannelInit => WindowInv
BY ReplayBitsAssumption, ChannelAssumption, SMT
   DEF ChannelInit, WindowInv, ChannelTypeOK, WindowExact, Window, EmptyWindow, SeenOnWire

(* Sending and receiving keep the window exact.                            *)
LEMMA NextWindowInv == WindowInv /\ [ChannelNext]_channelVars => WindowInv'
<1> SUFFICES ASSUME WindowInv, [ChannelNext]_channelVars PROVE WindowInv'
  OBVIOUS
<1> USE ReplayBitsAssumption, ChannelAssumption
<1>1. CASE Encrypt
  BY <1>1, SMT DEF Encrypt, WindowInv, ChannelTypeOK, WindowExact, SeenOnWire
<1>2. ASSUME NEW n \in 0 .. send_seq - 1, Decrypt(n) PROVE WindowInv'
  <2> DEFINE s == WireSeq(n)
  <2>1. n \in Nat /\ send_seq \in Nat /\ win \in Window
    BY SMT DEF WindowInv, ChannelTypeOK
  <2>2. s \in Nat
    BY <2>1, WireSeqType
  <2>3. CheckReplay(win, s) /\ win' = UpdateReplay(win, s) /\ send_seq' = send_seq
    BY <1>2 DEF Decrypt
  <2>4. SeenOnWire' = SeenOnWire \cup {s}
    BY <1>2 DEF Decrypt, SeenOnWire, WireSeq
  <2>5. \A d \in SeenOnWire : d \in Nat
    BY <2>1, WireSeqType, SMT DEF WindowInv, ChannelTypeOK, SeenOnWire
  <2> HIDE DEF s
  <2>6. ChannelTypeOK'
    BY <1>2, <2>1, <2>2, <2>3, UpdateType DEF Decrypt, WindowInv, ChannelTypeOK
  <2>7. WindowExact'
    <3>1. CASE s > win.last
      BY <2>1, <2>2, <2>3, <2>4, <2>5, <3>1, SMT
         DEF WindowInv, WindowExact, Window, UpdateReplay, ShiftBits
    <3>2. CASE s <= win.last
      BY <2>1, <2>2, <2>3, <2>4, <2>5, <3>2, SMT
         DEF WindowInv, WindowExact, Window, CheckReplay, UpdateReplay
    <3> QED BY <2>1, <2>2, <3>1, <3>2, SMT DEF Window
  <2> QED BY <2>6, <2>7 DEF WindowInv
<1>3. ASSUME NEW n \in 0 .. send_seq - 1, Drop(n) PROVE WindowInv'
  BY <1>3 DEF Drop, channelVars, WindowInv, ChannelTypeOK, WindowExact, SeenOnWire
<1>4. CASE UNCHANGED channelVars
  BY <1>4 DEF channelVars, WindowInv, ChannelTypeOK, WindowExact, SeenOnWire
<1> QED BY <1>1, <1>2, <1>3, <1>4 DEF ChannelNext, Receive

(* A frame whose wire number was delivered fails check_replay.             *)
LEMMA SeenRefused ==
  ASSUME WindowInv, NEW n \in delivered
  PROVE  ~CheckReplay(win, WireSeq(n))
<1>1. n \in Nat /\ win \in Window
  BY SMT DEF WindowInv, ChannelTypeOK
<1>2. WireSeq(n) \in Nat /\ WireSeq(n) \in SeenOnWire
  BY <1>1, WireSeqType DEF SeenOnWire
<1> QED
  BY <1>1, <1>2, ReplayBitsAssumption, SMT DEF WindowInv, WindowExact, Window, CheckReplay

(* No execution of decrypt_message returns a frame a second time, for any  *)
(* window width, wire width and order of arrival.                          *)
THEOREM NoFrameTwice == ChannelSpec => NeverTwice
<1>1. WindowInv => [\A n \in delivered : ~Decrypt(n)]_channelVars
  BY SeenRefused DEF Decrypt
<1> QED BY <1>1, InitWindowInv, NextWindowInv, PTL DEF ChannelSpec, NeverTwice

(* Below the wrap the number on the wire is the frame's own number.        *)
LEMMA WireSeqIdentity ==
  ASSUME NEW n \in Nat, n < WIRE_MOD PROVE WireSeq(n) = n
BY ChannelAssumption, SMT DEF WireSeq

(* check_replay and update_replay keep recv_last and recv_window the exact *)
(* record of the delivered numbers, refuse what was delivered and, until   *)
(* send_seq passes 2^32, accept every new frame less than REPLAY_BITS      *)
(* behind the newest one.                                                  *)
THEOREM WindowDecidesExactly == ChannelSpec => []ReplayExact
<1>1. ASSUME WindowInv, send_seq <= WIRE_MOD,
             NEW n \in 0 .. send_seq - 1, n \notin delivered,
             \A d \in delivered : n + REPLAY_BITS > d
      PROVE  CheckReplay(win, WireSeq(n))
  <2>1. win \in Window /\ send_seq \in Nat /\ delivered \subseteq 0 .. send_seq - 1
    BY <1>1, SMT DEF WindowInv, ChannelTypeOK
  <2>2. \A d \in 0 .. send_seq - 1 : WireSeq(d) = d
    BY <1>1, <2>1, WireSeqIdentity, ChannelAssumption, SMT
  <2>3. SeenOnWire = delivered
    BY <2>1, <2>2 DEF SeenOnWire
  <2> QED
    BY <1>1, <2>1, <2>2, <2>3, ReplayBitsAssumption, SMT
       DEF WindowInv, WindowExact, Window, CheckReplay
<1>2. WindowInv => ReplayExact
  BY <1>1, SeenRefused DEF WindowInv, ReplayExact
<1> QED BY <1>2, InitWindowInv, NextWindowInv, PTL DEF ChannelSpec

-----------------------------------------------------------------------------
(* EndpointPunch: the endpoint in use.                                     *)

(* A datagram that the peer sent came from where the peer has been.        *)
Genuine(d, b) ==
  /\ {"kind", "from"} \subseteq DOMAIN d
  /\ d.kind # "challenge" => d.from \in b

(* What is on the wire came from where the peer has been, and the age of a *)
(* pending challenge is the time since it was sent.                        *)
PunchInv ==
  /\ where \subseteq been /\ been \subseteq Address
  /\ {"endpoint", "path"} \subseteq DOMAIN rec
  /\ \A d \in net : Genuine(d, been)
  /\ DOMAIN asked = Address
  /\ \A e \in DOMAIN pending : e \in Address => pending[e] = asked[e]

(* A datagram made here.                                                   *)
LEMMA DatagramFields ==
  ASSUME NEW kind, NEW from, NEW to, NEW list
  PROVE  LET d == Datagram(kind, from, to, list)
         IN  /\ {"kind", "from"} \subseteq DOMAIN d
             /\ d.kind = kind /\ d.from = from
BY DEF Datagram

(* Transactions that are over change nothing about where a datagram is     *)
(* from.                                                                   *)
LEMMA StaleGenuine ==
  ASSUME NEW n, NEW es, NEW b, \A d \in n : Genuine(d, b)
  PROVE  \A d \in Stale(n, es) : Genuine(d, b)
<1> SUFFICES ASSUME NEW d \in n
             PROVE  Genuine(d, b) /\ Genuine([d EXCEPT !.live = FALSE], b)
  BY DEF Stale
<1> QED BY DEF Genuine

(* A round of challenges: what it begins is as old as it was sent.         *)
LEMMA PunchKeeps ==
  ASSUME PunchInv, NEW r, NEW pend, NEW n, Punch(r, pend, n),
         \A e \in DOMAIN pend : e \in Address => pend[e] = asked[e],
         \A d \in n : Genuine(d, been)
  PROVE  /\ \A d \in net' : Genuine(d, been)
         /\ DOMAIN asked' = Address
         /\ \A e \in DOMAIN pending' : e \in Address => pending'[e] = asked'[e]
<1>1. CASE attempt < PunchGap /\ pending' = pend /\ net' = n /\ UNCHANGED <<attempt, asked>>
  BY <1>1 DEF PunchInv
<1>2. ASSUME NEW sendable \in SUBSET Address,
             LET begun == Begun(Targets(r), pend, sendable)
             IN  /\ pending' = [e \in DOMAIN pend \cup begun |-> IF e \in begun THEN 0 ELSE pend[e]]
                 /\ asked' = [e \in Address |-> IF e \in begun THEN 0 ELSE asked[e]]
                 /\ \E out \in SUBSET begun :
                      /\ Cardinality(n) + Cardinality(out) <= MaxWire
                      /\ net' = n \cup {Datagram("challenge", NoAddress, e, <<>>) : e \in out}
      PROVE  /\ \A d \in net' : Genuine(d, been)
             /\ DOMAIN asked' = Address
             /\ \A e \in DOMAIN pending' : e \in Address => pending'[e] = asked'[e]
  <2> DEFINE begun == Begun(Targets(r), pend, sendable)
  <2>1. PICK out \in SUBSET begun :
          net' = n \cup {Datagram("challenge", NoAddress, e, <<>>) : e \in out}
    BY <1>2
  <2>2. /\ pending' = [e \in DOMAIN pend \cup begun |-> IF e \in begun THEN 0 ELSE pend[e]]
        /\ asked' = [e \in Address |-> IF e \in begun THEN 0 ELSE asked[e]]
    BY <1>2
  <2> HIDE DEF begun
  <2>3. \A e \in out : Genuine(Datagram("challenge", NoAddress, e, <<>>), been)
    BY DatagramFields, SMT DEF Genuine
  <2> QED BY <2>1, <2>2, <2>3
<1> QED BY <1>1, <1>2 DEF Punch

(* mark_seen with an endpoint: a change of endpoint makes the path direct. *)
LEMMA SeenThere ==
  ASSUME PunchInv, NEW e, rec' = MarkSeen(rec, e)
  PROVE  /\ {"endpoint", "path"} \subseteq DOMAIN rec'
         /\ rec'.endpoint = e
         /\ rec.endpoint # e => rec'.path = "Direct"
         /\ rec'.path = "HolePunched" => rec.path = "HolePunched" /\ rec.endpoint = e
<1>1. {"endpoint", "path"} \subseteq DOMAIN rec
  BY DEF PunchInv
<1>2. rec'.path = IF rec.endpoint # e \/ rec.path = "Unknown" THEN "Direct" ELSE rec.path
  BY <1>1 DEF MarkSeen
<1>3. rec'.endpoint = e
  BY <1>1 DEF MarkSeen
<1>4. {"endpoint", "path"} \subseteq DOMAIN rec'
  BY <1>1 DEF MarkSeen
<1> QED BY <1>2, <1>3, <1>4

(* What the peer and the network do.                                       *)
LEMMA PeerStep ==
  ASSUME PunchInv,
         \/ \E p \in Places : PeerMoves(p)
         \/ \E d \in PeerDatagrams : PeerSends(d)
         \/ \E d \in net : Loses(d) \/ \E e \in Address : PeerAnswers(d, e)
         \/ \E e \in Address : OnPresence(e)
  PROVE  PunchInv' /\ ProvedStep
<1>0. /\ UNCHANGED <<rec, pending, asked>>
  BY DEF PeerMoves, PeerSends, Loses, PeerAnswers, OnPresence, PeerUnchanged
<1>1. ProvedStep
  BY <1>0 DEF ProvedStep
<1>2. ASSUME NEW p \in Places, PeerMoves(p) PROVE PunchInv'
  <2>1. /\ where' = p /\ been' = been \cup p /\ net' = net /\ presence' = presence
    BY <1>2 DEF PeerMoves
  <2>2. p \subseteq Address
    BY PunchAssumption
  <2>3. \A d \in net' : Genuine(d, been')
    BY <2>1 DEF PunchInv, Genuine
  <2> QED BY <1>0, <2>1, <2>2, <2>3 DEF PunchInv
<1>3. ASSUME NEW d \in PeerDatagrams, PeerSends(d) PROVE PunchInv'
  <2>1. d.from \in where /\ net' = net \cup {d} /\ UNCHANGED <<where, been, presence>>
    BY <1>3 DEF PeerSends
  <2>2. {"kind", "from"} \subseteq DOMAIN d
    <3>1. \E kind, from, to, list : d = Datagram(kind, from, to, list)
      BY SMT DEF PeerDatagrams, FrameFrom
    <3> QED BY <3>1, DatagramFields, SMT
  <2>3. Genuine(d, been)
    BY <2>1, <2>2 DEF PunchInv, Genuine
  <2> QED BY <1>0, <2>1, <2>3 DEF PunchInv
<1>4. ASSUME NEW d \in net, Loses(d) PROVE PunchInv'
  <2>1. net' \subseteq net /\ UNCHANGED <<where, been, presence>>
    BY <1>4 DEF Loses
  <2> QED BY <1>0, <2>1 DEF PunchInv
<1>5. ASSUME NEW d \in net, NEW e \in Address, PeerAnswers(d, e) PROVE PunchInv'
  <2> DEFINE a == [d EXCEPT !.kind = "response", !.from = e]
  <2>1. e \in where /\ net' = (net \ {d}) \cup {a} /\ UNCHANGED <<where, been, presence>>
    BY <1>5, ZenonT(30) DEF PeerAnswers
  <2>2. {"kind", "from"} \subseteq DOMAIN d
    BY DEF PunchInv, Genuine
  <2>3. {"kind", "from"} \subseteq DOMAIN a
        /\ a.from = e
    BY <2>2
  <2> HIDE DEF a
  <2>4. Genuine(a, been)
    BY <2>1, <2>3 DEF PunchInv, Genuine
  <2> QED BY <1>0, <2>1, <2>4, ZenonT(30) DEF PunchInv
<1>6. ASSUME NEW e \in Address, OnPresence(e) PROVE PunchInv'
  <2>1. UNCHANGED <<where, been, net>>
    BY <1>6 DEF OnPresence
  <2> QED BY <1>0, <2>1 DEF PunchInv
<1> QED BY <1>1, <1>2, <1>3, <1>4, <1>5, <1>6

(* Frames and candidates.                                                  *)
LEMMA FrameStep ==
  ASSUME PunchInv,
         (\E d \in net : TakeFrame(d) \/ TakeCandidates(d)) \/ \E e \in Address : FrameArrives(e)
  PROVE  PunchInv' /\ ProvedStep
<1>1. UNCHANGED <<presence, where, been>>
  BY DEF TakeFrame, TakeCandidates, FrameArrives, Away
<1>2. ASSUME NEW e \in been, rec' = MarkSeen(rec, e), net' \subseteq net, UNCHANGED <<pending, asked>>
      PROVE  PunchInv' /\ ProvedStep
  <2>1. /\ {"endpoint", "path"} \subseteq DOMAIN rec'
        /\ rec'.endpoint = e
        /\ rec'.path = "HolePunched" => rec.path = "HolePunched" /\ rec.endpoint = e
    BY <1>2, SeenThere
  <2> QED BY <1>1, <1>2, <2>1 DEF PunchInv, ProvedStep, MoveJustified
<1>3. ASSUME NEW d \in net, TakeFrame(d) PROVE PunchInv' /\ ProvedStep
  <2>1. d.from \in been
    BY <1>3 DEF PunchInv, Genuine, TakeFrame
  <2> QED BY <1>2, <1>3, <2>1 DEF TakeFrame
<1>4. ASSUME NEW e \in Address, FrameArrives(e) PROVE PunchInv' /\ ProvedStep
  <2>1. e \in been
    BY <1>4 DEF PunchInv, FrameArrives
  <2> QED BY <1>2, <1>4, <2>1 DEF FrameArrives
<1>5. ASSUME NEW d \in net, TakeCandidates(d) PROVE PunchInv' /\ ProvedStep
  <2> DEFINE list == MergeCandidate(d.list, Candidate(d.from, 400))
             r == TakenOver(rec, list)
  <2>1. rec' = r /\ Punch(r, pending, net \ {d})
    BY <1>5 DEF TakeCandidates
  <2> HIDE DEF list
  <2>2. {"endpoint", "path"} \subseteq DOMAIN r /\ r.endpoint = rec.endpoint /\ r.path = rec.path
    BY DEF PunchInv, TakenOver
  <2> HIDE DEF r
  <2>3. /\ \A x \in net' : Genuine(x, been)
        /\ DOMAIN asked' = Address
        /\ \A e \in DOMAIN pending' : e \in Address => pending'[e] = asked'[e]
    <3>1. /\ \A x \in net \ {d} : Genuine(x, been)
          /\ \A e \in DOMAIN pending : e \in Address => pending[e] = asked[e]
      BY DEF PunchInv
    <3> QED BY <2>1, <3>1, PunchKeeps
  <2>4. rec'.endpoint = rec.endpoint /\ rec'.path = rec.path
        /\ {"endpoint", "path"} \subseteq DOMAIN rec'
    BY <2>1, <2>2
  <2> QED BY <1>1, <2>3, <2>4 DEF PunchInv, ProvedStep
<1> QED BY <1>3, <1>4, <1>5

(* A response nominates the endpoint it comes from.                        *)
LEMMA ResponseStep ==
  ASSUME PunchInv, NEW d \in net, TakeResponse(d) PROVE PunchInv' /\ ProvedStep
<1>1. d.kind = "response" /\ UNCHANGED <<presence, where, been, asked>>
  BY DEF TakeResponse, Away
<1>2. d.from \in been
  BY <1>1 DEF PunchInv, Genuine
<1>3. CASE ~Acknowledges(d)
  <2>1. UNCHANGED <<pending, rec>> /\ net' = net \ {d}
    BY <1>3 DEF TakeResponse
  <2> QED BY <1>1, <2>1 DEF PunchInv, ProvedStep
<1>4. CASE Acknowledges(d)
  <2>1. /\ pending' = Without(pending, {d.to})
        /\ rec' = [rec EXCEPT !.endpoint = d.from, !.path = "HolePunched"]
        /\ net' = Stale(net \ {d}, {d.to})
    BY <1>4 DEF TakeResponse
  <2>2. /\ rec'.endpoint = d.from
        /\ {"endpoint", "path"} \subseteq DOMAIN rec'
    BY <2>1 DEF PunchInv
  <2>3. \A x \in net' : Genuine(x, been)
    <3>1. \A x \in net \ {d} : Genuine(x, been)
      BY DEF PunchInv
    <3> QED BY <2>1, <3>1, StaleGenuine
  <2>4. DOMAIN pending' \subseteq DOMAIN pending /\ \A e \in DOMAIN pending' : pending'[e] = pending[e]
    BY <2>1 DEF Without
  <2>5. PunchInv'
    BY <1>1, <1>2, <2>2, <2>3, <2>4 DEF PunchInv
  <2>6. asked[d.from] < PunchTimeout
    BY <1>2, <1>4, SMT DEF Acknowledges, PunchInv
  <2> QED BY <1>1, <1>2, <2>2, <2>5, <2>6 DEF ProvedStep, MoveJustified, NominationJustified
<1> QED BY <1>3, <1>4

(* An attempt copies the endpoint in use, and puts it back.                *)
LEMMA AttemptStep ==
  ASSUME PunchInv, AttemptBegins \/ AttemptSucceeds \/ AttemptFails PROVE PunchInv' /\ ProvedStep
<1>1. UNCHANGED <<pending, asked, net, where, been>>
  BY DEF AttemptBegins, AttemptSucceeds, AttemptFails, AttemptEnds, PeerUnchanged
<1>2. CASE AttemptBegins \/ AttemptFails
  <2>1. rec' = rec
    BY <1>2 DEF AttemptBegins, AttemptFails, AttemptEnds, PeerUnchanged
  <2> QED BY <1>1, <2>1 DEF PunchInv, ProvedStep
<1>3. CASE AttemptSucceeds
  <2>1. rec' = MarkSeen(rec, trial)
    BY <1>3 DEF AttemptSucceeds, AttemptEnds
  <2>2. /\ {"endpoint", "path"} \subseteq DOMAIN rec'
        /\ rec'.endpoint = trial
        /\ rec.endpoint # trial => rec'.path = "Direct"
        /\ rec'.path = "HolePunched" => rec.path = "HolePunched" /\ rec.endpoint = trial
    BY <2>1, SeenThere
  <2> QED BY <1>1, <2>2 DEF PunchInv, ProvedStep, MoveJustified
<1> QED BY <1>2, <1>3

(* The maintenance round.                                                  *)
LEMMA MaintainStep == ASSUME PunchInv, Maintain PROVE PunchInv' /\ ProvedStep
<1> DEFINE late == {e \in DOMAIN pending : pending[e] >= PunchTimeout}
           live == Without(pending, late)
           known == Stale(net, late)
<1>1. /\ rec' = RefreshFromDiscovery(rec, presence) /\ UNCHANGED <<presence, where, been>>
      /\ \/ pending' = live /\ net' = known /\ asked' = asked
         \/ Punch(rec, live, known)
  BY DEF Maintain, Away
<1>2. \A d \in known : Genuine(d, been)
  BY StaleGenuine DEF PunchInv
<1>3. \A e \in DOMAIN live : e \in Address => live[e] = asked[e]
  BY DEF PunchInv, Without
<1> HIDE DEF late, live, known
<1>4. /\ \A d \in net' : Genuine(d, been)
      /\ DOMAIN asked' = Address
      /\ \A e \in DOMAIN pending' : e \in Address => pending'[e] = asked'[e]
  <2>1. CASE pending' = live /\ net' = known /\ asked' = asked
    BY <1>2, <1>3, <2>1 DEF PunchInv
  <2>2. CASE Punch(rec, live, known)
    BY <1>2, <1>3, <2>2, PunchKeeps
  <2> QED BY <1>1, <2>1, <2>2
<1>5. /\ {"endpoint", "path"} \subseteq DOMAIN rec'
      /\ rec' = rec \/ (rec'.endpoint = presence /\ rec'.path = "Unknown")
  <2>1. CASE presence \in {NoAddress, rec.endpoint}
    BY <1>1, <2>1 DEF RefreshFromDiscovery, PunchInv
  <2>2. CASE presence \notin {NoAddress, rec.endpoint}
    <3>1. rec' = [rec EXCEPT !.endpoint = presence, !.path = "Unknown"]
      BY <1>1, <2>2 DEF RefreshFromDiscovery, UpdateEndpoint
    <3> QED BY <3>1 DEF PunchInv
  <2> QED BY <2>1, <2>2
<1> QED BY <1>1, <1>4, <1>5 DEF PunchInv, ProvedStep, MoveJustified

(* Time passes.                                                            *)
LEMMA PunchTickStep == ASSUME PunchInv, PunchTick PROVE PunchInv' /\ ProvedStep
<1>1. /\ pending' = [e \in DOMAIN pending |-> Aged(pending[e], PunchTimeout)]
      /\ asked' = [e \in Address |-> Aged(asked[e], PunchTimeout)]
      /\ UNCHANGED <<rec, net, presence, where, been>>
  BY DEF PunchTick, Away
<1> QED BY <1>1 DEF PunchInv, ProvedStep

(* A new session.                                                          *)
LEMMA PunchInitInv == PunchInit => PunchInv
<1> SUFFICES ASSUME PunchInit PROVE PunchInv
  OBVIOUS
<1>1. where \subseteq Address /\ been = where
  BY PunchAssumption DEF PunchInit
<1>2. {"endpoint", "path"} \subseteq DOMAIN rec
  BY DEF PunchInit
<1> QED BY <1>1, <1>2, SMT DEF PunchInit, PunchInv

(* Every step.                                                             *)
LEMMA PunchNextInv ==
  PunchInv /\ [PunchNext]_punchVars => PunchInv' /\ [ProvedStep]_punchVars
<1> SUFFICES ASSUME PunchInv, [PunchNext]_punchVars
             PROVE  PunchInv' /\ [ProvedStep]_punchVars
  OBVIOUS
<1>1. CASE UNCHANGED punchVars
  <2>1. PunchInv'
    BY <1>1 DEF punchVars, PunchInv
  <2> QED BY <1>1, <2>1
<1>2. CASE PunchNext
  BY <1>2, PeerStep, FrameStep, ResponseStep, AttemptStep, MaintainStep, PunchTickStep
     DEF PunchNext
<1> QED BY <1>1, <1>2

(* However the peer moves and datagrams are delayed, reordered or lost:    *)
(* the endpoint in use changes only to one from which the peer has sent,   *)
(* to the last presence's with the path unknown, or back to the one with   *)
(* which a handshake began; and only an answer in time to a challenge to   *)
(* it nominates one.                                                       *)
THEOREM EndpointsAreProved == PunchInit /\ [][PunchNext]_punchVars => EndpointProved
<1>1. PunchInit => PunchInv
  BY PunchInitInv
<1>2. PunchInv /\ [PunchNext]_punchVars => PunchInv' /\ [ProvedStep]_punchVars
  BY PunchNextInv
<1> QED BY <1>1, <1>2, PTL DEF EndpointProved

-----------------------------------------------------------------------------
(* RouteProbes: the routing table under two threads.                       *)

(* The records that the table may hold.                                    *)
Route ==
  [prefix : Prefix, type : {"Direct", "Relay"}, next_hop : Node, destination : Node,
   path : Seq(Node), seq : Nat, lease : Nat, metric : Nat,
   due : 0 .. ProbeInterval, failed : BOOLEAN, hold : 0 .. HoldDown]

(* A route that can be walked, as one of those that are offered.           *)
RouteOk(r) ==
  /\ r \in Route /\ TargetOf(r) \in ProbeTargets /\ Wellformed(r)
  /\ r.next_hop = Head(r.path) /\ r.destination = LastHop(r.path)
  /\ LoopFree(r.path) /\ Self \notin Range(r.path)

(* Two learned candidates of one origin and prefix.                        *)
Kin(r, s) ==
  /\ r.type = "Relay" /\ s.type = "Relay"
  /\ r.prefix = s.prefix /\ r.destination = s.destination

(* The positions of the candidates for a prefix.                           *)
Alike(rs, p) == {i \in DOMAIN rs : rs[i].prefix = p}

(* The table: its routes can be walked, are different candidates, are of   *)
(* one sequence where they are kin, and are within the limits.             *)
TableOk(rs) ==
  /\ rs \in Seq(Route) /\ Len(rs) <= MaxRoutes
  /\ \A i \in DOMAIN rs : RouteOk(rs[i])
  /\ \A i, j \in DOMAIN rs : SameCandidate(rs[i], rs[j]) => i = j
  /\ \A i, j \in DOMAIN rs : Kin(rs[i], rs[j]) => rs[i].seq = rs[j].seq
  /\ \A p \in Prefix : Cardinality(Alike(rs, p)) <= MaxCandidates

(* What the receive thread holds between its lock sections: a candidate    *)
(* that is newer than all there are, or of their sequence.                 *)
RxOk(x, rs) ==
  \/ x = Idle
  \/ x \in [pc : {"success"}, target : ProbeTargets]
  \/ /\ x \in [pc : {"older", "add"}, route : Route] /\ RouteOk(x.route)
     /\ x.route.type = "Relay"
     /\ \A i \in DOMAIN rs : Kin(rs[i], x.route) =>
          /\ x.pc = "older" => rs[i].seq < x.route.seq
          /\ x.pc = "add" => rs[i].seq = x.route.seq

(* What the maintenance thread holds.                                      *)
MtOk(m) ==
  \/ m \in [pc : {"idle", "round", "expire"}]
  \/ m \in [pc : {"fail"}, targets : SUBSET ProbeTargets]
  \/ m \in [pc : {"loop"}, copy : Seq(ProbeTargets)]
  \/ m \in [pc : {"sent"}, copy : Seq(ProbeTargets), id : ProbeId, target : ProbeTargets]

(* The probes that wait for an answer.                                     *)
ProbesOk(f) ==
  /\ DOMAIN f \subseteq ProbeId
  /\ \A id \in DOMAIN f : f[id] \in [target : ProbeTargets, left : 0 .. ProbeTimeout]

(* The rest of the state is within its types and limits.                   *)
RestOk ==
  /\ IsFiniteSet(peers) /\ Cardinality(peers) <= MaxPeers
  /\ ProbesOk(probes) /\ answers \subseteq ProbeId /\ silent \subseteq NextHops
  /\ faults \in 0 .. MaxFaults

(* The inductive invariant. That the candidate in the hands of the receive *)
(* thread is newer than its kin or of their sequence is what makes the     *)
(* decision on a copy good: no other thread learns a route.                *)
RouteInv == TableOk(routes) /\ RxOk(rx, routes) /\ MtOk(mt) /\ RestOk

-----------------------------------------------------------------------------
(* Some natural numbers have a least one.                                  *)
LEMMA LeastOf == ASSUME NEW S, S \subseteq Nat, S # {} PROVE \E x \in S : \A y \in S : x <= y
<1>1. PICK x \in S : \A y \in S : ~(<<y, x>> \in OpToRel(<, Nat))
  <2>1. IsWellFoundedOn(OpToRel(<, Nat), Nat)
    BY NatLessThanWellFounded
  <2> QED BY <2>1, WFMin
<1>2. ASSUME NEW y \in S PROVE x <= y
  <2>1. y < x => <<y, x>> \in OpToRel(<, Nat)
    BY DEF OpToRel
  <2>2. ~(y < x)
    BY <1>1, <2>1
  <2> QED BY <2>2, x \in Nat, y \in Nat, SMT
<1> QED BY <1>2

(* Min is the least of some natural numbers.                               *)
LEMMA LeastIs == ASSUME NEW S, S \subseteq Nat, S # {} PROVE Min(S) \in S
BY LeastOf DEF Min

(* The positions up to i.                                                  *)
UpTo(keep, i) == {j \in keep : j <= i}

(* The positions of a set are numbered from 1 in their order.              *)
LEMMA PlaceIs ==
  ASSUME NEW m \in Nat, NEW keep \in SUBSET (1 .. m)
  PROVE  /\ Cardinality(keep) \in Nat /\ Cardinality(keep) <= m
         /\ \A n \in 1 .. Cardinality(keep) :
              Place(keep, n) \in keep /\ Cardinality(UpTo(keep, Place(keep, n))) = n
<1> DEFINE c == Cardinality(keep)
           rank == [i \in keep |-> Cardinality(UpTo(keep, i))]
<1>1. keep \subseteq Nat
  BY SMT
<1>2. IsFiniteSet(1 .. m) /\ Cardinality(1 .. m) = m
  BY FS_Interval, SMT
<1>3. IsFiniteSet(keep) /\ c \in Nat /\ c <= m
  <2>1. IsFiniteSet(keep) /\ Cardinality(keep) <= Cardinality(1 .. m)
    BY <1>2, FS_Subset
  <2> QED BY <1>2, <2>1, FS_CardinalityType
<1> HIDE DEF c
<1>4. \A i \in keep : /\ IsFiniteSet(UpTo(keep, i)) /\ Cardinality(UpTo(keep, i)) \in Nat
                      /\ Cardinality(UpTo(keep, i)) <= c /\ Cardinality(UpTo(keep, i)) > 0
  <2> TAKE i \in keep
  <2>1. UpTo(keep, i) \subseteq keep /\ i \in UpTo(keep, i)
    BY <1>1, SMT DEF UpTo
  <2>2. IsFiniteSet(UpTo(keep, i)) /\ Cardinality(UpTo(keep, i)) <= c
    BY <1>3, <2>1, FS_Subset DEF c
  <2>3. Cardinality(UpTo(keep, i)) \in Nat
    BY <2>2, FS_CardinalityType
  <2>4. Cardinality(UpTo(keep, i)) # 0
    BY <2>1, <2>2, FS_EmptySet
  <2> QED BY <2>2, <2>3, <2>4, SMT
<1>5. \A i, j \in keep : i < j => Cardinality(UpTo(keep, i)) < Cardinality(UpTo(keep, j))
  <2> SUFFICES ASSUME NEW i \in keep, NEW j \in keep, i < j
               PROVE  Cardinality(UpTo(keep, i)) < Cardinality(UpTo(keep, j))
    OBVIOUS
  <2>0. j <= j /\ ~(j <= i) /\ \A k \in keep : k <= i => k <= j
    BY <1>1, SMT
  <2>1. UpTo(keep, i) \subseteq UpTo(keep, j) /\ j \in UpTo(keep, j) /\ j \notin UpTo(keep, i)
    BY <2>0 DEF UpTo
  <2>2. /\ Cardinality(UpTo(keep, i)) <= Cardinality(UpTo(keep, j))
        /\ Cardinality(UpTo(keep, j)) = Cardinality(UpTo(keep, i)) => UpTo(keep, j) = UpTo(keep, i)
    BY <1>4, <2>1, FS_Subset
  <2>3. Cardinality(UpTo(keep, j)) # Cardinality(UpTo(keep, i))
    BY <2>1, <2>2
  <2>4. Cardinality(UpTo(keep, i)) \in Nat /\ Cardinality(UpTo(keep, j)) \in Nat
    BY <1>4
  <2> QED BY <2>2, <2>3, <2>4, SMT
<1>6. rank \in Injection(keep, 1 .. c)
  <2>1. \A i \in keep : Cardinality(UpTo(keep, i)) \in 1 .. c
    BY <1>3, <1>4, SMT
  <2>2. \A i, j \in keep : Cardinality(UpTo(keep, i)) = Cardinality(UpTo(keep, j)) => i = j
    <3> SUFFICES ASSUME NEW i \in keep, NEW j \in keep,
                        Cardinality(UpTo(keep, i)) = Cardinality(UpTo(keep, j))
                 PROVE  i = j
      OBVIOUS
    <3>1. ~(i < j) /\ ~(j < i)
      BY <1>4, <1>5, SMT
    <3> QED BY <1>1, <3>1, SMT
  <2>3. rank \in [keep -> 1 .. c] /\ \A i \in keep : rank[i] = Cardinality(UpTo(keep, i))
    BY <2>1
  <2> HIDE DEF rank
  <2> QED BY <2>2, <2>3 DEF Injection, IsInjective
<1>7. IsFiniteSet(1 .. c) /\ Cardinality(1 .. c) = c
  BY <1>3, FS_Interval, SMT
<1>8. rank \in Surjection(keep, 1 .. c)
  BY <1>6, <1>7, FS_Injection DEF c
<1>9. \A n \in 1 .. c : Place(keep, n) \in keep /\ Cardinality(UpTo(keep, Place(keep, n))) = n
  <2> TAKE n \in 1 .. c
  <2>1. \E i \in keep : Cardinality(UpTo(keep, i)) = n
    BY <1>8 DEF Surjection
  <2> QED BY <2>1 DEF Place, UpTo
<1> QED BY <1>3, <1>9 DEF c

(* Filtering picks routes at different positions.                          *)
LEMMA KeptPicks ==
  ASSUME NEW S, NEW rs \in Seq(S), NEW keep \in SUBSET DOMAIN rs
  PROVE  /\ Kept(rs, keep) \in Seq(S) /\ Len(Kept(rs, keep)) <= Len(rs)
         /\ \E e \in [DOMAIN Kept(rs, keep) -> keep] :
              /\ \A i \in DOMAIN Kept(rs, keep) : Kept(rs, keep)[i] = rs[e[i]]
              /\ \A i, j \in DOMAIN Kept(rs, keep) : e[i] = e[j] => i = j
<1> DEFINE c == Cardinality(keep)
           at == [n \in 1 .. c |-> Place(keep, n)]
<1>1. DOMAIN rs = 1 .. Len(rs) /\ Len(rs) \in Nat
  BY SMT
<1>2. c \in Nat /\ c <= Len(rs)
  BY <1>1, PlaceIs
<1>3. \A n \in 1 .. c : Place(keep, n) \in keep /\ Cardinality(UpTo(keep, Place(keep, n))) = n
  BY <1>1, PlaceIs
<1>4. Kept(rs, keep) = [n \in 1 .. c |-> rs[Place(keep, n)]]
  BY DEF Kept
<1> HIDE DEF c
<1>5. \A n \in 1 .. c : rs[Place(keep, n)] \in S
  BY <1>3, SMT
<1>6. Kept(rs, keep) \in Seq(S) /\ Len(Kept(rs, keep)) = c /\ DOMAIN Kept(rs, keep) = 1 .. c
  BY <1>2, <1>4, <1>5, SMT
<1>7. at \in [1 .. c -> keep] /\ \A n \in 1 .. c : at[n] = Place(keep, n)
  BY <1>3
<1> HIDE DEF at
<1>8. \A i, j \in 1 .. c : at[i] = at[j] => i = j
  BY <1>3, <1>7
<1>9. \A i \in 1 .. c : Kept(rs, keep)[i] = rs[at[i]]
  BY <1>4, <1>7
<1>10. at \in [DOMAIN Kept(rs, keep) -> keep]
  BY <1>6, <1>7
<1>11. \A i \in DOMAIN Kept(rs, keep) : Kept(rs, keep)[i] = rs[at[i]]
  BY <1>6, <1>9
<1>12. \A i, j \in DOMAIN Kept(rs, keep) : at[i] = at[j] => i = j
  BY <1>6, <1>8
<1>13. Len(Kept(rs, keep)) <= Len(rs)
  BY <1>2, <1>6
<1> QED BY <1>6, <1>10, <1>11, <1>12, <1>13

(* The positions of the candidates for a prefix are finitely many.         *)
LEMMA AlikeFinite ==
  ASSUME NEW S, NEW rs \in Seq(S), NEW p
  PROVE  IsFiniteSet(Alike(rs, p)) /\ Cardinality(Alike(rs, p)) \in Nat
<1>1. DOMAIN rs = 1 .. Len(rs) /\ Len(rs) \in Nat
  BY SMT
<1>2. IsFiniteSet(1 .. Len(rs))
  BY <1>1, FS_Interval, SMT
<1>3. Alike(rs, p) \in SUBSET (1 .. Len(rs))
  BY <1>1 DEF Alike
<1> QED BY <1>2, <1>3, FS_Subset, FS_CardinalityType

(* A table made of some of the routes of another one is as sound.          *)
LEMMA KeptOk ==
  ASSUME NEW rs, TableOk(rs), NEW keep \in SUBSET DOMAIN rs
  PROVE  TableOk(Kept(rs, keep))
<1> DEFINE ks == Kept(rs, keep)
<1>1. rs \in Seq(Route) /\ Len(rs) <= MaxRoutes
  BY DEF TableOk
<1>2. /\ ks \in Seq(Route) /\ Len(ks) <= Len(rs)
      /\ \E e \in [DOMAIN ks -> keep] :
           /\ \A i \in DOMAIN ks : ks[i] = rs[e[i]]
           /\ \A i, j \in DOMAIN ks : e[i] = e[j] => i = j
  BY <1>1, KeptPicks
<1> HIDE DEF ks
<1>3. PICK e \in [DOMAIN ks -> keep] :
        /\ \A i \in DOMAIN ks : ks[i] = rs[e[i]]
        /\ \A i, j \in DOMAIN ks : e[i] = e[j] => i = j
  BY <1>2
<1>4. \A i \in DOMAIN ks : e[i] \in DOMAIN rs
  BY <1>3
<1>5. Len(ks) <= MaxRoutes
  BY <1>1, <1>2, RoutingAssumption, SMT
<1>6. \A i \in DOMAIN ks : RouteOk(ks[i])
  BY <1>3, <1>4 DEF TableOk
<1>7. \A i, j \in DOMAIN ks : SameCandidate(ks[i], ks[j]) => i = j
  <2> SUFFICES ASSUME NEW i \in DOMAIN ks, NEW j \in DOMAIN ks, SameCandidate(ks[i], ks[j])
               PROVE  i = j
    OBVIOUS
  <2>1. SameCandidate(rs[e[i]], rs[e[j]])
    BY <1>3
  <2>2. e[i] = e[j]
    BY <1>4, <2>1 DEF TableOk
  <2> QED BY <1>3, <2>2
<1>8. \A i, j \in DOMAIN ks : Kin(ks[i], ks[j]) => ks[i].seq = ks[j].seq
  <2> SUFFICES ASSUME NEW i \in DOMAIN ks, NEW j \in DOMAIN ks, Kin(ks[i], ks[j])
               PROVE  ks[i].seq = ks[j].seq
    OBVIOUS
  <2>1. ks[i] = rs[e[i]] /\ ks[j] = rs[e[j]]
    BY <1>3
  <2>2. Kin(rs[e[i]], rs[e[j]])
    BY <2>1
  <2>3. rs[e[i]].seq = rs[e[j]].seq
    BY <1>4, <2>2 DEF TableOk
  <2> QED BY <2>1, <2>3
<1>9. ASSUME NEW p \in Prefix
      PROVE  Cardinality(Alike(ks, p)) <= MaxCandidates
  <2> DEFINE f == [i \in Alike(ks, p) |-> e[i]]
  <2>1. \A i \in Alike(ks, p) : i \in DOMAIN ks /\ e[i] \in Alike(rs, p)
    BY <1>3, <1>4 DEF Alike
  <2>2. f \in [Alike(ks, p) -> Alike(rs, p)] /\ \A i \in Alike(ks, p) : f[i] = e[i]
    BY <2>1
  <2> HIDE DEF f
  <2>3. f \in Injection(Alike(ks, p), Alike(rs, p))
    BY <1>3, <2>1, <2>2 DEF Injection, IsInjective
  <2>4. IsFiniteSet(Alike(rs, p)) /\ Cardinality(Alike(rs, p)) \in Nat
    BY <1>1, AlikeFinite
  <2>5. Cardinality(Alike(ks, p)) <= Cardinality(Alike(rs, p))
    BY <2>3, <2>4, FS_Injection
  <2>6. Cardinality(Alike(ks, p)) \in Nat
    BY <1>2, AlikeFinite
  <2>7. Cardinality(Alike(rs, p)) <= MaxCandidates
    BY DEF TableOk
  <2> QED BY <2>4, <2>5, <2>6, <2>7, RoutingAssumption, SMT
<1>10. TableOk(ks)
  BY <1>2, <1>5, <1>6, <1>7, <1>8, <1>9 DEF TableOk
<1> QED BY <1>10 DEF ks

(* What identifies a route.                                                *)
Namesake(r, s) == SameCandidate(r, s) /\ r.seq = s.seq

(* The suppression of r is not over, or n is suppressed.                   *)
StillFailed(n, r) == r.failed /\ r.hold > 0 => n.failed

(* The same routes with other times, none back in use before its time.     *)
Touches(ts, rs) ==
  /\ ts \in Seq(Route) /\ DOMAIN ts = DOMAIN rs
  /\ \A i \in DOMAIN rs : RouteOk(ts[i]) /\ Namesake(ts[i], rs[i]) /\ StillFailed(ts[i], rs[i])

(* The table with other times is as sound.                                 *)
LEMMA TouchOk ==
  ASSUME NEW rs, TableOk(rs), NEW ts, Touches(ts, rs)
  PROVE  TableOk(ts)
<1>0. /\ ts \in Seq(Route) /\ DOMAIN ts = DOMAIN rs
      /\ \A i \in DOMAIN rs : RouteOk(ts[i]) /\ Namesake(ts[i], rs[i])
  BY DEF Touches
<1>1. rs \in Seq(Route) /\ Len(rs) <= MaxRoutes
  BY DEF TableOk
<1>2. Len(ts) <= MaxRoutes
  BY <1>0, <1>1, SMT
<1>3. \A i, j \in DOMAIN ts : SameCandidate(ts[i], ts[j]) => i = j
  <2> SUFFICES ASSUME NEW i \in DOMAIN rs, NEW j \in DOMAIN rs, SameCandidate(ts[i], ts[j])
               PROVE  i = j
    BY <1>0
  <2>1. Namesake(ts[i], rs[i]) /\ Namesake(ts[j], rs[j])
    BY <1>0
  <2>2. SameCandidate(rs[i], rs[j])
    BY <2>1 DEF Namesake, SameCandidate
  <2> QED BY <2>2 DEF TableOk
<1>4. \A i, j \in DOMAIN ts : Kin(ts[i], ts[j]) => ts[i].seq = ts[j].seq
  <2> SUFFICES ASSUME NEW i \in DOMAIN rs, NEW j \in DOMAIN rs, Kin(ts[i], ts[j])
               PROVE  ts[i].seq = ts[j].seq
    BY <1>0
  <2>1. Namesake(ts[i], rs[i]) /\ Namesake(ts[j], rs[j])
    BY <1>0
  <2>2. Kin(rs[i], rs[j])
    BY <2>1 DEF Namesake, SameCandidate, Kin
  <2>3. rs[i].seq = rs[j].seq
    BY <2>2 DEF TableOk
  <2> QED BY <2>1, <2>3 DEF Namesake
<1>5. \A p : Alike(ts, p) = Alike(rs, p)
  BY <1>0 DEF Alike, Namesake, SameCandidate
<1>6. \A p \in Prefix : Cardinality(Alike(ts, p)) <= MaxCandidates
  BY <1>5 DEF TableOk
<1> QED BY <1>0, <1>2, <1>3, <1>4, <1>6 DEF TableOk

(* A route with other times is as good.                                    *)
LEMMA Retimed ==
  ASSUME NEW r, RouteOk(r), NEW n \in Route, n.prefix = r.prefix, n.type = r.type,
         n.next_hop = r.next_hop, n.destination = r.destination, n.path = r.path, n.seq = r.seq
  PROVE  RouteOk(n) /\ Namesake(n, r)
<1>1. TargetOf(n) = TargetOf(r) /\ Wellformed(n)
  BY DEF TargetOf, Wellformed, RouteOk
<1> QED BY <1>1 DEF RouteOk, Namesake, SameCandidate

(* The types of the times of a route.                                      *)
LEMMA RouteTimes ==
  ASSUME NEW r \in Route
  PROVE  r.due \in 0 .. ProbeInterval /\ r.failed \in BOOLEAN /\ r.hold \in 0 .. HoldDown
BY SMT DEF Route

(* A refresh names the same candidate and keeps the suppression.           *)
LEMMA RefreshedOk ==
  ASSUME NEW old, RouteOk(old), NEW r, RouteOk(r)
  PROVE  /\ RouteOk(Refreshed(old, r)) /\ Namesake(Refreshed(old, r), r)
         /\ r.seq = old.seq => Refreshed(old, r).failed = old.failed
<1>1. old \in Route /\ r \in Route
  BY DEF RouteOk
<1>2. CASE r.seq = old.seq
  <2> DEFINE n == [r EXCEPT !.due = old.due, !.failed = old.failed, !.hold = old.hold]
  <2>1. Refreshed(old, r) = n
    BY <1>2 DEF Refreshed
  <2>2. old.due \in 0 .. ProbeInterval /\ old.failed \in BOOLEAN /\ old.hold \in 0 .. HoldDown
    BY <1>1, RouteTimes
  <2>3. n \in Route
    BY <1>1, <2>2 DEF Route
  <2>4. /\ n.prefix = r.prefix /\ n.type = r.type /\ n.next_hop = r.next_hop
        /\ n.destination = r.destination /\ n.path = r.path /\ n.seq = r.seq /\ n.failed = old.failed
    BY <1>1, SMT DEF Route
  <2> HIDE DEF n
  <2> QED BY <2>1, <2>3, <2>4, Retimed
<1>3. CASE r.seq # old.seq
  BY <1>3 DEF Refreshed, Namesake, SameCandidate
<1> QED BY <1>2, <1>3

(* add_route keeps the table sound, whatever it decides.                   *)
LEMMA AddOk ==
  ASSUME NEW rs, TableOk(rs), NEW r, RouteOk(r),
         \A i \in DOMAIN rs : Kin(rs[i], r) => rs[i].seq = r.seq
  PROVE  TableOk(AddRoute(rs, r))
<1> DEFINE same == {i \in DOMAIN rs : SameCandidate(rs[i], r)}
           k == Min(same)
           ts == [rs EXCEPT ![k] = Refreshed(rs[k], r)]
           us == Append(rs, r)
<1>1. rs \in Seq(Route) /\ Len(rs) <= MaxRoutes /\ r \in Route /\ Wellformed(r)
  BY DEF TableOk, RouteOk
<1>2. DOMAIN rs = 1 .. Len(rs) /\ Len(rs) \in Nat
  BY <1>1, SMT
<1>3. CASE same # {}
  <2>1. k \in same
    <3>1. same \subseteq Nat
      BY <1>2, SMT
    <3> QED BY <1>3, <3>1, LeastIs
  <2>2. AddRoute(rs, r) = ts
    BY <1>1, <1>3 DEF AddRoute
  <2>3. k \in DOMAIN rs /\ SameCandidate(rs[k], r)
    BY <2>1
  <2> HIDE DEF k
  <2>4. RouteOk(Refreshed(rs[k], r)) /\ Namesake(Refreshed(rs[k], r), r)
    BY <2>3, RefreshedOk DEF TableOk
  <2>5. /\ ts \in Seq(Route) /\ DOMAIN ts = DOMAIN rs /\ ts[k] = Refreshed(rs[k], r)
        /\ \A i \in DOMAIN rs \ {k} : ts[i] = rs[i]
    BY <1>1, <2>3, <2>4, SMT DEF RouteOk
  <2> HIDE DEF ts, same
  <2>6. \A i \in DOMAIN rs : RouteOk(ts[i]) /\ SameCandidate(ts[i], rs[i])
    BY <2>3, <2>4, <2>5 DEF TableOk, Namesake, SameCandidate
  <2>7. Kin(rs[k], r) => rs[k].seq = r.seq
    BY <2>3
  <2>8. Len(ts) <= MaxRoutes
    BY <1>1, <2>5, SMT
  <2>9. \A i, j \in DOMAIN ts : SameCandidate(ts[i], ts[j]) => i = j
    <3> SUFFICES ASSUME NEW i \in DOMAIN rs, NEW j \in DOMAIN rs, SameCandidate(ts[i], ts[j])
                 PROVE  i = j
      BY <2>5
    <3>1. SameCandidate(rs[i], rs[j])
      BY <2>6 DEF SameCandidate
    <3> QED BY <3>1 DEF TableOk
  <2>10. \A i, j \in DOMAIN ts : Kin(ts[i], ts[j]) => ts[i].seq = ts[j].seq
    <3> SUFFICES ASSUME NEW i \in DOMAIN rs, NEW j \in DOMAIN rs, Kin(ts[i], ts[j])
                 PROVE  ts[i].seq = ts[j].seq
      BY <2>5
    <3>1. Kin(rs[i], rs[j])
      BY <2>6 DEF SameCandidate, Kin
    <3>2. rs[i].seq = rs[j].seq
      BY <3>1 DEF TableOk
    <3>3. CASE k \notin {i, j}
      BY <2>5, <3>2, <3>3
    <3>4. CASE k \in {i, j}
      <4>1. Kin(rs[k], r) /\ Kin(rs[i], r) /\ Kin(rs[j], r)
        BY <2>3, <3>1, <3>4 DEF SameCandidate, Kin
      <4>2. rs[i].seq = r.seq /\ rs[j].seq = r.seq /\ ts[k].seq = r.seq
        BY <2>4, <2>5, <4>1 DEF Namesake
      <4> QED BY <2>5, <4>2
    <3> QED BY <3>3, <3>4
  <2>11. \A p : Alike(ts, p) = Alike(rs, p)
    BY <2>5, <2>6 DEF Alike, SameCandidate
  <2>12. \A p \in Prefix : Cardinality(Alike(ts, p)) <= MaxCandidates
    BY <2>11 DEF TableOk
  <2>13. TableOk(ts)
    BY <2>5, <2>6, <2>8, <2>9, <2>10, <2>12 DEF TableOk
  <2> QED BY <2>2, <2>13
<1>4. CASE same = {} /\ ~(Len(rs) >= MaxRoutes \/ Cardinality(Alike(rs, r.prefix)) >= MaxCandidates)
  <2>1. AddRoute(rs, r) = us
    BY <1>1, <1>4 DEF AddRoute, Alike
  <2> DEFINE z == Len(rs) + 1
  <2>2. /\ us \in Seq(Route) /\ Len(us) = z /\ DOMAIN us = DOMAIN rs \cup {z} /\ us[z] = r
        /\ \A i \in DOMAIN rs : us[i] = rs[i]
    BY <1>1, SMT
  <2>3. z \notin DOMAIN rs /\ z <= MaxRoutes
    BY <1>2, <1>4, RoutingAssumption, SMT
  <2> HIDE DEF us, z
  <2>4. \A i \in DOMAIN us : RouteOk(us[i])
    BY <2>2 DEF TableOk
  <2>5. \A i \in DOMAIN rs : ~SameCandidate(rs[i], r) /\ ~SameCandidate(r, rs[i])
    BY <1>4 DEF SameCandidate
  <2>6. \A i, j \in DOMAIN us : SameCandidate(us[i], us[j]) => i = j
    BY <2>2, <2>5 DEF TableOk
  <2>7. \A i, j \in DOMAIN us : Kin(us[i], us[j]) => us[i].seq = us[j].seq
    <3> SUFFICES ASSUME NEW i \in DOMAIN us, NEW j \in DOMAIN us, Kin(us[i], us[j])
                 PROVE  us[i].seq = us[j].seq
      OBVIOUS
    <3>1. CASE i \in DOMAIN rs /\ j \in DOMAIN rs
      BY <2>2, <3>1 DEF TableOk
    <3>2. CASE i = z /\ j \in DOMAIN rs
      <4>1. Kin(rs[j], r)
        BY <2>2, <3>2 DEF Kin
      <4> QED BY <2>2, <3>2, <4>1
    <3>3. CASE i \in DOMAIN rs /\ j = z
      BY <2>2, <3>3
    <3>4. CASE i = z /\ j = z
      BY <3>4
    <3> QED BY <2>2, <3>1, <3>2, <3>3, <3>4
  <2>8. ASSUME NEW p \in Prefix
        PROVE  Cardinality(Alike(us, p)) <= MaxCandidates
    <3>1. CASE p = r.prefix
      <4>1. Alike(us, p) = Alike(rs, p) \cup {z} /\ z \notin Alike(rs, p)
        BY <2>2, <2>3, <3>1 DEF Alike
      <4>2. IsFiniteSet(Alike(rs, p)) /\ Cardinality(Alike(rs, p)) \in Nat
        BY <1>1, AlikeFinite
      <4>3. Cardinality(Alike(us, p)) = Cardinality(Alike(rs, p)) + 1
        BY <4>1, <4>2, FS_AddElement
      <4> QED BY <1>4, <3>1, <4>2, <4>3, RoutingAssumption, SMT
    <3>2. CASE p # r.prefix
      <4>1. Alike(us, p) = Alike(rs, p)
        BY <2>2, <3>2 DEF Alike
      <4> QED BY <4>1 DEF TableOk
    <3> QED BY <3>1, <3>2
  <2>9. TableOk(us)
    BY <2>2, <2>3, <2>4, <2>6, <2>7, <2>8 DEF TableOk
  <2> QED BY <2>1, <2>9
<1>5. CASE same = {} /\ (Len(rs) >= MaxRoutes \/ Cardinality(Alike(rs, r.prefix)) >= MaxCandidates)
  BY <1>1, <1>5 DEF AddRoute, Alike
<1> QED BY <1>3, <1>4, <1>5

-----------------------------------------------------------------------------
(* A table with some routes replaced touches the old one.                  *)
LEMMA ReplacedTouches ==
  ASSUME NEW rs, TableOk(rs), NEW ts, DOMAIN ts = DOMAIN rs, ts = [i \in DOMAIN rs |-> ts[i]],
         \A i \in DOMAIN rs : RouteOk(ts[i]) /\ Namesake(ts[i], rs[i]) /\ StillFailed(ts[i], rs[i])
  PROVE  Touches(ts, rs)
<1>1. DOMAIN rs = 1 .. Len(rs) /\ Len(rs) \in Nat
  BY SMT DEF TableOk
<1>2. \A i \in DOMAIN rs : ts[i] \in Route
  BY DEF RouteOk
<1>3. ts \in [1 .. Len(rs) -> Route]
  BY <1>1, <1>2
<1>4. ts \in Seq(Route)
  BY <1>1, <1>3, SMT
<1> QED BY <1>4 DEF Touches

(* A route that stays as it is.                                            *)
LEMMA Untouched ==
  ASSUME NEW r PROVE Namesake(r, r) /\ StillFailed(r, r)
BY DEF Namesake, SameCandidate, StillFailed

(* mark_probe_sent                                                         *)
LEMMA MarkTouches ==
  ASSUME NEW rs, TableOk(rs), NEW t PROVE Touches(MarkProbeSent(rs, t), rs)
<1> DEFINE ts == MarkProbeSent(rs, t)
<1>1. /\ DOMAIN ts = DOMAIN rs /\ ts = [i \in DOMAIN rs |-> ts[i]]
      /\ \A i \in DOMAIN rs : ts[i] = IF i \in Matching(rs, t)
                                     THEN [rs[i] EXCEPT !.due = ProbeInterval] ELSE rs[i]
  BY DEF MarkProbeSent
<1> HIDE DEF ts
<1>2. ASSUME NEW i \in DOMAIN rs
      PROVE  RouteOk(ts[i]) /\ Namesake(ts[i], rs[i]) /\ StillFailed(ts[i], rs[i])
  <2> DEFINE r == rs[i]
             n == [r EXCEPT !.due = ProbeInterval]
  <2>1. RouteOk(r) /\ r \in Route
    BY DEF TableOk, RouteOk
  <2>2. ProbeInterval \in 0 .. ProbeInterval
    BY RoutingAssumption, SMT
  <2>3. n \in Route
    BY <2>1, <2>2 DEF Route
  <2>4. /\ n.prefix = r.prefix /\ n.type = r.type /\ n.next_hop = r.next_hop
        /\ n.destination = r.destination /\ n.path = r.path /\ n.seq = r.seq /\ n.failed = r.failed
    BY <2>1, SMT DEF Route
  <2>5. ts[i] = n \/ ts[i] = r
    BY <1>1
  <2> HIDE DEF n, r
  <2>6. RouteOk(n) /\ Namesake(n, r) /\ StillFailed(n, r)
    BY <2>1, <2>3, <2>4, Retimed DEF StillFailed
  <2>7. RouteOk(ts[i]) /\ Namesake(ts[i], r) /\ StillFailed(ts[i], r)
    BY <2>1, <2>5, <2>6, Untouched
  <2> QED BY <2>7 DEF r
<1>3. Touches(ts, rs)
  BY <1>1, <1>2, ReplacedTouches
<1> QED BY <1>3 DEF ts

(* record_probe_success, which leaves a route alone in its hold-down       *)
LEMMA SuccessTouches ==
  ASSUME NEW rs, TableOk(rs), NEW t PROVE Touches(RecordSuccess(rs, t), rs)
<1> DEFINE ts == RecordSuccess(rs, t)
<1>1. /\ DOMAIN ts = DOMAIN rs /\ ts = [i \in DOMAIN rs |-> ts[i]]
      /\ \A i \in DOMAIN rs : ts[i] = IF i \in Matching(rs, t) /\ rs[i].hold = 0
                                     THEN [rs[i] EXCEPT !.failed = FALSE] ELSE rs[i]
  BY DEF RecordSuccess
<1> HIDE DEF ts
<1>2. ASSUME NEW i \in DOMAIN rs
      PROVE  RouteOk(ts[i]) /\ Namesake(ts[i], rs[i]) /\ StillFailed(ts[i], rs[i])
  <2> DEFINE r == rs[i]
             n == [r EXCEPT !.failed = FALSE]
  <2>1. RouteOk(r) /\ r \in Route
    BY DEF TableOk, RouteOk
  <2>2. n \in Route
    BY <2>1 DEF Route
  <2>3. /\ n.prefix = r.prefix /\ n.type = r.type /\ n.next_hop = r.next_hop
        /\ n.destination = r.destination /\ n.path = r.path /\ n.seq = r.seq
    BY <2>1, SMT DEF Route
  <2>4. (ts[i] = n /\ r.hold = 0) \/ ts[i] = r
    BY <1>1
  <2> HIDE DEF n, r
  <2>5. RouteOk(n) /\ Namesake(n, r)
    BY <2>1, <2>2, <2>3, Retimed
  <2>6. r.hold = 0 => StillFailed(n, r)
    BY SMT DEF StillFailed
  <2>7. RouteOk(ts[i]) /\ Namesake(ts[i], r) /\ StillFailed(ts[i], r)
    BY <2>1, <2>4, <2>5, <2>6, Untouched
  <2> QED BY <2>7 DEF r
<1>3. Touches(ts, rs)
  BY <1>1, <1>2, ReplacedTouches
<1> QED BY <1>3 DEF ts

(* record_probe_failure                                                    *)
LEMMA FailureTouches ==
  ASSUME NEW rs, TableOk(rs), NEW t PROVE Touches(RecordFailure(rs, t), rs)
<1> DEFINE ts == RecordFailure(rs, t)
<1>1. /\ DOMAIN ts = DOMAIN rs /\ ts = [i \in DOMAIN rs |-> ts[i]]
      /\ \A i \in DOMAIN rs : ts[i] = IF i \in Matching(rs, t)
                                     THEN [rs[i] EXCEPT !.failed = TRUE, !.hold = HoldDown] ELSE rs[i]
  BY DEF RecordFailure
<1> HIDE DEF ts
<1>2. ASSUME NEW i \in DOMAIN rs
      PROVE  RouteOk(ts[i]) /\ Namesake(ts[i], rs[i]) /\ StillFailed(ts[i], rs[i])
  <2> DEFINE r == rs[i]
             n == [r EXCEPT !.failed = TRUE, !.hold = HoldDown]
  <2>1. RouteOk(r) /\ r \in Route
    BY DEF TableOk, RouteOk
  <2>2. HoldDown \in 0 .. HoldDown
    BY RoutingAssumption, SMT
  <2>3. n \in Route
    BY <2>1, <2>2 DEF Route
  <2>4. /\ n.prefix = r.prefix /\ n.type = r.type /\ n.next_hop = r.next_hop
        /\ n.destination = r.destination /\ n.path = r.path /\ n.seq = r.seq /\ n.failed = TRUE
    BY <2>1, SMT DEF Route
  <2>5. ts[i] = n \/ ts[i] = r
    BY <1>1
  <2> HIDE DEF n, r
  <2>6. RouteOk(n) /\ Namesake(n, r) /\ StillFailed(n, r)
    BY <2>1, <2>3, <2>4, Retimed DEF StillFailed
  <2>7. RouteOk(ts[i]) /\ Namesake(ts[i], r) /\ StillFailed(ts[i], r)
    BY <2>1, <2>5, <2>6, Untouched
  <2> QED BY <2>7 DEF r
<1>3. Touches(ts, rs)
  BY <1>1, <1>2, ReplacedTouches
<1> QED BY <1>3 DEF ts

(* One tick of the clock.                                                  *)
LEMMA AgeTouches ==
  ASSUME NEW rs, TableOk(rs) PROVE Touches(AgeRoutes(rs), rs)
<1> DEFINE ts == AgeRoutes(rs)
           RouteLater(r) == [r EXCEPT !.lease = IF r.type = "Relay" THEN Down(r.lease) ELSE r.lease,
                                !.due = Down(r.due), !.hold = Down(r.hold)]
<1>1. /\ DOMAIN ts = DOMAIN rs /\ ts = [i \in DOMAIN rs |-> ts[i]]
      /\ \A i \in DOMAIN rs : ts[i] = RouteLater(rs[i])
  BY DEF AgeRoutes
<1> HIDE DEF ts
<1>2. ASSUME NEW i \in DOMAIN rs
      PROVE  RouteOk(ts[i]) /\ Namesake(ts[i], rs[i]) /\ StillFailed(ts[i], rs[i])
  <2> DEFINE r == rs[i]
             l == IF r.type = "Relay" THEN Down(r.lease) ELSE r.lease
             n == [r EXCEPT !.lease = l, !.due = Down(r.due), !.hold = Down(r.hold)]
  <2>1. RouteOk(r) /\ r \in Route
    BY DEF TableOk, RouteOk
  <2>2. r.due \in 0 .. ProbeInterval /\ r.hold \in 0 .. HoldDown /\ r.lease \in Nat
    BY <2>1, SMT DEF Route
  <2>3. Down(r.due) \in 0 .. ProbeInterval /\ Down(r.hold) \in 0 .. HoldDown /\ l \in Nat
    BY <2>2, RoutingAssumption, SMT DEF Down
  <2>4. ts[i] = n
    BY <1>1
  <2> HIDE DEF l
  <2>5. n \in Route
    BY <2>1, <2>3 DEF Route
  <2>6. /\ n.prefix = r.prefix /\ n.type = r.type /\ n.next_hop = r.next_hop
        /\ n.destination = r.destination /\ n.path = r.path /\ n.seq = r.seq /\ n.failed = r.failed
    BY <2>1, SMT DEF Route
  <2> HIDE DEF n, r
  <2>7. RouteOk(n) /\ Namesake(n, r) /\ StillFailed(n, r)
    BY <2>1, <2>5, <2>6, Retimed DEF StillFailed
  <2> QED BY <2>4, <2>7 DEF r
<1>3. Touches(ts, rs)
  BY <1>1, <1>2, ReplacedTouches
<1> QED BY <1>3 DEF ts

-----------------------------------------------------------------------------
(* Only the path of a neighbour itself ends where it begins.               *)
LEMMA DirectIs ==
  ASSUME NEW r, RouteOk(r)
  PROVE  r.type = "Direct" <=> r.next_hop = r.destination
<1>1. r.path \in Seq(Node) /\ r.type \in {"Direct", "Relay"}
  BY SMT DEF RouteOk, Route
<1>2. CASE r.type = "Direct"
  <2>1. Len(r.path) = 1
    BY <1>2 DEF RouteOk, Wellformed
  <2>2. Head(r.path) = LastHop(r.path)
    BY <1>1, <2>1, SMT DEF LastHop
  <2> QED BY <1>2, <2>2 DEF RouteOk
<1>3. CASE r.type = "Relay"
  <2>1. Len(r.path) >= 2 /\ LoopFree(r.path)
    BY <1>3 DEF RouteOk, Wellformed
  <2>2. 1 \in DOMAIN r.path /\ Len(r.path) \in DOMAIN r.path /\ 1 # Len(r.path)
    BY <1>1, <2>1, SMT
  <2>3. r.path[1] # r.path[Len(r.path)]
    BY <2>1, <2>2 DEF LoopFree
  <2>4. Head(r.path) # LastHop(r.path)
    BY <1>1, <2>1, <2>3, SMT DEF LastHop
  <2> QED BY <1>3, <2>4 DEF RouteOk
<1> QED BY <1>1, <1>2, <1>3

(* So a probe target stands for one route at most.                         *)
LEMMA OneTarget ==
  ASSUME NEW r, RouteOk(r), NEW s, RouteOk(s), TargetOf(r) = TargetOf(s)
  PROVE  SameCandidate(r, s) /\ r.seq = s.seq
<1>1. r.destination = s.destination /\ r.next_hop = s.next_hop /\ r.prefix = s.prefix /\ r.seq = s.seq
  BY SMT DEF TargetOf
<1>2. r.type \in {"Direct", "Relay"} /\ s.type \in {"Direct", "Relay"}
  BY SMT DEF RouteOk, Route
<1>3. r.type = s.type
  BY <1>1, <1>2, DirectIs
<1> QED BY <1>1, <1>3 DEF SameCandidate

(* No suppressed route is back in use before its time.                     *)
Lasts(ts, rs) ==
  \A i \in DOMAIN rs, j \in DOMAIN ts : TargetOf(ts[j]) = TargetOf(rs[i]) => StillFailed(ts[j], rs[i])

(* New times bring no route back before its time.                          *)
LEMMA TouchLasts ==
  ASSUME NEW rs, TableOk(rs), NEW ts, Touches(ts, rs) PROVE Lasts(ts, rs)
<1> SUFFICES ASSUME NEW i \in DOMAIN rs, NEW j \in DOMAIN ts, TargetOf(ts[j]) = TargetOf(rs[i])
             PROVE  StillFailed(ts[j], rs[i])
  BY DEF Lasts
<1>1. j \in DOMAIN rs /\ RouteOk(ts[j]) /\ Namesake(ts[j], rs[j]) /\ StillFailed(ts[j], rs[j])
  BY DEF Touches
<1>2. RouteOk(rs[i])
  BY DEF TableOk
<1>3. SameCandidate(ts[j], rs[i])
  BY <1>1, <1>2, OneTarget
<1>4. SameCandidate(rs[j], rs[i])
  BY <1>1, <1>3 DEF Namesake, SameCandidate
<1>5. j = i
  BY <1>1, <1>4 DEF TableOk
<1> QED BY <1>1, <1>5

(* Nor does the removal of others.                                         *)
LEMMA KeptLasts ==
  ASSUME NEW rs, TableOk(rs), NEW keep \in SUBSET DOMAIN rs PROVE Lasts(Kept(rs, keep), rs)
<1> DEFINE ks == Kept(rs, keep)
<1>0. rs \in Seq(Route)
  BY DEF TableOk
<1>1. \E e \in [DOMAIN ks -> keep] :
        /\ \A i \in DOMAIN ks : ks[i] = rs[e[i]]
        /\ \A i, j \in DOMAIN ks : e[i] = e[j] => i = j
  BY <1>0, KeptPicks
<1> HIDE DEF ks
<1>2. PICK e \in [DOMAIN ks -> keep] : \A i \in DOMAIN ks : ks[i] = rs[e[i]]
  BY <1>1
<1>3. ASSUME NEW i \in DOMAIN rs, NEW j \in DOMAIN ks, TargetOf(ks[j]) = TargetOf(rs[i])
      PROVE  StillFailed(ks[j], rs[i])
  <2>1. e[j] \in DOMAIN rs /\ ks[j] = rs[e[j]]
    BY <1>2
  <2>2. RouteOk(rs[i]) /\ RouteOk(rs[e[j]])
    BY <2>1 DEF TableOk
  <2>3. SameCandidate(rs[e[j]], rs[i])
    BY <1>3, <2>1, <2>2, OneTarget
  <2>4. e[j] = i
    BY <2>1, <2>3 DEF TableOk
  <2> QED BY <2>1, <2>4 DEF StillFailed
<1> QED BY <1>3 DEF Lasts, ks

(* Nor does add_route, which keeps what the probes have found out.         *)
LEMMA AddLasts ==
  ASSUME NEW rs, TableOk(rs), NEW r, RouteOk(r) PROVE Lasts(AddRoute(rs, r), rs)
<1> DEFINE same == {i \in DOMAIN rs : SameCandidate(rs[i], r)}
           k == Min(same)
           ts == [rs EXCEPT ![k] = Refreshed(rs[k], r)]
           us == Append(rs, r)
<1>0. Lasts(rs, rs)
  <2> SUFFICES ASSUME NEW i \in DOMAIN rs, NEW j \in DOMAIN rs, TargetOf(rs[j]) = TargetOf(rs[i])
               PROVE  StillFailed(rs[j], rs[i])
    BY DEF Lasts
  <2>1. RouteOk(rs[i]) /\ RouteOk(rs[j])
    BY DEF TableOk
  <2>2. SameCandidate(rs[j], rs[i])
    BY <2>1, OneTarget
  <2>3. i = j
    BY <2>2 DEF TableOk
  <2> QED BY <2>3 DEF StillFailed
<1>1. rs \in Seq(Route) /\ r \in Route /\ Wellformed(r)
  BY DEF TableOk, RouteOk
<1>2. DOMAIN rs = 1 .. Len(rs) /\ Len(rs) \in Nat
  BY <1>1, SMT
<1>3. CASE same # {}
  <2>1. k \in same
    <3>1. same \subseteq Nat
      BY <1>2, SMT
    <3> QED BY <1>3, <3>1, LeastIs
  <2>2. AddRoute(rs, r) = ts
    BY <1>1, <1>3 DEF AddRoute
  <2>3. k \in DOMAIN rs /\ SameCandidate(rs[k], r)
    BY <2>1
  <2> HIDE DEF k
  <2>4. /\ RouteOk(rs[k]) /\ RouteOk(Refreshed(rs[k], r)) /\ Namesake(Refreshed(rs[k], r), r)
        /\ r.seq = rs[k].seq => Refreshed(rs[k], r).failed = rs[k].failed
    BY <2>3, RefreshedOk DEF TableOk
  <2>5. /\ DOMAIN ts = DOMAIN rs /\ ts[k] = Refreshed(rs[k], r)
        /\ \A i \in DOMAIN rs \ {k} : ts[i] = rs[i]
    BY <2>3
  <2> HIDE DEF ts, same
  <2>6. ASSUME NEW i \in DOMAIN rs, TargetOf(ts[k]) = TargetOf(rs[i])
        PROVE  StillFailed(ts[k], rs[i])
    <3>1. RouteOk(rs[i]) /\ RouteOk(ts[k])
      BY <2>4, <2>5 DEF TableOk
    <3>2. SameCandidate(ts[k], rs[i]) /\ ts[k].seq = rs[i].seq
      BY <2>6, <3>1, OneTarget
    <3>3. SameCandidate(rs[k], rs[i]) /\ rs[i].seq = r.seq
      BY <2>3, <2>4, <2>5, <3>2 DEF SameCandidate, Namesake
    <3>4. i = k
      BY <2>3, <3>3 DEF TableOk
    <3> QED BY <2>4, <2>5, <3>3, <3>4 DEF StillFailed
  <2>7. Lasts(ts, rs)
    BY <1>0, <2>5, <2>6 DEF Lasts
  <2> QED BY <2>2, <2>7
<1>4. CASE same = {} /\ ~(Len(rs) >= MaxRoutes \/ Cardinality(Alike(rs, r.prefix)) >= MaxCandidates)
  <2>1. AddRoute(rs, r) = us
    BY <1>1, <1>4 DEF AddRoute, Alike
  <2> DEFINE z == Len(rs) + 1
  <2>2. DOMAIN us = DOMAIN rs \cup {z} /\ us[z] = r /\ \A i \in DOMAIN rs : us[i] = rs[i]
    BY <1>1, SMT
  <2> HIDE DEF us, z
  <2>3. ASSUME NEW i \in DOMAIN rs PROVE TargetOf(r) # TargetOf(rs[i])
    <3>1. RouteOk(rs[i])
      BY DEF TableOk
    <3>2. ~SameCandidate(r, rs[i])
      BY <1>4 DEF SameCandidate
    <3> QED BY <3>1, <3>2, OneTarget
  <2>4. Lasts(us, rs)
    BY <1>0, <2>2, <2>3 DEF Lasts
  <2> QED BY <2>1, <2>4
<1>5. CASE same = {} /\ (Len(rs) >= MaxRoutes \/ Cardinality(Alike(rs, r.prefix)) >= MaxCandidates)
  BY <1>0, <1>1, <1>5 DEF AddRoute, Alike
<1> QED BY <1>3, <1>4, <1>5

-----------------------------------------------------------------------------
(* The routes of configured peers.                                         *)
LEMMA ConfiguredOk ==
  ASSUME NEW p \in Direct
  PROVE  RouteOk(ConfiguredRoute(p)) /\ ConfiguredRoute(p).type = "Direct"
<1> DEFINE r == ConfiguredRoute(p)
           q == <<p>>
<1>1. p \in Node /\ p # Self /\ OwnPrefix[p] \in Prefix
  BY RouteProbesAssumption
<1>2. q \in Seq(Node) /\ Len(q) = 1 /\ Head(q) = p /\ DOMAIN q = {1} /\ q[1] = p
  BY <1>1, SMT
<1>3. LastHop(q) = p
  BY <1>2 DEF LastHop
<1>4. r = NewRoute(OwnPrefix[p], "Direct", q, 1, LeaseTime, 1)
  BY DEF ConfiguredRoute
<1>5. 0 \in 0 .. ProbeInterval /\ 0 \in 0 .. HoldDown /\ LeaseTime \in Nat /\ 1 \in Nat
  BY RoutingAssumption, PeerTableAssumption, SMT
<1>6. TargetOf(r) \in ProbeTargets
  BY DEF ProbeTargets
<1> HIDE DEF q, r
<1>7. r \in Route
  BY <1>1, <1>2, <1>3, <1>4, <1>5 DEF Route, NewRoute
<1>8. /\ r.type = "Direct" /\ r.path = q /\ r.next_hop = Head(q) /\ r.destination = LastHop(q)
  BY <1>4 DEF NewRoute
<1>9. LoopFree(q) /\ Self \notin Range(q)
  BY <1>1, <1>2 DEF LoopFree, Range
<1>10. Wellformed(r)
  BY <1>2, <1>8 DEF Wellformed
<1>11. RouteOk(r)
  BY <1>6, <1>7, <1>8, <1>9, <1>10 DEF RouteOk
<1> QED BY <1>8, <1>11 DEF r

(* What merge_peer_table makes of an offer that it can use.                *)
LEMMA OfferedOk ==
  ASSUME NEW a \in Adverts, Usable(Self, a.sender, a.entry, a.entry.offers[1])
  PROVE  /\ RouteOk(RelayRoute(a.sender, a.entry, a.entry.offers[1]))
         /\ RelayRoute(a.sender, a.entry, a.entry.offers[1]).type = "Relay"
<1> DEFINE e == a.entry
           o == e.offers[1]
           path == RelayPath(a.sender, e)
           rest == IF e.path = <<>> THEN <<e.node>> ELSE e.path
           r == RelayRoute(a.sender, e, o)
<1>1. /\ a.sender \in Node /\ e.node \in Node /\ e.path \in Seq(Node)
      /\ o \in [prefix : Prefix, seq : Nat \ {0}, lease : Nat, metric : Nat]
  BY RouteProbesAssumption
<1>2. rest \in Seq(Node) /\ Len(rest) >= 1
  BY <1>1, SMT
<1>3. path = <<a.sender>> \o rest
  BY DEF RelayPath
<1> HIDE DEF rest
<1>4. path \in Seq(Node) /\ Len(path) >= 2 /\ Head(path) = path[1] /\ path[1] \in Node
      /\ path[Len(path)] \in Node
  <2> DEFINE q == <<a.sender>>
  <2>1. q \in Seq(Node) /\ Len(q) = 1
    BY <1>1, SMT
  <2> HIDE DEF q
  <2>2. q \o rest \in Seq(Node) /\ Len(q \o rest) >= 2
    BY <1>2, <2>1, SMT
  <2>3. path = q \o rest
    BY <1>3 DEF q
  <2> HIDE DEF path
  <2>4. path \in Seq(Node) /\ Len(path) >= 2
    BY <2>2, <2>3
  <2> QED BY <2>4, SMT
<1>5. LoopFree(path) /\ Self \notin Range(path)
  BY DEF Usable, PathUsable
<1>6. r = NewRoute(o.prefix, "Relay", path, o.seq, o.lease, o.metric + 1)
  BY DEF RelayRoute
<1>7. o.prefix \in Prefix /\ o.seq \in Nat /\ o.lease \in Nat /\ o.metric + 1 \in Nat
  BY <1>1, SMT
<1>8. 0 \in 0 .. ProbeInterval /\ 0 \in 0 .. HoldDown
  BY RoutingAssumption, SMT
<1>9. TargetOf(r) \in ProbeTargets
  BY DEF ProbeTargets
<1> HIDE DEF path, r, o, e
<1>10. LastHop(path) = path[Len(path)]
  BY DEF LastHop
<1>11. r \in Route
  BY <1>4, <1>6, <1>7, <1>8, <1>10 DEF Route, NewRoute
<1>12. /\ r.type = "Relay" /\ r.path = path /\ r.next_hop = Head(path) /\ r.destination = LastHop(path)
  BY <1>6 DEF NewRoute
<1>13. Wellformed(r)
  BY <1>4, <1>5, <1>12 DEF Wellformed
<1>14. RouteOk(r)
  BY <1>5, <1>9, <1>11, <1>12, <1>13 DEF RouteOk
<1> QED BY <1>12, <1>14 DEF r, o, e

-----------------------------------------------------------------------------
(* The learned routes of ts are all in rs.                                 *)
LearnedFrom(ts, rs) ==
  \A j \in DOMAIN ts : ts[j].type = "Relay" => \E i \in DOMAIN rs : Namesake(ts[j], rs[i])

(* What no thread but the receive thread does to the table is to learn a   *)
(* route.                                                                  *)
Quiet(ts, rs) == TableOk(ts) /\ Lasts(ts, rs) /\ LearnedFrom(ts, rs)

(* Setting times learns nothing.                                           *)
LEMMA TouchQuiet ==
  ASSUME NEW rs, TableOk(rs), NEW ts, Touches(ts, rs) PROVE Quiet(ts, rs)
<1>1. LearnedFrom(ts, rs)
  BY DEF LearnedFrom, Touches
<1> QED BY <1>1, TouchOk, TouchLasts DEF Quiet

(* A table that stays learns nothing.                                      *)
LEMMA SameQuiet ==
  ASSUME NEW rs, TableOk(rs) PROVE Quiet(rs, rs)
<1>1. Touches(rs, rs)
  BY Untouched DEF Touches, TableOk
<1> QED BY <1>1, TouchQuiet

(* Removing routes learns nothing.                                         *)
LEMMA KeptQuiet ==
  ASSUME NEW rs, TableOk(rs), NEW keep \in SUBSET DOMAIN rs PROVE Quiet(Kept(rs, keep), rs)
<1> DEFINE ks == Kept(rs, keep)
<1>0. rs \in Seq(Route)
  BY DEF TableOk
<1>1. \E e \in [DOMAIN ks -> keep] :
        /\ \A i \in DOMAIN ks : ks[i] = rs[e[i]]
        /\ \A i, j \in DOMAIN ks : e[i] = e[j] => i = j
  BY <1>0, KeptPicks
<1>2. TableOk(ks) /\ Lasts(ks, rs)
  BY KeptOk, KeptLasts
<1> HIDE DEF ks
<1>3. PICK e \in [DOMAIN ks -> keep] : \A i \in DOMAIN ks : ks[i] = rs[e[i]]
  BY <1>1
<1>4. LearnedFrom(ks, rs)
  <2> SUFFICES ASSUME NEW j \in DOMAIN ks PROVE \E i \in DOMAIN rs : Namesake(ks[j], rs[i])
    BY DEF LearnedFrom
  <2>1. e[j] \in DOMAIN rs /\ ks[j] = rs[e[j]]
    BY <1>3
  <2>2. Namesake(ks[j], rs[e[j]])
    BY <2>1, Untouched
  <2> QED BY <2>1, <2>2
<1>5. Quiet(ks, rs)
  BY <1>2, <1>4 DEF Quiet
<1> QED BY <1>5 DEF ks

(* Installing a configured route learns nothing.                           *)
LEMMA AddQuiet ==
  ASSUME NEW rs, TableOk(rs), NEW r, RouteOk(r), r.type = "Direct"
  PROVE  Quiet(AddRoute(rs, r), rs)
<1> DEFINE same == {i \in DOMAIN rs : SameCandidate(rs[i], r)}
           k == Min(same)
           ts == AddRoute(rs, r)
<1>1. TableOk(ts) /\ Lasts(ts, rs)
  <2>1. \A i \in DOMAIN rs : ~Kin(rs[i], r)
    BY DEF Kin
  <2> QED BY <2>1, AddOk, AddLasts
<1>2. rs \in Seq(Route) /\ DOMAIN rs = 1 .. Len(rs) /\ Len(rs) \in Nat
  BY SMT DEF TableOk
<1>3. \A j \in DOMAIN ts : ts[j].type = "Relay" => j \in DOMAIN rs /\ ts[j] = rs[j]
  <2>1. CASE same # {}
    <3>1. k \in same
      <4>1. same \subseteq Nat
        BY <1>2, SMT
      <4> QED BY <2>1, <4>1, LeastIs
    <3>2. k \in DOMAIN rs /\ RouteOk(rs[k])
      BY <3>1 DEF TableOk
    <3>3. ts = rs \/ ts = [rs EXCEPT ![k] = Refreshed(rs[k], r)]
      BY <2>1 DEF AddRoute
    <3> HIDE DEF k, ts, same
    <3>4. Namesake(Refreshed(rs[k], r), r)
      BY <3>2, RefreshedOk
    <3>5. Refreshed(rs[k], r).type = "Direct"
      BY <3>4 DEF Namesake, SameCandidate
    <3> QED BY <3>2, <3>3, <3>5
  <2>2. CASE same = {}
    <3>1. ts = rs \/ ts = Append(rs, r)
      BY <2>2 DEF AddRoute
    <3> HIDE DEF ts, same
    <3> QED BY <1>2, <3>1, SMT
  <2> QED BY <2>1, <2>2
<1> HIDE DEF ts
<1>4. LearnedFrom(ts, rs)
  BY <1>3, Untouched DEF LearnedFrom
<1>5. Quiet(ts, rs)
  BY <1>1, <1>4 DEF Quiet
<1> QED BY <1>5 DEF ts

(* The candidate in the hands of the receive thread stays in order.        *)
LEMMA QuietRx ==
  ASSUME NEW rs, NEW ts, Quiet(ts, rs), NEW x, RxOk(x, rs) PROVE RxOk(x, ts)
<1>1. CASE x = Idle \/ x \in [pc : {"success"}, target : ProbeTargets]
  BY <1>1 DEF RxOk
<1>2. CASE ~(x = Idle \/ x \in [pc : {"success"}, target : ProbeTargets])
  <2>1. /\ x \in [pc : {"older", "add"}, route : Route] /\ RouteOk(x.route)
        /\ x.route.type = "Relay"
        /\ \A i \in DOMAIN rs : Kin(rs[i], x.route) =>
             /\ x.pc = "older" => rs[i].seq < x.route.seq
             /\ x.pc = "add" => rs[i].seq = x.route.seq
    BY <1>2 DEF RxOk
  <2>2. ASSUME NEW j \in DOMAIN ts, Kin(ts[j], x.route)
        PROVE  /\ x.pc = "older" => ts[j].seq < x.route.seq
               /\ x.pc = "add" => ts[j].seq = x.route.seq
    <3>1. PICK i \in DOMAIN rs : Namesake(ts[j], rs[i])
      BY <2>2 DEF Quiet, LearnedFrom, Kin
    <3>2. Kin(rs[i], x.route) /\ ts[j].seq = rs[i].seq
      BY <2>2, <3>1 DEF Namesake, SameCandidate, Kin
    <3> QED BY <2>1, <3>2
  <2> QED BY <2>1, <2>2 DEF RxOk
<1> QED BY <1>1, <1>2

-----------------------------------------------------------------------------
(* The shapes of the two threads.                                          *)
LEMMA RxShape ==
  ASSUME NEW x, NEW rs, RxOk(x, rs)
  PROVE  /\ x.pc \in {"idle", "older", "add", "success"}
         /\ x.pc = "success" => x.target \in ProbeTargets
         /\ x.pc \in {"older", "add"} =>
              /\ x \in [pc : {"older", "add"}, route : Route] /\ RouteOk(x.route)
              /\ x.route.type = "Relay"
              /\ \A i \in DOMAIN rs : Kin(rs[i], x.route) =>
                   /\ x.pc = "older" => rs[i].seq < x.route.seq
                   /\ x.pc = "add" => rs[i].seq = x.route.seq
<1>1. x = Idle => x.pc = "idle"
  BY SMT DEF Idle
<1>2. x \in [pc : {"success"}, target : ProbeTargets] => x.pc = "success" /\ x.target \in ProbeTargets
  BY SMT
<1>3. x \in [pc : {"older", "add"}, route : Route] => x.pc \in {"older", "add"}
  BY SMT
<1> QED BY <1>1, <1>2, <1>3 DEF RxOk

(* The program counter of the maintenance thread tells what it holds.      *)
LEMMA MtShape ==
  ASSUME NEW m, MtOk(m)
  PROVE  /\ m.pc \in {"idle", "round", "expire", "fail", "loop", "sent"}
         /\ m.pc = "fail" => m \in [pc : {"fail"}, targets : SUBSET ProbeTargets]
         /\ m.pc = "loop" => m \in [pc : {"loop"}, copy : Seq(ProbeTargets)]
         /\ m.pc = "sent" =>
              m \in [pc : {"sent"}, copy : Seq(ProbeTargets), id : ProbeId, target : ProbeTargets]
<1>1. m \in [pc : {"idle", "round", "expire"}] => m.pc \in {"idle", "round", "expire"}
  BY SMT
<1>2. m \in [pc : {"fail"}, targets : SUBSET ProbeTargets] => m.pc = "fail"
  BY SMT
<1>3. m \in [pc : {"loop"}, copy : Seq(ProbeTargets)] => m.pc = "loop"
  BY SMT
<1>4. m \in [pc : {"sent"}, copy : Seq(ProbeTargets), id : ProbeId, target : ProbeTargets] => m.pc = "sent"
  BY SMT
<1> QED BY <1>1, <1>2, <1>3, <1>4 DEF MtOk

(* A step of another thread on the table.                                  *)
LEMMA QuietStep ==
  ASSUME RouteInv, Quiet(routes', routes), rx' = rx \/ rx' = Idle, MtOk(mt'), RestOk'
  PROVE  RouteInv' /\ Lasts(routes', routes)
<1>1. RxOk(rx, routes')
  BY QuietRx DEF RouteInv
<1>2. RxOk(rx', routes')
  BY <1>1 DEF RxOk
<1> QED BY <1>2 DEF RouteInv, Quiet

(* A step that leaves the table alone.                                     *)
LEMMA NoTableStep ==
  ASSUME RouteInv, routes' = routes, RxOk(rx', routes), MtOk(mt'), RestOk'
  PROVE  RouteInv' /\ Lasts(routes', routes)
<1>1. Quiet(routes, routes)
  BY SameQuiet DEF RouteInv
<1> QED BY <1>1 DEF RouteInv, Quiet

(* What most steps leave alone.                                            *)
LEMMA RestSame ==
  ASSUME RestOk, UNCHANGED <<peers, silent>>, ProbesOk(probes'), answers' \subseteq ProbeId,
         faults' = faults \/ (faults < MaxFaults /\ faults' = faults + 1)
  PROVE  RestOk'
<1>1. faults' \in 0 .. MaxFaults
  BY RouteProbesAssumption, SMT DEF RestOk
<1> QED BY <1>1 DEF RestOk

(* install_configured_routes.                                              *)
LEMMA InstallStep ==
  ASSUME RouteInv, NEW p \in Direct, Install(p) PROVE RouteInv' /\ Lasts(routes', routes)
<1>1. Quiet(routes', routes)
  BY ConfiguredOk, AddQuiet DEF Install, RouteInv
<1>2. MtOk(mt') /\ RestOk' /\ rx' = rx
  BY RestSame DEF Install, RouteInv, RestOk
<1> QED BY <1>1, <1>2, QuietStep

(* The verdict on the copy of the table, as the next sections find it.     *)
LEMMA VerdictMeans ==
  ASSUME NEW rs, TableOk(rs), NEW r, RouteOk(r), r.type = "Relay"
  PROVE  /\ Verdict(rs, r) = "newer" => \A i \in DOMAIN rs : Kin(rs[i], r) => rs[i].seq < r.seq
         /\ Verdict(rs, r) = "add" => \A i \in DOMAIN rs : Kin(rs[i], r) => rs[i].seq = r.seq
<1>1. \A i \in DOMAIN rs : rs[i].seq \in Nat
  BY SMT DEF TableOk, RouteOk, Route
<1>2. r.seq \in Nat
  BY SMT DEF RouteOk, Route
<1>3. \A i \in DOMAIN rs : Kin(rs[i], r) => rs[i] \in Learned(rs, r)
  BY DEF Kin, Learned
<1>4. \A k \in Learned(rs, r) : \E i \in DOMAIN rs : k = rs[i] /\ Kin(rs[i], r)
  BY DEF Kin, Learned
<1>5. ASSUME Verdict(rs, r) = "newer", NEW i \in DOMAIN rs, Kin(rs[i], r)
      PROVE  rs[i].seq < r.seq
  <2>1. \A k \in Learned(rs, r) : r.seq > k.seq
    BY <1>5 DEF Verdict
  <2>2. r.seq > rs[i].seq
    BY <1>3, <1>5, <2>1
  <2> QED BY <1>1, <1>2, <2>2, SMT
<1>6. ASSUME Verdict(rs, r) = "add", NEW i \in DOMAIN rs, Kin(rs[i], r)
      PROVE  rs[i].seq = r.seq
  <2>1. (~ \E k \in Learned(rs, r) : r.seq < k.seq) /\ ~ \A k \in Learned(rs, r) : r.seq > k.seq
    BY <1>6 DEF Verdict
  <2>2. PICK j \in DOMAIN rs : Kin(rs[j], r) /\ ~(r.seq < rs[j].seq) /\ ~(r.seq > rs[j].seq)
    BY <1>4, <2>1
  <2>3. rs[j].seq = r.seq
    BY <1>1, <1>2, <2>2, SMT
  <2>4. Kin(rs[i], rs[j])
    BY <1>6, <2>2 DEF Kin
  <2>5. rs[i].seq = rs[j].seq
    BY <2>4 DEF TableOk
  <2> QED BY <2>3, <2>5
<1> QED BY <1>5, <1>6

(* merge_peer_table up to its copy of the table: the verdict on the copy is*)
(* a fact about the kin in the table.                                      *)
LEMMA MergeCopyStep ==
  ASSUME RouteInv, NEW a \in Adverts, MergeCopy(a) PROVE RouteInv' /\ Lasts(routes', routes)
<1> DEFINE e == a.entry
           r == RelayRoute(a.sender, e, e.offers[1])
<1>1. TableOk(routes) /\ MtOk(mt) /\ RestOk
  BY DEF RouteInv
<1>2. /\ peers' = Upsert(peers, e.node)
      /\ rx' = IF e.node \in peers' /\ Usable(Self, a.sender, e, e.offers[1])
               THEN CASE Verdict(routes, r) = "newer" -> [pc |-> "older", route |-> r]
                      [] Verdict(routes, r) = "add" -> [pc |-> "add", route |-> r]
                      [] OTHER -> Idle
               ELSE Idle
      /\ UNCHANGED <<routes, probes, answers, silent, mt, faults>>
  BY DEF MergeCopy
<1>3. RestOk'
  <2>1. IsFiniteSet(peers) /\ Cardinality(peers) <= MaxPeers
    BY <1>1 DEF RestOk
  <2>2. IsFiniteSet(peers') /\ Cardinality(peers') <= MaxPeers
    <3>1. CASE peers' = peers
      BY <2>1, <3>1
    <3>2. CASE e.node \notin peers /\ ~(Cardinality(peers) >= MaxPeers) /\ peers' = peers \cup {e.node}
      <4>1. IsFiniteSet(peers') /\ Cardinality(peers') = Cardinality(peers) + 1 /\ Cardinality(peers) \in Nat
        BY <2>1, <3>2, FS_AddElement, FS_CardinalityType
      <4> QED BY <3>2, <4>1, PeerTableAssumption, SMT
    <3> QED BY <1>2, <3>1, <3>2 DEF Upsert
  <2> QED BY <1>1, <1>2, <2>2 DEF RestOk
<1>4. RxOk(rx', routes)
  <2>1. CASE rx' = Idle
    BY <2>1 DEF RxOk
  <2>2. CASE rx' # Idle
    <3>1. Usable(Self, a.sender, e, e.offers[1])
      BY <1>2, <2>2
    <3>2. RouteOk(r) /\ r.type = "Relay" /\ r \in Route
      BY <3>1, OfferedOk DEF RouteOk
    <3>3. \/ Verdict(routes, r) = "newer" /\ rx' = [pc |-> "older", route |-> r]
          \/ Verdict(routes, r) = "add" /\ rx' = [pc |-> "add", route |-> r]
      BY <1>2, <2>2
    <3> HIDE DEF r, e
    <3>4. /\ rx' \in [pc : {"older", "add"}, route : Route] /\ rx'.route = r
          /\ rx'.pc = "older" => Verdict(routes, r) = "newer"
          /\ rx'.pc = "add" => Verdict(routes, r) = "add"
      BY <3>2, <3>3, SMT
    <3>5. \A i \in DOMAIN routes : Kin(routes[i], r) =>
            /\ Verdict(routes, r) = "newer" => routes[i].seq < r.seq
            /\ Verdict(routes, r) = "add" => routes[i].seq = r.seq
      BY <1>1, <3>2, VerdictMeans
    <3>6. \A i \in DOMAIN routes : Kin(routes[i], rx'.route) =>
            /\ rx'.pc = "older" => routes[i].seq < rx'.route.seq
            /\ rx'.pc = "add" => routes[i].seq = rx'.route.seq
      BY <3>4, <3>5
    <3>7. RouteOk(rx'.route) /\ rx'.route.type = "Relay"
      BY <3>2, <3>4
    <3> QED BY <3>4, <3>6, <3>7 DEF RxOk
  <2> QED BY <2>1, <2>2
<1> QED BY <1>1, <1>2, <1>3, <1>4, NoTableStep

(* remove_older_learned_routes: no kin of the candidate stays.             *)
LEMMA MergeOlderStep ==
  ASSUME RouteInv, MergeOlder PROVE RouteInv' /\ Lasts(routes', routes)
<1> DEFINE r == rx.route
           keep == {i \in DOMAIN routes : ~Older(routes[i], r)}
           ks == Kept(routes, keep)
<1>1. TableOk(routes) /\ RxOk(rx, routes) /\ MtOk(mt) /\ RestOk
  BY DEF RouteInv
<1>2. /\ rx.pc = "older" /\ rx' = [rx EXCEPT !.pc = "add"]
      /\ UNCHANGED <<peers, probes, answers, silent, mt, faults>>
  BY DEF MergeOlder
<1>3. routes' = ks
  BY DEF MergeOlder, RemoveOlder
<1>4. /\ rx \in [pc : {"older", "add"}, route : Route] /\ RouteOk(r) /\ r.type = "Relay"
      /\ \A i \in DOMAIN routes : Kin(routes[i], r) => routes[i].seq < r.seq
  BY <1>1, <1>2, RxShape
<1>5. rx' \in [pc : {"older", "add"}, route : Route] /\ rx'.route = r /\ rx'.pc = "add"
  BY <1>2, <1>4, SMT
<1>6. Quiet(ks, routes)
  BY <1>1, KeptQuiet
<1>7. \E e \in [DOMAIN ks -> keep] :
        /\ \A i \in DOMAIN ks : ks[i] = routes[e[i]]
        /\ \A i, j \in DOMAIN ks : e[i] = e[j] => i = j
  <2>1. routes \in Seq(Route)
    BY <1>1 DEF TableOk
  <2> QED BY <2>1, KeptPicks
<1>8. \A i \in keep : ~Kin(routes[i], r)
  BY <1>4 DEF Older, Kin
<1> HIDE DEF r, ks, keep
<1>9. \A i \in DOMAIN ks : ~Kin(ks[i], r)
  BY <1>7, <1>8
<1>10. RxOk(rx', ks)
  BY <1>4, <1>5, <1>9 DEF RxOk
<1>11. RestOk'
  BY <1>1, <1>2 DEF RestOk
<1> QED BY <1>1, <1>2, <1>3, <1>6, <1>10, <1>11 DEF RouteInv, Quiet

(* add_route for the candidate in hand.                                    *)
LEMMA MergeAddStep ==
  ASSUME RouteInv, MergeAdd PROVE RouteInv' /\ Lasts(routes', routes)
<1>1. TableOk(routes) /\ RxOk(rx, routes) /\ MtOk(mt) /\ RestOk
  BY DEF RouteInv
<1>2. /\ rx.pc = "add" /\ rx' = Idle /\ routes' = AddRoute(routes, rx.route)
      /\ UNCHANGED <<peers, probes, answers, silent, mt, faults>>
  BY DEF MergeAdd
<1>3. RouteOk(rx.route) /\ \A i \in DOMAIN routes : Kin(routes[i], rx.route) => routes[i].seq = rx.route.seq
  BY <1>1, <1>2, RxShape
<1>4. TableOk(routes') /\ Lasts(routes', routes)
  BY <1>1, <1>2, <1>3, AddOk, AddLasts
<1>5. RestOk'
  BY <1>1, <1>2 DEF RestOk
<1> QED BY <1>1, <1>2, <1>4, <1>5 DEF RouteInv, RxOk

(* Probes that are left of those there were.                               *)
LEMMA FewerProbes ==
  ASSUME NEW f, ProbesOk(f), NEW D, D \subseteq DOMAIN f, NEW g, g = [i \in D |-> f[i]]
  PROVE  ProbesOk(g)
BY DEF ProbesOk

(* A probe is cancelled or answered.                                       *)
LEMMA CancelOk ==
  ASSUME NEW f, ProbesOk(f), NEW id PROVE ProbesOk(Cancel(f, id))
<1>1. DOMAIN f \ {id} \subseteq DOMAIN f
  OBVIOUS
<1> QED BY <1>1, FewerProbes DEF Cancel

(* acknowledge.                                                            *)
LEMMA AcknowledgeStep ==
  ASSUME RouteInv, NEW id \in ProbeId, Acknowledge(id) PROVE RouteInv' /\ Lasts(routes', routes)
<1>1. MtOk(mt) /\ RestOk /\ RxOk(rx, routes) /\ ProbesOk(probes) /\ answers \subseteq ProbeId
  BY DEF RouteInv, RestOk
<1>2. answers' = answers \ {id} /\ UNCHANGED <<routes, peers, silent, mt, faults>>
  BY DEF Acknowledge
<1>3. CASE id \in DOMAIN probes /\ probes[id].left > 0
  <2>1. rx' = [pc |-> "success", target |-> probes[id].target] /\ probes' = Cancel(probes, id)
    BY <1>3 DEF Acknowledge
  <2>2. probes[id].target \in ProbeTargets
    BY <1>1, <1>3, SMT DEF ProbesOk
  <2>3. RxOk(rx', routes)
    BY <2>1, <2>2 DEF RxOk
  <2>4. RestOk'
    BY <1>1, <1>2, <2>1, CancelOk, RestSame
  <2> QED BY <1>1, <1>2, <2>3, <2>4, NoTableStep
<1>4. CASE ~(id \in DOMAIN probes /\ probes[id].left > 0)
  <2>1. rx' = rx /\ probes' = probes
    BY <1>4 DEF Acknowledge
  <2>2. RestOk'
    BY <1>1, <1>2, <2>1, RestSame
  <2> QED BY <1>1, <1>2, <2>1, <2>2, NoTableStep
<1> QED BY <1>3, <1>4

(* record_probe_success.                                                   *)
LEMMA SuccessStep ==
  ASSUME RouteInv, Success PROVE RouteInv' /\ Lasts(routes', routes)
<1>1. Touches(routes', routes) /\ TableOk(routes)
  BY SuccessTouches DEF RouteInv, Success
<1>2. Quiet(routes', routes)
  BY <1>1, TouchQuiet
<1>3. MtOk(mt') /\ RestOk' /\ rx' = Idle
  BY DEF Success, RouteInv, RestOk
<1> QED BY <1>2, <1>3, QuietStep

(* The lock sections of the maintenance thread on the table.               *)
LEMMA RemoveStep ==
  ASSUME RouteInv, NEW p, RemoveDead(p) PROVE RouteInv' /\ Lasts(routes', routes)
<1>1. TableOk(routes) /\ MtOk(mt) /\ RestOk
  BY DEF RouteInv
<1>2. Quiet(RemoveRoute(routes, p), routes)
  BY <1>1, KeptQuiet DEF RemoveRoute
<1>3. ProbesOk(probes) /\ answers \subseteq ProbeId
  BY <1>1 DEF RestOk
<1>4. RestOk'
  BY <1>1, <1>3, RestSame DEF RemoveDead
<1> QED BY <1>1, <1>2, <1>4, QuietStep DEF RemoveDead

(* expire_learned_routes.                                                  *)
LEMMA ExpireRoutesStep ==
  ASSUME RouteInv, ExpireRoutes PROVE RouteInv' /\ Lasts(routes', routes)
<1>1. TableOk(routes) /\ RestOk
  BY DEF RouteInv
<1>2. Quiet(ExpireLearned(routes), routes)
  BY <1>1, KeptQuiet DEF ExpireLearned
<1>3. RestOk'
  BY <1>1 DEF ExpireRoutes, RestOk
<1>4. MtOk(mt')
  BY DEF ExpireRoutes, MtOk
<1> QED BY <1>2, <1>3, <1>4, QuietStep DEF ExpireRoutes

(* PathProbeTracker::expire.                                               *)
LEMMA ExpireProbesStep ==
  ASSUME RouteInv, ExpireProbes PROVE RouteInv' /\ Lasts(routes', routes)
<1>1. RxOk(rx, routes) /\ RestOk /\ ProbesOk(probes) /\ answers \subseteq ProbeId
  BY DEF RouteInv, RestOk
<1>2. /\ probes' = [id \in DOMAIN probes \ Late |-> probes[id]]
      /\ mt' = [pc |-> "fail", targets |-> {probes[id].target : id \in Late}]
      /\ UNCHANGED <<routes, peers, answers, silent, rx, faults>>
  BY DEF ExpireProbes
<1>3. DOMAIN probes \ Late \subseteq DOMAIN probes
  OBVIOUS
<1>4. ProbesOk(probes')
  BY <1>1, <1>2, <1>3, FewerProbes
<1>5. \A id \in Late : probes[id].target \in ProbeTargets
  BY <1>1, SMT DEF Late, ProbesOk
<1>6. {probes[id].target : id \in Late} \in SUBSET ProbeTargets
  BY <1>5
<1>7. MtOk(mt')
  BY <1>2, <1>6 DEF MtOk
<1>8. RestOk'
  BY <1>1, <1>2, <1>4, RestSame
<1> QED BY <1>1, <1>2, <1>7, <1>8, NoTableStep

(* record_probe_failure for one of the targets in hand.                    *)
LEMMA FailureStep ==
  ASSUME RouteInv, Failure PROVE RouteInv' /\ Lasts(routes', routes)
<1>1. TableOk(routes) /\ MtOk(mt) /\ RestOk
  BY DEF RouteInv
<1>2. PICK t \in mt.targets :
        routes' = RecordFailure(routes, t) /\ mt' = [mt EXCEPT !.targets = mt.targets \ {t}]
  BY DEF Failure
<1>3. mt.pc = "fail" /\ UNCHANGED <<peers, probes, answers, silent, rx, faults>>
  BY DEF Failure
<1>4. mt \in [pc : {"fail"}, targets : SUBSET ProbeTargets]
  BY <1>1, <1>3, MtShape
<1>5. mt.targets \ {t} \in SUBSET ProbeTargets
  BY <1>4, SMT
<1>6. mt' \in [pc : {"fail"}, targets : SUBSET ProbeTargets]
  BY <1>2, <1>4, <1>5
<1>7. MtOk(mt')
  BY <1>6 DEF MtOk
<1>8. Quiet(routes', routes)
  BY <1>1, <1>2, FailureTouches, TouchQuiet
<1>9. RestOk'
  BY <1>1, <1>3 DEF RestOk
<1> QED BY <1>3, <1>7, <1>8, <1>9, QuietStep

(* The copy of the due routes in probe_due_routes.                         *)
LEMMA CopyStep ==
  ASSUME RouteInv, CopyRoutes PROVE RouteInv' /\ Lasts(routes', routes)
<1> DEFINE keep == {i \in DOMAIN routes : Due(routes[i])}
           due == Kept(routes, keep)
           copy == [i \in DOMAIN due |-> TargetOf(due[i])]
<1>1. TableOk(routes) /\ RestOk /\ RxOk(rx, routes)
  BY DEF RouteInv
<1>2. /\ mt' = [pc |-> "loop", copy |-> copy]
      /\ UNCHANGED <<routes, peers, probes, answers, silent, rx, faults>>
  BY DEF CopyRoutes
<1>3. /\ routes \in Seq(Route) /\ keep \in SUBSET (DOMAIN routes)
      /\ \A i \in DOMAIN routes : TargetOf(routes[i]) \in ProbeTargets
  BY <1>1 DEF TableOk, RouteOk
<1>4. TableOk(due)
  BY <1>1, <1>3, KeptOk
<1>5. due \in Seq(Route) /\ \A i \in DOMAIN due : TargetOf(due[i]) \in ProbeTargets
  BY <1>4 DEF TableOk, RouteOk
<1> HIDE DEF due
<1>6. copy \in Seq(ProbeTargets)
  <2>1. Len(due) \in Nat /\ DOMAIN due = 1 .. Len(due)
    BY <1>5, SMT
  <2>2. copy = [i \in 1 .. Len(due) |-> TargetOf(due[i])]
    BY <2>1
  <2>3. \A i \in 1 .. Len(due) : TargetOf(due[i]) \in ProbeTargets
    BY <1>5, <2>1
  <2>4. copy \in [1 .. Len(due) -> ProbeTargets]
    BY <2>2, <2>3
  <2> HIDE DEF copy
  <2> QED BY <2>1, <2>4, SMT
<1> HIDE DEF copy
<1>7. MtOk(mt')
  BY <1>2, <1>6 DEF MtOk
<1>8. RestOk'
  BY <1>1, <1>2 DEF RestOk
<1> QED BY <1>1, <1>2, <1>7, <1>8, NoTableStep

(* The end of the loop.                                                    *)
LEMMA EndsStep ==
  ASSUME RouteInv, RoundEnds PROVE RouteInv' /\ Lasts(routes', routes)
<1>1. RestOk /\ RxOk(rx, routes)
  BY DEF RouteInv
<1>2. RestOk'
  BY <1>1 DEF RoundEnds, RestOk
<1>3. MtOk(mt')
  BY DEF RoundEnds, MtOk, Idle
<1> QED BY <1>1, <1>2, <1>3, NoTableStep DEF RoundEnds

(* The loop of probe_due_routes goes on with the rest of the copy.         *)
LEMMA LoopGoesOn ==
  ASSUME MtOk(mt), mt.pc = "loop", mt.copy # <<>>
  PROVE  /\ Head(mt.copy) \in ProbeTargets /\ Tail(mt.copy) \in Seq(ProbeTargets)
         /\ MtOk([mt EXCEPT !.copy = Tail(mt.copy)])
<1>1. mt \in [pc : {"loop"}, copy : Seq(ProbeTargets)]
  BY MtShape
<1>2. mt.copy \in Seq(ProbeTargets)
  BY <1>1, SMT
<1>3. Head(mt.copy) \in ProbeTargets /\ Tail(mt.copy) \in Seq(ProbeTargets)
  BY <1>2, SMT
<1>4. [mt EXCEPT !.copy = Tail(mt.copy)] \in [pc : {"loop"}, copy : Seq(ProbeTargets)]
  BY <1>1, <1>3
<1> QED BY <1>3, <1>4 DEF MtOk

(* A route that no probe is sent for.                                      *)
LEMMA SkipStep ==
  ASSUME RouteInv, SkipRoute \/ SendFails PROVE RouteInv' /\ Lasts(routes', routes)
<1>1. RestOk /\ RxOk(rx, routes) /\ MtOk(mt) /\ ProbesOk(probes) /\ answers \subseteq ProbeId
  BY DEF RouteInv, RestOk
<1>2. /\ mt.pc = "loop" /\ mt.copy # <<>> /\ mt' = [mt EXCEPT !.copy = Tail(mt.copy)]
      /\ UNCHANGED <<routes, peers, probes, answers, silent, rx>>
      /\ faults' = faults \/ (faults < MaxFaults /\ faults' = faults + 1)
  BY DEF SkipRoute, SendFails
<1>3. MtOk(mt')
  BY <1>1, <1>2, LoopGoesOn
<1>4. RestOk'
  BY <1>1, <1>2, RestSame
<1> QED BY <1>1, <1>2, <1>3, <1>4, NoTableStep

(* begin and send_path_probe.                                              *)
LEMMA SendStep ==
  ASSUME RouteInv, SendProbe PROVE RouteInv' /\ Lasts(routes', routes)
<1> DEFINE t == Head(mt.copy)
           free == ProbeId \ (DOMAIN probes \cup answers)
           id == Min(free)
<1>1. RestOk /\ RxOk(rx, routes) /\ MtOk(mt) /\ ProbesOk(probes) /\ answers \subseteq ProbeId
  BY DEF RouteInv, RestOk
<1>2. /\ mt.pc = "loop" /\ mt.copy # <<>> /\ free # {}
      /\ probes' = Begin(probes, id, t)
      /\ answers' \subseteq answers \cup {id}
      /\ mt' = [pc |-> "sent", copy |-> Tail(mt.copy), id |-> id, target |-> t]
      /\ UNCHANGED <<routes, peers, silent, rx, faults>>
  BY DEF SendProbe
<1>3. t \in ProbeTargets /\ Tail(mt.copy) \in Seq(ProbeTargets)
  BY <1>1, <1>2, LoopGoesOn
<1>4. free \subseteq Nat /\ free \subseteq ProbeId
  BY RouteProbesAssumption
<1>5. id \in ProbeId
  BY <1>2, <1>4, LeastIs
<1> HIDE DEF t, id, free
<1>6. ProbesOk(Begin(probes, id, t))
  <2> DEFINE new == [target |-> t, left |-> ProbeTimeout]
  <2>1. ProbeTimeout \in 0 .. ProbeTimeout
    BY RouteProbesAssumption, SMT
  <2>2. new \in [target : ProbeTargets, left : 0 .. ProbeTimeout]
    BY <1>3, <2>1
  <2> HIDE DEF new
  <2>3. Begin(probes, id, t) = [i \in DOMAIN probes \cup {id} |-> IF i = id THEN new ELSE probes[i]]
    BY DEF Begin, new
  <2> QED BY <1>1, <1>5, <2>2, <2>3 DEF ProbesOk
<1>7. MtOk(mt')
  BY <1>2, <1>3, <1>5 DEF MtOk
<1>8. answers' \subseteq ProbeId
  BY <1>1, <1>2, <1>5
<1>9. RestOk'
  BY <1>1, <1>2, <1>6, <1>8, RestSame
<1> QED BY <1>1, <1>2, <1>7, <1>9, NoTableStep

(* mark_probe_sent.                                                        *)
LEMMA MarkStep ==
  ASSUME RouteInv, MarkSent PROVE RouteInv' /\ Lasts(routes', routes)
<1>1. RestOk /\ TableOk(routes) /\ MtOk(mt) /\ ProbesOk(probes) /\ answers \subseteq ProbeId
  BY DEF RouteInv, RestOk
<1>2. /\ mt.pc = "sent" /\ mt' = [pc |-> "loop", copy |-> mt.copy]
      /\ routes' = MarkProbeSent(routes, mt.target)
      /\ probes' = Cancel(probes, mt.id) \/ probes' = probes
      /\ UNCHANGED <<peers, answers, silent, rx, faults>>
  BY DEF MarkSent
<1>3. mt \in [pc : {"sent"}, copy : Seq(ProbeTargets), id : ProbeId, target : ProbeTargets]
  BY <1>1, <1>2, MtShape
<1>4. mt.copy \in Seq(ProbeTargets)
  BY <1>3, SMT
<1>5. MtOk(mt')
  BY <1>2, <1>4 DEF MtOk
<1>6. ProbesOk(probes')
  BY <1>1, <1>2, CancelOk
<1>7. RestOk'
  BY <1>1, <1>2, <1>6, RestSame
<1>8. Quiet(routes', routes)
  BY <1>1, <1>2, MarkTouches, TouchQuiet
<1> QED BY <1>2, <1>5, <1>7, <1>8, QuietStep

(* Probes over a next hop fall silent, or are answered again.              *)
LEMMA PathStep ==
  ASSUME RouteInv, NEW p \in NextHops, FallSilent(p) \/ Recover(p) PROVE RouteInv' /\ Lasts(routes', routes)
<1>1. RestOk /\ RxOk(rx, routes) /\ MtOk(mt)
  BY DEF RouteInv
<1>2. /\ UNCHANGED <<routes, peers, probes, rx, mt>>
      /\ answers' \subseteq answers /\ silent' \subseteq silent \cup {p}
      /\ faults' = faults \/ (faults < MaxFaults /\ faults' = faults + 1)
  BY DEF FallSilent, Recover
<1>3. faults' \in 0 .. MaxFaults
  BY <1>1, <1>2, RouteProbesAssumption, SMT DEF RestOk
<1>4. RestOk'
  BY <1>1, <1>2, <1>3 DEF RestOk
<1> QED BY <1>1, <1>2, <1>4, NoTableStep

(* A second passes.                                                        *)
LEMMA RoutesTickStep ==
  ASSUME RouteInv, Tick PROVE RouteInv' /\ Lasts(routes', routes)
<1>1. RestOk /\ TableOk(routes) /\ ProbesOk(probes) /\ answers \subseteq ProbeId
  BY DEF RouteInv, RestOk
<1>2. /\ routes' = AgeRoutes(routes) /\ mt' = [pc |-> "round"]
      /\ probes' = [id \in DOMAIN probes |-> [probes[id] EXCEPT !.left = Down(probes[id].left)]]
      /\ UNCHANGED <<peers, answers, silent, rx>>
      /\ faults' = faults \/ (faults < MaxFaults /\ faults' = faults + 1)
  BY DEF Tick
<1>3. ASSUME NEW id \in DOMAIN probes
      PROVE  [probes[id] EXCEPT !.left = Down(probes[id].left)]
               \in [target : ProbeTargets, left : 0 .. ProbeTimeout]
  <2>1. probes[id] \in [target : ProbeTargets, left : 0 .. ProbeTimeout]
    BY <1>1 DEF ProbesOk
  <2>2. probes[id].left \in 0 .. ProbeTimeout
    BY <2>1, SMT
  <2>3. Down(probes[id].left) \in 0 .. ProbeTimeout
    BY <2>2, RouteProbesAssumption, SMT DEF Down
  <2> QED BY <2>1, <2>3
<1>4. ProbesOk(probes')
  BY <1>1, <1>2, <1>3 DEF ProbesOk
<1>5. MtOk(mt')
  BY <1>2 DEF MtOk
<1>6. RestOk'
  BY <1>1, <1>2, <1>4, RestSame
<1>7. Quiet(routes', routes)
  BY <1>1, <1>2, AgeTouches, TouchQuiet
<1> QED BY <1>2, <1>5, <1>6, <1>7, QuietStep

(* The empty table is sound.                                               *)
LEMMA InitRouteInv == ASSUME Init PROVE RouteInv
<1>1. /\ routes = <<>> /\ peers = NextHops
      /\ probes = <<>> /\ answers = {} /\ silent = {}
      /\ rx = Idle /\ mt = Idle /\ faults = 0
  BY DEF Init
<1>2. routes \in Seq(Route) /\ Len(routes) = 0 /\ DOMAIN routes = {} /\ DOMAIN probes = {}
  BY <1>1, SMT
<1>3. 0 <= MaxRoutes /\ 0 <= MaxCandidates /\ 0 \in 0 .. MaxFaults
  BY RoutingAssumption, RouteProbesAssumption, SMT
<1>4. \A p \in Prefix : Cardinality(Alike(routes, p)) <= MaxCandidates
  <2>1. \A p \in Prefix : Alike(routes, p) = {}
    BY <1>2 DEF Alike
  <2> QED BY <1>3, <2>1, FS_EmptySet
<1>5. TableOk(routes)
  BY <1>2, <1>3, <1>4 DEF TableOk
<1>6. RestOk
  BY <1>1, <1>2, <1>3, RouteProbesAssumption DEF RestOk, ProbesOk
<1>7. MtOk(mt)
  BY <1>1 DEF MtOk, Idle
<1> QED BY <1>1, <1>5, <1>6, <1>7 DEF RouteInv, RxOk

(* Every step keeps the invariant and every suppression.                   *)
LEMMA NextRouteInv == ASSUME RouteInv, [Next]_vars PROVE RouteInv' /\ Lasts(routes', routes)
<1>1. CASE UNCHANGED vars
  <2>1. UNCHANGED <<routes, peers, probes, answers, silent, rx, mt, faults>>
    BY <1>1 DEF vars
  <2>2. RestOk /\ RxOk(rx, routes) /\ MtOk(mt)
    BY DEF RouteInv
  <2>3. RestOk'
    BY <2>1, <2>2 DEF RestOk
  <2> QED BY <2>1, <2>2, <2>3, NoTableStep
<1>2. CASE \E p \in Direct : Install(p)
  BY <1>2, InstallStep
<1>3. CASE ReceiveThread
  BY <1>3, MergeCopyStep, MergeOlderStep, MergeAddStep, AcknowledgeStep, SuccessStep
     DEF ReceiveThread
<1>4. CASE MaintenanceThread
  BY <1>4, ExpireRoutesStep, ExpireProbesStep, FailureStep, CopyStep, EndsStep, SkipStep,
     SendStep, MarkStep DEF MaintenanceThread
<1>5. CASE \E p \in Direct : RemoveDead(p)
  BY <1>5, RemoveStep
<1>6. CASE SendFails
  BY <1>6, SkipStep
<1>7. CASE \E p \in NextHops : FallSilent(p) \/ Recover(p)
  BY <1>7, PathStep
<1>8. CASE Tick
  BY <1>8, RoutesTickStep
<1> QED BY <1>1, <1>2, <1>3, <1>4, <1>5, <1>6, <1>7, <1>8 DEF Next

(* The invariant implies the types.                                        *)
LEMMA RouteInvTypes == ASSUME RouteInv PROVE TypeOK
<1>1. TableOk(routes) /\ RxOk(rx, routes) /\ MtOk(mt) /\ RestOk
  BY DEF RouteInv
<1>2. ASSUME NEW i \in DOMAIN routes
      PROVE  /\ routes[i].prefix \in Prefix /\ routes[i].type \in {"Direct", "Relay"}
             /\ routes[i].due \in 0 .. ProbeInterval /\ routes[i].hold \in 0 .. HoldDown
             /\ routes[i].failed \in BOOLEAN /\ TargetOf(routes[i]) \in ProbeTargets
  <2>1. routes[i] \in Route /\ TargetOf(routes[i]) \in ProbeTargets
    BY <1>1 DEF TableOk, RouteOk
  <2>2. /\ routes[i].prefix \in Prefix /\ routes[i].type \in {"Direct", "Relay"}
        /\ routes[i].due \in 0 .. ProbeInterval /\ routes[i].hold \in 0 .. HoldDown
    BY <2>1, SMT DEF Route
  <2>3. routes[i].failed \in BOOLEAN
    BY <2>1 DEF Route
  <2> QED BY <2>1, <2>2, <2>3
<1>3. \A id \in DOMAIN probes :
        probes[id].target \in ProbeTargets /\ probes[id].left \in 0 .. ProbeTimeout
  BY <1>1, SMT DEF RestOk, ProbesOk
<1>4. rx.pc \in {"idle", "older", "add", "success"}
  <2>1. CASE rx = Idle
    BY <2>1, SMT DEF Idle
  <2>2. CASE rx \in [pc : {"success"}, target : ProbeTargets]
    BY <2>2, SMT
  <2>3. CASE rx \in [pc : {"older", "add"}, route : Route]
    BY <2>3, SMT
  <2> QED BY <1>1, <2>1, <2>2, <2>3 DEF RxOk
<1>5. mt.pc \in {"idle", "round", "expire", "fail", "loop", "sent"}
  BY <1>1, MtShape
<1> QED BY <1>1, <1>2, <1>3, <1>4, <1>5 DEF TypeOK, RestOk, ProbesOk

(* The invariant implies that the table is sound.                          *)
LEMMA RouteInvSound == ASSUME RouteInv PROVE TableSound
<1>1. TableOk(routes)
  BY DEF RouteInv
<1>2. OneSequence
  <2> SUFFICES ASSUME NEW i \in DOMAIN routes, routes[i].type = "Relay",
                      NEW r \in Learned(routes, routes[i])
               PROVE  r.seq = routes[i].seq
    BY DEF OneSequence
  <2>1. PICK j \in DOMAIN routes :
          /\ r = routes[j] /\ routes[j].type = "Relay"
          /\ routes[j].prefix = routes[i].prefix /\ routes[j].destination = routes[i].destination
    BY DEF Learned
  <2> QED BY <1>1, <2>1 DEF TableOk, Kin
<1>3. ASSUME NEW i \in DOMAIN routes
      PROVE  /\ Head(routes[i].path) = routes[i].next_hop
             /\ LastHop(routes[i].path) = routes[i].destination
             /\ LoopFree(routes[i].path) /\ Self \notin Range(routes[i].path)
             /\ \A j \in DOMAIN routes : SameCandidate(routes[i], routes[j]) => i = j
             /\ Cardinality({j \in DOMAIN routes : routes[j].prefix = routes[i].prefix})
                  <= MaxCandidates
  <2>1. RouteOk(routes[i])
    BY <1>1 DEF TableOk
  <2>2. routes[i].prefix \in Prefix
    BY <2>1, SMT DEF RouteOk, Route
  <2> QED BY <1>1, <2>1, <2>2 DEF TableOk, RouteOk, Alike
<1> QED BY <1>1, <1>2, <1>3, RouteInvTypes DEF TableSound, TableOk

(* The route that a target stands for.                                     *)
LEMMA MatchingIs ==
  ASSUME NEW rs \in Seq(Route), NEW t, NEW i \in Matching(rs, t)
  PROVE  i \in DOMAIN rs /\ TargetOf(rs[i]) = t
<1> DEFINE found == {j \in DOMAIN rs : TargetOf(rs[j]) = t}
<1>1. found \subseteq Nat
  BY SMT
<1>2. found # {} /\ i = Min(found)
  BY DEF Matching
<1>3. i \in found
  BY <1>1, <1>2, LeastIs
<1> QED BY <1>3

(* The route of a target is suppressed until its time.                     *)
LEMMA HoldStep ==
  ASSUME RouteInv, [Next]_vars, NEW t \in ProbeTargets, NEW i \in Matching(routes, t),
         routes[i].failed, routes[i].hold > 0, Matching(routes', t) # {}
  PROVE  \E j \in Matching(routes', t) : routes'[j].failed
<1>1. RouteInv' /\ Lasts(routes', routes)
  BY NextRouteInv
<1>2. routes \in Seq(Route) /\ routes' \in Seq(Route)
  BY <1>1 DEF RouteInv, TableOk
<1>3. i \in DOMAIN routes /\ TargetOf(routes[i]) = t
  BY <1>2, MatchingIs
<1>4. PICK j \in Matching(routes', t) : TRUE
  OBVIOUS
<1>5. j \in DOMAIN routes' /\ TargetOf(routes'[j]) = t
  BY <1>2, MatchingIs
<1>6. StillFailed(routes'[j], routes[i])
  BY <1>1, <1>3, <1>5 DEF Lasts
<1> QED BY <1>6 DEF StillFailed

(* However the lock sections of the receive, connect and maintenance       *)
(* threads interleave: every path in the routing table leads from the next *)
(* hop to the destination without a loop and without this node, a candidate*)
(* is listed once, learned candidates of one origin and prefix are of one  *)
(* sequence, and the limits hold.                                          *)
THEOREM TableStaysSound == Init /\ [][Next]_vars => []TableSound
<1>1. RouteInv /\ [Next]_vars => RouteInv'
  BY NextRouteInv
<1> QED BY <1>1, InitRouteInv, RouteInvSound, PTL

(* No refresh by a peer table and no late or repeated answer brings a      *)
(* suppressed candidate back into use before its hold-down is over.        *)
THEOREM HoldDownIsKept == Init /\ [][Next]_vars => HoldDownKept
<1> DEFINE A == \A t \in ProbeTargets :
                  \A i \in Matching(routes, t) :
                    routes[i].failed /\ routes[i].hold > 0 /\ Matching(routes, t)' # {} =>
                      Failed(t)'
<1>1. RouteInv /\ [Next]_vars => RouteInv'
  BY NextRouteInv
<1>2. RouteInv /\ [Next]_vars => A
  <2> SUFFICES ASSUME RouteInv, [Next]_vars, NEW t \in ProbeTargets, NEW i \in Matching(routes, t),
                      routes[i].failed, routes[i].hold > 0, Matching(routes', t) # {}
               PROVE  \E j \in Matching(routes', t) : routes'[j].failed
    BY DEF Failed
  <2> QED BY HoldStep
<1> HIDE DEF A
<1>3. Init /\ [][Next]_vars => [][A]_vars
  BY <1>1, <1>2, InitRouteInv, PTL
<1> QED BY <1>3 DEF HoldDownKept, A
-----------------------------------------------------------------------------
(* find_route.                                                             *)

(* f is the best route so far, after each of the first m turns of the loop *)
(* of find_route.                                                          *)
Passes(f, rs, covers, m) ==
  f = [n \in 0 .. m |-> IF n = 0 THEN {} ELSE Better(f[n - 1], rs[n], covers)]

(* There are such values for every number of turns.                        *)
LEMMA PassExists ==
  ASSUME NEW rs, NEW covers, NEW m \in Nat PROVE \E f : Passes(f, rs, covers, m)
<1> DEFINE Bad == {k \in Nat : ~\E f : Passes(f, rs, covers, k)}
<1> SUFFICES ASSUME Bad # {} PROVE FALSE
  OBVIOUS
<1>1. PICK k \in Bad : \A y \in Bad : k <= y
  BY LeastOf
<1>2. k # 0
  <2> DEFINE f == [n \in 0 .. 0 |-> {}]
  <2>1. \A n \in 0 .. 0 : n = 0
    BY SMT
  <2>2. Passes(f, rs, covers, 0)
    BY <2>1 DEF Passes
  <2> QED BY <2>2
<1>3. k - 1 \in Nat /\ ~(k <= k - 1)
  BY <1>2, SMT
<1>4. PICK f : Passes(f, rs, covers, k - 1)
  BY <1>1, <1>3
<1> DEFINE g == [n \in 0 .. k |-> IF n = k THEN Better(f[k - 1], rs[k], covers) ELSE f[n]]
<1>5. ASSUME NEW n \in 0 .. k
      PROVE  g[n] = IF n = 0 THEN {} ELSE Better(g[n - 1], rs[n], covers)
  <2>1. CASE n = k
    <3>1. k - 1 \in 0 .. k /\ k - 1 # k
      BY <1>3, SMT
    <3>2. g[n] = Better(f[k - 1], rs[k], covers) /\ g[k - 1] = f[k - 1]
      BY <2>1, <3>1
    <3> HIDE DEF g
    <3> QED BY <1>2, <2>1, <3>2
  <2>2. CASE n # k
    <3>1. n \in 0 .. k - 1 /\ (n # 0 => n - 1 \in 0 .. k /\ n - 1 # k)
      BY <1>3, <2>2, SMT
    <3>2. g[n] = f[n] /\ (n # 0 => g[n - 1] = f[n - 1])
      BY <2>2, <3>1
    <3>3. f[n] = IF n = 0 THEN {} ELSE Better(f[n - 1], rs[n], covers)
      BY <1>4, <3>1 DEF Passes
    <3> HIDE DEF g
    <3> QED BY <3>2, <3>3
  <2> QED BY <2>1, <2>2
<1>6. g = [n \in 0 .. k |-> g[n]]
  OBVIOUS
<1> HIDE DEF g
<1>7. Passes(g, rs, covers, k)
  BY <1>5, <1>6 DEF Passes
<1> QED BY <1>7

(* find_route is the last of them.                                         *)
LEMMA FindIs ==
  ASSUME NEW rs, Len(rs) \in Nat, NEW covers
  PROVE  \E f : /\ Passes(f, rs, covers, Len(rs))
                /\ FindRoute(rs, covers) = {r \in f[Len(rs)] : Forwardable(r)}
<1> DEFINE b == CHOOSE f : Passes(f, rs, covers, Len(rs))
<1>1. Passes(b, rs, covers, Len(rs))
  BY PassExists
<1>2. FindRoute(rs, covers) = {r \in b[Len(rs)] : Forwardable(r)}
  BY DEF FindRoute, Passes
<1> QED BY <1>1, <1>2

(* The types of what the loop compares.                                    *)
LEMMA RouteSizes ==
  ASSUME NEW x, RouteOk(x)
  PROVE  Length[x.prefix] \in Nat /\ Len(x.path) \in Nat /\ x.type \in {"Direct", "Relay"}
<1>1. x.prefix \in Prefix /\ x.path \in Seq(Node) /\ x.type \in {"Direct", "Relay"}
  BY SMT DEF RouteOk, Route
<1>2. Length[x.prefix] \in Nat
  BY <1>1, RoutingAssumption
<1>3. Len(x.path) \in Nat
  BY <1>1, SMT
<1> QED BY <1>1, <1>2, <1>3

(* The loop prefers no route to a better one.                              *)
LEMMA BeatsOrder ==
  ASSUME NEW r, RouteOk(r), NEW s, RouteOk(s), NEW t, RouteOk(t)
  PROVE  /\ ~Beats(r, r)
         /\ ~Beats(r, s) /\ Beats(t, s) => ~Beats(r, t)
<1>1. /\ Length[r.prefix] \in Nat /\ Len(r.path) \in Nat /\ r.type \in {"Direct", "Relay"}
      /\ Length[s.prefix] \in Nat /\ Len(s.path) \in Nat /\ s.type \in {"Direct", "Relay"}
      /\ Length[t.prefix] \in Nat /\ Len(t.path) \in Nat /\ t.type \in {"Direct", "Relay"}
  BY RouteSizes
<1> QED BY <1>1, SMT DEF Beats

(* The route at position i may be returned.                                *)
Returnable(rs, covers, i) == ~rs[i].failed /\ rs[i].prefix \in covers

(* What the loop has found after m turns: nothing when there was nothing,  *)
(* or one of the candidates, which none of the others beats.               *)
BestOf(best, rs, covers, m) ==
  \/ /\ best = {} /\ \A i \in 1 .. m : ~Returnable(rs, covers, i)
  \/ \E k \in 1 .. m :
       /\ best = {rs[k]} /\ Returnable(rs, covers, k)
       /\ \A i \in 1 .. m : Returnable(rs, covers, i) => ~Beats(rs[i], rs[k])

(* One more turn of the loop.                                              *)
LEMMA BetterIsBest ==
  ASSUME NEW rs, TableOk(rs), NEW covers, NEW m \in Nat, m + 1 \in 1 .. Len(rs), NEW best,
         BestOf(best, rs, covers, m)
  PROVE  BestOf(Better(best, rs[m + 1], covers), rs, covers, m + 1)
<1> DEFINE n == m + 1
           new == Better(best, rs[n], covers)
<1>1. /\ n \in 1 .. n /\ \A i \in 1 .. n : i = n \/ i \in 1 .. m
      /\ \A i \in 1 .. m : i \in 1 .. n
  BY SMT
<1>2. \A i \in 1 .. n : RouteOk(rs[i])
  <2>1. DOMAIN rs = 1 .. Len(rs) /\ Len(rs) \in Nat
    BY SMT DEF TableOk
  <2>2. \A i \in 1 .. n : i \in 1 .. Len(rs)
    BY <2>1, SMT
  <2> QED BY <2>1, <2>2 DEF TableOk
<1> HIDE DEF n
<1>3. CASE ~Returnable(rs, covers, n)
  <2>1. new = best
    BY <1>3 DEF Better, Returnable
  <2> QED BY <1>1, <1>3, <2>1 DEF BestOf, n
<1>4. CASE Returnable(rs, covers, n)
  <2>0. new = IF best = {} \/ (\E b \in best : Beats(rs[n], b)) THEN {rs[n]} ELSE best
    BY <1>4 DEF Better, Returnable
  <2> HIDE DEF new
  <2>1. CASE best = {} /\ \A i \in 1 .. m : ~Returnable(rs, covers, i)
    <3>1. new = {rs[n]}
      BY <2>0, <2>1
    <3>2. ~Beats(rs[n], rs[n])
      BY <1>1, <1>2, BeatsOrder
    <3>3. \A i \in 1 .. n : Returnable(rs, covers, i) => ~Beats(rs[i], rs[n])
      BY <1>1, <2>1, <3>2
    <3>4. BestOf(new, rs, covers, n)
      BY <1>1, <1>4, <3>1, <3>3 DEF BestOf
    <3> QED BY <3>4 DEF new, n
  <2>2. ASSUME NEW k \in 1 .. m, best = {rs[k]}, Returnable(rs, covers, k),
               \A i \in 1 .. m : Returnable(rs, covers, i) => ~Beats(rs[i], rs[k])
        PROVE  BestOf(new, rs, covers, n)
    <3>0. RouteOk(rs[k]) /\ RouteOk(rs[n])
      BY <1>1, <1>2
    <3>1. CASE Beats(rs[n], rs[k])
      <4>1. new = {rs[n]}
        BY <2>0, <2>2, <3>1
      <4>2. \A i \in 1 .. n : Returnable(rs, covers, i) => ~Beats(rs[i], rs[n])
        BY <1>1, <1>2, <2>2, <3>0, <3>1, BeatsOrder
      <4> QED BY <1>1, <1>4, <4>1, <4>2 DEF BestOf
    <3>2. CASE ~Beats(rs[n], rs[k])
      <4>1. new = {rs[k]}
        BY <2>0, <2>2, <3>2
      <4>2. \A i \in 1 .. n : Returnable(rs, covers, i) => ~Beats(rs[i], rs[k])
        BY <1>1, <2>2, <3>2
      <4> QED BY <1>1, <2>2, <4>1, <4>2 DEF BestOf
    <3> QED BY <3>1, <3>2
  <2> QED BY <2>1, <2>2 DEF BestOf, new, n
<1> QED BY <1>3, <1>4

(* After the last turn it is the best of the table.                        *)
LEMMA PassIsBest ==
  ASSUME NEW rs, TableOk(rs), NEW covers, NEW f, Passes(f, rs, covers, Len(rs))
  PROVE  BestOf(f[Len(rs)], rs, covers, Len(rs))
<1> DEFINE Bad == {k \in 0 .. Len(rs) : ~BestOf(f[k], rs, covers, k)}
<1>0. Len(rs) \in Nat
  BY SMT DEF TableOk
<1>1. Bad \subseteq Nat /\ Len(rs) \in 0 .. Len(rs)
  BY <1>0, SMT
<1> SUFFICES ASSUME Bad # {} PROVE FALSE
  BY <1>1
<1>2. PICK k \in Bad : \A y \in Bad : k <= y
  BY <1>1, LeastOf
<1>3. k # 0
  <2>1. f[0] = {} /\ \A i \in 1 .. 0 : FALSE
    <3>1. 0 \in 0 .. Len(rs) /\ \A i \in 1 .. 0 : FALSE
      BY <1>0, SMT
    <3> QED BY <3>1 DEF Passes
  <2> QED BY <2>1 DEF BestOf
<1>4. k \in 0 .. Len(rs) /\ ~BestOf(f[k], rs, covers, k)
  OBVIOUS
<1> DEFINE m == k - 1
<1>5. /\ m \in Nat /\ m \in 0 .. Len(rs) /\ ~(k <= m) /\ m + 1 = k /\ k \in 1 .. Len(rs)
  BY <1>0, <1>3, <1>4, SMT
<1>6. BestOf(f[m], rs, covers, m)
  BY <1>2, <1>5
<1>7. f[k] = Better(f[m], rs[k], covers)
  BY <1>3, <1>4 DEF Passes
<1> HIDE DEF m
<1>8. BestOf(Better(f[m], rs[m + 1], covers), rs, covers, m + 1)
  BY <1>5, <1>6, BetterIsBest
<1> QED BY <1>4, <1>5, <1>7, <1>8

(* The order of the candidates is that of their prefixes, kinds and paths. *)
LEMMA RankIs ==
  ASSUME NEW r, RouteOk(r), NEW b, RouteOk(b), ~Beats(r, b)
  PROVE  LET Rank(x) == <<Length[x.prefix], IF x.type = "Direct" THEN 1 ELSE 0,
                          IF x.type = "Direct" THEN 0 ELSE 0 - Len(x.path)>>
             NotAbove(x, y) == \/ x[1] < y[1]
                               \/ x[1] = y[1] /\ (x[2] < y[2] \/ (x[2] = y[2] /\ x[3] <= y[3]))
         IN  NotAbove(Rank(r), Rank(b))
<1>1. /\ Length[r.prefix] \in Nat /\ Len(r.path) \in Nat /\ r.type \in {"Direct", "Relay"}
      /\ Length[b.prefix] \in Nat /\ Len(b.path) \in Nat /\ b.type \in {"Direct", "Relay"}
  BY RouteSizes
<1> QED BY <1>1, SMT DEF Beats

(* The invariant implies that find_route is right.                         *)
LEMMA RouteInvBest == ASSUME RouteInv PROVE BestRoute
<1> DEFINE Rank(x) == <<Length[x.prefix], IF x.type = "Direct" THEN 1 ELSE 0,
                        IF x.type = "Direct" THEN 0 ELSE 0 - Len(x.path)>>
           NotAbove(x, y) == \/ x[1] < y[1]
                             \/ x[1] = y[1] /\ (x[2] < y[2] \/ (x[2] = y[2] /\ x[3] <= y[3]))
           Below(r, b) == NotAbove(Rank(r), Rank(b))
<1>1. ASSUME NEW r, RouteOk(r), NEW b, RouteOk(b), ~Beats(r, b) PROVE Below(r, b)
  BY <1>1, RankIs
<1> SUFFICES ASSUME NEW covers \in SUBSET Prefix
             PROVE  LET usable == {r \in Range(routes) : ~r.failed /\ r.prefix \in covers}
                        found == FindRoute(routes, covers)
                    IN  /\ found \subseteq usable
                        /\ found = {} => usable = {}
                        /\ \A b \in found, r \in usable : Below(r, b)
  BY DEF BestRoute
<1> HIDE DEF Below
<1> DEFINE usable == {r \in Range(routes) : ~r.failed /\ r.prefix \in covers}
           found == FindRoute(routes, covers)
<1>2. TableOk(routes)
  BY DEF RouteInv
<1>3. Len(routes) \in Nat /\ DOMAIN routes = 1 .. Len(routes)
  BY <1>2, SMT DEF TableOk
<1>4. PICK f : /\ Passes(f, routes, covers, Len(routes))
               /\ found = {r \in f[Len(routes)] : Forwardable(r)}
  BY <1>3, FindIs
<1>5. BestOf(f[Len(routes)], routes, covers, Len(routes))
  BY <1>2, <1>4, PassIsBest
<1>6. \A r \in usable : \E i \in 1 .. Len(routes) : r = routes[i] /\ Returnable(routes, covers, i)
  BY <1>3 DEF Range, Returnable
<1>7. \A i \in 1 .. Len(routes) : Returnable(routes, covers, i) => routes[i] \in usable
  BY <1>3 DEF Range, Returnable
<1>8. \A i \in 1 .. Len(routes) : RouteOk(routes[i])
  BY <1>2, <1>3 DEF TableOk
<1>9. \A i \in 1 .. Len(routes) : Forwardable(routes[i])
  BY <1>8 DEF RouteOk, Wellformed, Forwardable
<1> HIDE DEF usable, found
<1>10. CASE /\ f[Len(routes)] = {} /\ \A i \in 1 .. Len(routes) : ~Returnable(routes, covers, i)
  <2>1. found = {} /\ usable = {}
    BY <1>4, <1>6, <1>10
  <2> QED BY <2>1 DEF found, usable
<1>11. ASSUME NEW k \in 1 .. Len(routes), f[Len(routes)] = {routes[k]},
              Returnable(routes, covers, k),
              \A i \in 1 .. Len(routes) : Returnable(routes, covers, i) => ~Beats(routes[i], routes[k])
       PROVE  /\ found \subseteq usable
              /\ found = {} => usable = {}
              /\ \A b \in found, r \in usable : Below(r, b)
  <2>1. found = {routes[k]}
    BY <1>4, <1>9, <1>11
  <2>2. routes[k] \in usable
    BY <1>7, <1>11
  <2>3. \A r \in usable : Below(r, routes[k])
    <3> SUFFICES ASSUME NEW r \in usable PROVE Below(r, routes[k])
      OBVIOUS
    <3>1. PICK i \in 1 .. Len(routes) : r = routes[i] /\ Returnable(routes, covers, i)
      BY <1>6
    <3>2. RouteOk(r) /\ RouteOk(routes[k]) /\ ~Beats(r, routes[k])
      BY <1>8, <1>11, <3>1
    <3> QED BY <1>1, <3>2
  <2> QED BY <2>1, <2>2, <2>3
<1> QED BY <1>5, <1>10, <1>11 DEF BestOf, found, usable

(* In every state find_route returns a best candidate whatever the order of*)
(* the table, and nothing only if there is nothing: the check of the path  *)
(* after the loop never refuses what the loop has found.                   *)
THEOREM FindRouteIsBest == Init /\ [][Next]_vars => []BestRoute
<1>1. RouteInv /\ [Next]_vars => RouteInv'
  BY NextRouteInv
<1> QED BY <1>1, InitRouteInv, RouteInvBest, PTL
=============================================================================
