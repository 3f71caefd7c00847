# A TLA+ model of Aegis

Aegis is an encrypted overlay mesh: a Windows process that creates a virtual
adapter, keeps an authenticated session with each of its neighbours and carries
IP packets, chat and files over UDP. This directory holds TLA+ modules that
model the parts of it that are hard to test (threads, lost datagrams, timers),
TLC configurations that check them on small instances, and TLAPS proofs of the
main results for every value of the constants. Paths below are relative to the
repository; `PROJECT.json` maps every definition to the lines it models.

## The system

One `Tunnel` per process owns everything. Its threads are

| thread | code | what it changes |
|:--|:--|:--|
| connect, one per configured peer | `connect_loop`, `handshake_peer` | sessions, peer record, configured routes |
| maintenance, one round per second | `maintenance_loop` | dead peers, rekeys, purges, transfer expiry, probes |
| receive, one | `rx_callback` and the `handle_*` functions | everything, one datagram at a time |
| tx, gossip | `tx_loop`, `gossip_loop` | sequence numbers, gossip revisions |
| send, one | `Transport::send_loop` | the send queue |
| caller | `send_file`, `broadcast_chat`, `stop` | outgoing transfers, shutdown |

Each table has a mutex of its own (`SessionManager`, `PeerManager`,
`RoutingEngine`, the trackers, the two maps of file transfers), and an operation
that concerns several of them takes the locks one after the other. Most of what
can go wrong lies between two of these critical sections.

### Inventory

| part | source | module | state |
|:--|:--|:--|:--|
| session manager, replay window | `src/session/session.cpp` | `ReplayWindow`, `ReplayChannel`, `SessionTable`, `SessionManager` | modelled, proved |
| handshake driver, frames, rekey | `src/tunnel/tunnel.cpp` | `Handshake` | modelled, agreement proved |
| connect and maintenance loops, peer record | `src/tunnel/tunnel.cpp`, `src/peer/peer.cpp` | `PeerLifecycle` | modelled, proved |
| file transfer | `src/file/transfer.cpp`, `src/tunnel/tunnel.cpp` | `FileTransfer`, `IncomingFiles` | modelled, safety proved |
| send queue, transport | `send_queue.hpp`, `src/transport/transport.cpp` | `SendQueue`, `Transport`, `DatagramQueue` | modelled, safety and refinement proved |
| shutdown, teardown, REPL commands that start and stop | `src/tunnel/tunnel.cpp`, `src/cli/` | `Shutdown` | modelled, safety proved |
| routing, path probes | `src/routing/` | `Routing`, `RouteProbes`, `ProbePair` | modelled, safety proved |
| peer-table merge, gossip | `src/peer/` | `PeerTable`, `Gossip`, `Mesh` | modelled |
| cookies, rate limiter | `src/transport/handshake_*.cpp` | `Admission` | modelled, proved |
| relay quotas, onion relaying, MTU policy | `src/packet/relay*.cpp`, `mtu.hpp` | `Relay`, `Mtu` | modelled, proved |
| endpoint candidates, punching, LAN presence | `src/protocol/endpoint_*.cpp` | `EndpointPunch` | partly, safety proved |
| revocation store and its flooding | `src/identity/revocation.cpp` | `Revocation` | modelled |
| credential file | `src/cli/identity_store.cpp` | `IdentityStore` | modelled, proved |
| peer manager queries, packet path without relays | | | partly |
| Noise, primitives, codecs, STUN, invites, config, adapter, chat, the rest of the CLI | | none | not modelled, see below |

## Modules

### Session layer

`ReplayWindow` is the window of one direction of a session: `recv_last` and the
bit set, `CheckReplay` and `UpdateReplay`. The bit set is the set of distances
from `recv_last` whose bit is on; a shift drops what leaves the set.

`ReplayChannel` puts a sender (`Encrypt`, a counter that the header truncates to
`WIRE_MOD`, 2^32 in the code) and a receiver (`Decrypt`, `Drop`) around it. The
network is any order and any repetition of what was sent, so nothing needs to be
kept in flight: a receive step picks any number below `send_seq`.

`SessionTable` is the state of a `SessionManager` as a record (the five maps of
`session.hpp`) and every critical section of `session.cpp` as an operator on it:
`CreateHandshakeInit`, the three parts of `handle_handshake_init` (`CheckInit`,
`AdmitInit`, `InstallInit`), `HandleResp`, `CreateSession` with the retirement of
the session it replaces, `RemoveSession`, the purges. The keys of a session are
one value, the transcript they come from.

`SessionManager` is the state machine of one node: these operators as actions, a
clock, and a receive thread that may be between two of the three parts while
other threads run. `keys`, `admitted` and `delivered` are history variables.

`Handshake` composes two nodes: two tables, the threads in `handshake_peer` with
their retransmissions and waits, the receive threads inside
`handle_handshake_init_frame`, the cookie exchange, and an ordered channel each
way whose datagrams may be lost, repeated or overtaken. Deadlines are steps of
their own.

### Peer lifecycle

`PeerLifecycle` looks at one configured peer from one node. The record in
`PeerManager`, the session and the configured route are three variables, and the
connect, maintenance and receive threads are three program counters: each step is
one lock section. `handshake_peer` alone takes five: `mark_connecting`, the entry in
`pending_handshakes_`, `create_handshake_init`, the wait and `mark_seen`; connect and
maintenance thread may both be in it, and share the entry. `late` remembers that the
session came from a RESP that was taken when the record said dead. Which of two colliding
handshakes wins is left to `Handshake`, and a presence is taken to be the peer's own.
Time is counted in units longer than a maintenance round and the ten seconds of a
handshake attempt; it passes only when every thread is in a wait.

### File transfer

`FileTransfer` is one call of `send_file` with its recipients. The sender's part
is the `FileSendWindow` of each recipient and the loop that polls them in order;
the recipient's part is the entry in `incoming_transfers_`, the `FileChunkTracker`,
the `.part` file and the final name. Acknowledgements carry the ranges of
`acknowledged_ranges`, at most `MaxRanges` of them, with those around the chunk
just received. Writes, the commit, the reading of the source file and the
admission of a transfer may fail; send_file may be stopped.

Abstractions to know of:

- The received and acknowledged counts are the sizes of the sets, which the code
  keeps in step with them.
- A file is complete when its chunks are; digests and sizes are the matter of
  `IncomingFiles`, here a failed check is a failed commit.
- A write may be lost without notice, because the result of closing the stream is
  not looked at; the commit then fails.
- The set of frames under way has no order. When `Patient` is false an item may be
  sent again while its frame is still there, and a frame that was handled may have
  left a copy.
- `Expire` needs a transfer that the sender no longer serves and no frame on its
  way: the idle limit is five minutes, retransmissions are at most two seconds
  apart, and a datagram is not delayed for minutes. Under the same assumption
  erasing the entry and deleting the `.part` file is one step.
- Other transfers are absent: the limits on their number and size appear as a
  refusal that may happen to any new transfer. `IncomingFiles` has them.

`IncomingFiles` is the download side of one node with several senders: admission
against the four limits, the reservation of each transfer, file names that collide,
the bytes of a chunk at their offset, the digest before the final rename, and the
maintenance thread that erases an idle entry under the lock and deletes its `.part`
file after it.

### Transport and shutdown

`SendQueue` is the bounded queue as a record with its operations, `Transport` the
threads around it: callers of `send`, the send thread with its condition variable,
the receive thread, and the owner in `bind`, `exchange`, `start_receive`,
`stop_receive` and `close`. A step is one lock section, one wait or one socket call.
`DatagramQueue` is the abstract specification: one FIFO for each peer and class,
control first, forgotten on close. `Transport` implements it with
`lane <- queue.lane, open <- send_running`; counters, rotations, limits and threads
are hidden.

`Shutdown` is a level above: the REPL thread, `start` spawning five kinds of threads
one after the other, `stop` step by step on the REPL thread, in the destructor and on
the detached thread of a teardown frame. `hs_cv_` is notified without its mutex, so a
waiter may miss it (`Evaluate`, `Block`). A `Tunnel` has no lock for its threads. Where
two threads use one `std::thread`, `connect_threads_`, the socket or the adapter at the
same time (`Racing`), where `connect_threads_.clear()` meets a thread that `start` has
added since, and where the object is destroyed under a `stop`, the behaviour is
undefined: either it goes well in some order, or the process is lost (`wrecked`) and the
behaviour of the model ends.

### Routes and gossip

`Routing` has the routing table as a sequence and every operation of `RoutingEngine`
as an operator; times are what is left of them. `PeerTable` adds `merge_peer_table`,
`Gossip` the delta tracker and the cutting into batches. Three state machines use
them. `RouteProbes` looks inside one node: the receive thread and the maintenance
thread take turns at the table one lock section at a time, decide on copies of it,
and probes go unanswered while their first hop is silent, for whatever reason. `ProbePair` has the two ends of one path, each of which probes it and answers the
other's probes. `Mesh` composes four nodes: what
one advertises another merges and repeats, datagrams are lost, links fail and come
back, leases run out. In `Mesh` a merge is one step, since the effect of its
sections is the subject of `RouteProbes`, and there are no probes: suppression is left to
those two modules. One node's prefix is followed at a time (`origin`). A peer that no
longer answers is forgotten by the node with the higher NodeId only (`Forget`), as
`PeerLifecycle` finds. Leases are whole gossip intervals; that an advertisement carries
them in whole seconds, rounded down, only makes them shorter.

### Services

`Admission` is the rate limiter and the two cookie secrets in front of the handshake;
`Relay` sends onions hop by hop through nodes with token buckets, with the packet
sizes of `Mtu`; `EndpointPunch` is the endpoint in use of one peer that moves, with
candidates, challenges, LAN presences that may name any endpoint, and attempts of
`handshake_peer`, which mark as seen the endpoint they copied at their start; `Revocation` floods records through bounded
stores. `IdentityStore` is the credential file with processes that start together
and are killed between any two system calls.

`MCServices`, `MCHost` and `MCNode` put parts that share no state into one instance:
a behaviour chooses a part and moves only that, so TLC explores the sum of the state
spaces and not their product. A fair action of a part that does not move is disabled.

## Runs

`tlc -config X.cfg M`, with M the module given in `PROJECT.json`. States are the
distinct states TLC found.

| run | states | what it shows |
|:--|--:|:--|
| `session_tables` | 400,244 | With every interleaving of the threads: lookups by peer and by id agree, an id has one meaning, removal leaves no key behind, the caps hold, a session of the lower NodeId's initiation is never replaced by one of the higher's, an INIT is taken once per lifetime of the replay cache, a delivered frame is refused ever after under the active and a retired key. |
| `session_rekey` | 128,021 | A replaced session stays usable for its grace period; a full table gives up only the entry nearest its expiry. |
| `handshake` | 229,837 | Simultaneous initiations and rekeys on a network without faults end with both nodes on one session; with two faults of any kind, two live sessions with one id have the same keys; liveness: after a fault the two nodes always come back to one common session. |
| `peer_lifecycle` | 327,252 | A peer declared dead has no session once the threads have finished what they were at, unless from a late RESP; the higher NodeId drops a silent peer when the timeout has passed, unless it is on record as dead; liveness: a configured peer that is there has its session and route back, whatever the node's own maintenance does to its attempts. |
| `file_transfer` | 36,263 | Two recipients: success means that both published, as many faults as retries do not fail a transfer; liveness: `send_file` returns whatever is lost, and no `.part` file stays behind. |
| `file_window` | 481,884 | Sender, tracker with its cached prefix, and `.part` file stay consistent when chunks overtake each other and frames are repeated. |
| `host` | 81,186 | Transport: the queue's books are exact, the socket is open when it is used, peers take turns, `DatagramQueue` is implemented, control datagrams are sent in the end, `close` returns. Credential file: never half written or lost, and what a sole start returned stays. Downloads: what is published is what was offered, reservations keep the limits, a silent sender's transfer is released. |
| `node` | 108,373 | Routes: one sequence per origin and prefix, paths that can be walked, lookups that return a best candidate, hold-downs that last, paths that do not answer suppressed and those that do restored in the end. Threads: `stop` closes nothing in use, leaves nothing behind and returns, as long as the process is not lost to undefined behaviour, which takes a teardown. |
| `mesh` | 112,622 | Routes to a lost node run out on time however the others repeat each other, paths follow links, and in the end every node has routes to exactly the nodes it is connected with, apart from the direct route that a lower NodeId never gives up. |
| `services` | 213,176 | Replay window: exact, nothing twice, nothing fresh refused. Admission: the rate is bounded, cookies live as long as two rotations at most and Noise work is done only for a proved address. Relay: quotas are exact, packets fit the underlay, frames follow their path. Endpoint: only endpoints from which the peer has sent are nominated, and in time; what presences and handshakes put in use instead gives way to the endpoint of the peer's frames. Revocation: the highest epoch of each record reaches everyone. |
| `peer_silent_lower` | violation | See Findings. |
| `probe_pair` | violation | See Findings. |

An invariant such as `TablesConsistent`, `BooksAgree`, `IdentityKept`,
`DownloadsSound`, `CleanStop`, `LearnedSound`, `AdmissionSound` or `RelaySound` is the
conjunction of several named facts about one component, each with a comment of its
own; the type invariant of the module is one of them, except for the services, whose
types are checked together. Every property has a mutant in `PROJECT.json`: a
plausible bug in one definition, written beside it as "Bug variant of", under which
TLC finds the property violated. For a conjunction that shows that one of the
conjuncts can fail, not that each can.

### Bounds

- Session tables: a node with one peer below and one above it, two ids, two
  transcripts, tables of capacity one (every capacity test is met full and empty),
  one frame each way in a session (the width of the window is the subject of
  `ReplayChannel`), clock up to 2 with deadlines of 1 and 2. The rekey run has four
  ids and two retired slots, so that an eviction has a choice. Transcripts are a
  symmetry set: no definition tells one from another.
- Handshake: two nodes, as in the code's pairwise protocol; three ids for a
  session, its successor and a competing attempt; two transmissions of an INIT in
  place of ten (the first, and one repetition). The setting with two faults has one
  id and so concentrates on repetitions of one INIT, the only way to use an id
  twice; the healing one has one fault after which nothing more goes wrong, because
  healing is promised for a network that works again. The settings are initial states
  of one run.
- Lifecycle: dead timeout 3 and rekey interval 2 keep the order 120 s < 180 s of
  the code; the ages saturate where no comparison tells them apart, so the state
  space is finite without a bound on time.
- Files: `file_window` has three chunks and a window of two, which make holes, a
  full window and a refill possible, and one range in place of 32, so that an
  acknowledgement cannot report everything. `file_transfer` has two recipients, two
  chunks, a window of one and two ranges. The fault counter saturates one above the retry limit,
  so losses are unlimited.
- Transport: two peers, two sizes, room for one control and two data datagrams of a
  peer and fewer than that of all, so that each of the four limits is met; one
  caller between unlock and notify.
- Credential file: two processes at a time, any number one after the other; two
  names for temporary files. Keys are numbers of which enough are free at any time.
- Downloads: four offers by two senders, with a name in common, an empty file, a
  file that ends with its chunk and one that does not, one chunk size that is not
  this node's, and totals that do not fit together.
- Routes: two neighbours, one configured node that both also advertise, two prefixes
  of different length, a table one route too small, one fault (a first hop that falls silent, a
  delayed answer, a removal or a failed send).
- Shutdown: no bound.
- Probe pair: one outage, an interval and a hold-down of three seconds and a timeout of
  one (30, 30 and 5 in the code).
- Mesh: a triangle with a tail, one origin in each behaviour (what is said of one node
  does not affect another while tables have room), one cut and one loss. With the tail as
  origin a link to it or an inner one fails, with node 4 a link whose end is the lower
  NodeId, which does not notice. The lease is five gossip
  intervals and every second announcement full; in the code the lease is 90 s and a
  full table comes at most every 36 s with the longest jitter, a ratio of the same 2.5.
  `Converges` needs a lease of more than two full periods: a shorter one would lose
  routes to a single lost datagram.
- Services: replay window of width 3 and numbers modulo 7, so that they wrap; limits
  of one to three; five relay nodes with paths of up to three hops; a peer with two
  addresses that moves once, and one datagram on its way at a time beside those that
  arrive at once; three nodes in a line with two records of one nonce.

`CHECK_DEADLOCK FALSE` is set for the handshake (with its ids and faults used up,
a behaviour may have nothing left to do), for file transfers (a transfer ends), for
`node` (after `/quit` nothing happens) and for `services` (the wire number and the
records are used up).

### Fairness

- `Handshake`: weak fairness of each node's driving thread and receive thread and
  of its timers, since threads run and deadlines pass. Choosing a new id is
  strongly fair: the code draws one of 2^32 ids and never waits for one to become
  free, while the model has three. Faults and data frames are not fair.
- `PeerLifecycle`: weak fairness of the three threads and of time. Of what arrives only
  a RESP during an attempt of the connect thread is fair, strongly: it takes a round
  trip, and the maintenance thread, which could drop the initiator before, comes by once
  a second. `Rejoined` assumes that from some moment on the peer is there and neither
  the network nor a resource lets an attempt down whose initiator is kept (`LetDown`).
  Attempts that fail because this node's maintenance removed their initiator are not
  excluded.
- `FileTransfer`: weak fairness of the polling loop (without the user's stop), of
  the handlers for frames that arrived, and of expiry. Loss is not fair and has no
  limit.
- `Transport`: weak fairness of the two threads, of a caller's notify and of the
  owner once it is in `stop_receive` or `close`. Nobody has to send or to close.
- `IncomingFiles`: the maintenance thread runs and time passes.
- `Shutdown`: weak fairness of each thread, of `start` and of `stop`. The user is not
  fair.
- `ProbePair`: weak fairness of both nodes, of time and of the end of an outage.
- `RouteProbes`: weak fairness of both threads, strong fairness of time and of the
  arrival of answers, which other steps keep interrupting: an answer over a path
  that works arrives.
- `Mesh`: every round of announcements comes to its end (`[]<>Quiet`), time passes
  (weakly fair), a link that works is established again, and the higher NodeId notices
  one that does not (strongly fair, because a round in progress interrupts them). The
  lower NodeId need not notice. Cuts and losses are not fair and bounded.
- `EndpointPunch`: an attempt ends, and between two attempts frames of the peer keep
  arriving (strongly fair: an attempt takes seconds, the next is due after minutes, and
  gossip comes in between). `Revocation`:
  frames arrive and announcements are made; losses are bounded.

`Patient` in `Handshake` and `FileTransfer` says that waits are longer than a
round trip. It is set where the property needs it (`Converged`, `Heals`,
`RetriesSuffice`: with deadlines that always fire too early every retry is wasted)
and unset where it does not (`KeysAgree`, `file_window`).

## Proofs

The proofs hold for every value of the constants that satisfies the named
assumptions (`ReplayBitsAssumption`, `ChannelAssumption`, `TableAssumption`,
`ManagerAssumption`, `HandshakeAssumption`, `FileAssumption`, `LifecycleAssumption`,
`QueueAssumption`, `CallersAssumption`, `IdentityAssumption`, `RelayAssumption`,
`PunchAssumption`, `AdmissionAssumption`, `RoutingAssumption`, `PeerTableAssumption`,
`RouteProbesAssumption`: the numbers are naturals, positive where the code needs it,
ids and NodeIds are numbers, sets of processes finite, a relay path has at least two
hops, a bucket is full after `IdleTtl`, this node is none of its configured peers, and
the peers known from the start fit the peer table. Of an advertisement only its types
are assumed: its path may have loops, lead through this node or end elsewhere).

| module | about | theorem | statement |
|:--|:--|:--|:--|
| `SessionManagerProofs` | `SessionManager` | `TablesStayConsistent` | `[]TablesConsistent` |
| | | `NoFrameAcceptedTwice` | `[]DeliveredRefused` |
| | | `LowerInitiationStays` | `LowerInitiationKept`, an action property |
| | | `OldKeyStays` | `OldKeyKept`, an action property |
| | | `InitTakenOnce` | `InitOncePerTtl`, an action property |
| | `Admission` | `AdmissionIsSound` | `[]AdmissionSound` |
| `HandshakeProofs` | `Handshake` | `KeysAlwaysAgree` | `[]KeysAgree` |
| `TransferProofs` | `FileTransfer` | `Delivery` | `[]SuccessMeansSaved` |
| | | `BooksStayConsistent` | `[]BooksAgree` |
| | | `RetriesAreEnough` | `[]RetriesSuffice`, if `Patient` and `MaxRanges > 1` |
| `HostProofs` | `Transport` | `QueueBooksExact` | `[]QueueExact` |
| | | `PopAlwaysFinds` | `[](QueueSize(queue) > 0 => Pops(queue))` |
| | | `SocketOpenWhenUsed` | `[]SocketUse` |
| | | `PeersTakeTurns` | `RoundRobin`, an action property |
| | | `TransportImplementsQueue` | `Implements`, that is `DatagramQueue`'s specification |
| | `IncomingFiles` | `DownloadsStaySound` | `[]DownloadsSound` |
| `TunnelProofs` | `PeerLifecycle` | `TypeCorrect` | `[]PeerTypeOK` |
| | | `DeadLosesSession` | `[]DeadSessionIsLate` |
| | | `SilenceEndsSession` | `[]HigherRemovesSilent` |
| | `Shutdown` | `StopIsClean` | `[]CleanStop` |
| | `Relay` | `RelayingIsSound` | `[]RelaySound` |
| | `IdentityStore` | `IdentitySurvives` | `[]IdentityKept` |
| `ServicesProofs` | `ReplayChannel` | `WindowDecidesExactly` | `[]ReplayExact` |
| | | `NoFrameTwice` | `NeverTwice`, an action property |
| | `EndpointPunch` | `EndpointsAreProved` | `EndpointProved`, an action property |
| | `RouteProbes` | `TableStaysSound` | `[]TableSound` |
| | | `FindRouteIsBest` | `[]BestRoute` |
| | | `HoldDownIsKept` | `HoldDownKept`, an action property |

`SessionTableProofs` holds the lemmas about the sections of `session.cpp` that the
first two share, `HandshakeInvariant` the invariant of the handshake and the steps
that leave the tables alone. A module with proofs of several components has one
section for each; they share no definition. Most leaves are for Zenon
(`USE Zenon` at the head of each module); those that need arithmetic name `SMT`. That
is also what keeps a module's proofs within minutes, since translating obligations for
SMT becomes slower with every one translated before. `Routing` keeps away from
`SequencesExt` for the same reason: what a module reaches is the context of each of its
obligations.

**Replay window.** `WindowExact` is inductive together with the types: the bits are
the distances of the delivered wire numbers from the largest one. The lemmas on
`UpdateReplay` say what a shift and a set bit do to that. `NeverTwice` follows
because a delivered number is either behind the window or on in it.

**Session manager.** `SessionTableProofs` shows that each critical section keeps
`TableInv` (types, the two maps inverse to each other, ids disjoint, a retired
session has a successor, caps, finiteness); caps need finiteness for cardinalities.
That every section re-establishes it without any hypothesis on what ran between two
sections of `handle_handshake_init` is the point: the install section tests again
what the first section tested. `DeliveredRefused` needs `KeyInv` too: the keys of
two live sessions differ and were installed before, and every delivered number of a
live key is refused by the window stored with that key. Without it a fresh session
might share the key of one that delivered frames.

The three action properties rest on `ThreadInv` as well. When the receive thread is
about to install an INIT of a higher NodeId, there is no session of this node's own
initiation for it to replace, although other threads ran since the INIT was admitted:
only a RESP makes one, and RESPs are handled by the same thread (`Yields`). No node
initiates to itself (`ToOthers`). Every INIT taken less than `ReplayTtl` ago is in the
cache (`Cached`), from which only a purge removes entries, when they have expired.
For `OldKeyKept` the entry that an eviction gives up is the least by expiry; that
there is one is a lemma on sets of natural numbers (`LeastNat`).

**Handshake.** `KeysAgree` compares two tables that never see each other, so the
invariant `HInv` follows a session id through both nodes, their threads and the
network. Every id has one initiator, as long as the threads choose fresh ones
(`OneInitiator`). While a copy of an INIT may still arrive, either nobody has answered
it or the replay cache of the responder has it, and if it is being answered that
happens once (`AnsweredOnce`). So all that was ever derived for an id comes from one
transcript (`OneKey`), and both ends of a session have it. The second fact is where
time comes in: `ReplaysOver` forgets an INIT only when no thread and no datagram has
its id any more. In the code the cache keeps it for two minutes, and a handshake with
its retransmissions is over after ten seconds; the theorem does not cover a network
that delays a datagram for longer than the rest.

**File transfer.** `SuccessMeansSaved` speaks of the end of the loop, so the
invariant has to say why a recipient may leave it: who left has published
(`LeftSaved`), since the sender counted all chunks as acknowledged, which the
tracker really holds (`AckedStaysReceived`), and who holds all chunks has published
(`AllGotSaved`, which is where taking back the last chunk after a failed commit is
needed). `AckedStaysReceived` is only inductive when no CANCEL can reach a recipient
that is still served (`ServedUncancelled`). The bound on the window comes from an
argument on the least chunk at which filling would exceed it.

**Retries.** `RetryInv` charges every retransmission to a fault: an item, the header or
a chunk in flight, has been repeated less often than there were faults, or as often and
is itself on its way, as a frame or in an acknowledgement (`Afforded`). Only an item that
is not on its way is overdue, so one more repetition is paid for. It breaks if a
recipient takes a frame and says nothing: hence the invariant also says that who is
served has an entry, and one that is not complete has its `.part` file. The
acknowledgement of a chunk must report that chunk, which `acknowledged_ranges` does only
if there is room for a second range after the prefix (`FocusReported`): with
`MaxRanges = 1` and a window above one the property is false, and the code has 32. That a
file which does not verify is the consequence of a fault or of a lost write is
`WrittenSound`.

**Peer lifecycle.** The properties speak of quiet states, so the invariant says what
is true while a thread is between two lock sections: `DeadInv` follows a dead record
until the session is removed, `HeardInv` relates the age in the record to the time
since the peer was really heard, and `HigherInv` bounds that time while a session is
up on the higher NodeId, where only an answer moves `last_seen`. The exception of a late
RESP is in the statements, because the code has it (see "Where code and text differ").

**Transport.** The refinement needs two facts about the implementation: a peer with
a datagram in a class is in the rotation of that class (`LaneInv`), so an empty
control rotation means that no control datagram waits; and a datagram is in hand
exactly while the send thread is in `sendto` (`HandInv`). For the latter, `bind` must
not start a second thread under the first: threads live only while the socket is
open, and `close` joins both before it closes it (`ThreadInv`).

**Queue counters.** `BooksOk` says that each counter is the sum it stands for. A sum is
the number of units its terms are made of (`Sums`), so that what an update of one term
does to it follows from the cardinality of a disjoint union (`TotalChange`), without an
induction over the lane or the peers. `enqueue` and `pop` keep `BooksOk` in any state
that satisfies it; that a counter never goes below zero is part of the argument, because
a datagram at the head of a lane is one of the units of its counters. No bound on the
number of peers is needed: at any time only finitely many have a datagram.

**Downloads.** What is published passed the digest, whatever became of the writes, so
it is the offered file (`PublishedOk`). `DownInv` adds what the limits need: a transfer is
done only with all its chunks, a `.part` file never grows beyond the file its header
announced, also when its transfer is gone (`PartOk`), and the unfinished transfers fit
the limits of their peer and of the node (`RoomOk`), with reservations that are sums as
above. `handle_file_header_frame` counts them anew for each header, under the lock that
also inserts the entry, so no interleaving lets two headers pass on the same room.

**Credential file.** The invariant says for each point of `load_or_create_identity`
what the process knows of the file: it was missing or of the old format when it
looked, and its temporary file is its own, whole once written, and carries the
NodeId of the old file if there was one.

**Shutdown.** `SInv` says how far a `stop` has come: past its first steps the flags are
down, and past the step that joins a thread the thread is not in its loop (`StopInv`),
so that nothing works on what is closed (`ClosedInv`). With two `stop`s under way,
either may overtake the other, and `start` may spawn a thread after one of them has
passed its join; only what the REPL thread itself joined and closed stays so (`ReplInv`), since
it is also the thread that starts things (`StartInv`). The invariant speaks of behaviours
up to the loss of the process; that this takes a teardown follows because the REPL thread
alone never meets itself.

**Relay.** The limiter refills a bucket when it is used and forgets one that was idle;
the ideal buckets of `credit` refill with every unit of time and forget nothing. They
agree (`LimiterExact`) because refilling once for n units is the same as n times for
one (`FillOnce`, which has to carry the cap at the burst along), and because an idle
bucket is full (`IdleIsFull`). A frame on the wire is at the hop of
its path that its trail has come to, its layers name the hops that are left (`OnPath`),
and its packet fits the path as a whole, hence each part of it (`FitsPath`).

**Endpoints.** `PunchInv`: every frame and response under way comes from where the
peer has been; the age of a pending challenge is the time since it was sent. Nothing is
assumed of presences, of the configured endpoint or of the candidates a peer announces: a
candidate is used only when an answer comes from the address that was challenged, a
presence only with the path unknown, and a handshake puts back what was in use when it
began.

**Routing table.** `RouteInv` says that every route in the table can be walked, that
candidates differ and that *kin*, learned candidates of one origin and prefix, are of one
sequence. Between two lock sections of `merge_peer_table` it relates the candidate in hand
to the table: it is newer than its kin before the older ones are removed, and of their
sequence before it is added. This survives the other threads because none of them learns
a route (`Quiet`): they remove routes, set their times or install a configured one, whose
type is another. `merge_peer_table` runs in one thread; with two receivers the
invariant would fail. The erasing loops are an order-preserving choice of positions (`Kept`),
so that what is left of a table follows from the numbering of a finite set (`PlaceIs`).

`HoldDownKept` is a fact about each operation, `Lasts`: a route with the target of a
suppressed one is still suppressed. It needs two more parts of the invariant: a candidate
is listed once, and a direct and a relay route never have the same target, since their
paths begin and end at the same node or do not (`DirectIs`). Otherwise the first match of
a target could be another route than before.

`BestRoute` is an induction over the loop of `find_route`: after n turns the candidate
kept is not beaten by any of the first n. The induction is a least counterexample, and so
is the proof that the function the loop computes exists.

**Rate limiter.** `RateInv` splits what passed within the last window into what the
bucket in force has counted and what was before it; each is at most the limit. A source's
bucket begins with an INIT, so that of the INITs before it one more has left the window.

**Cookies.** `CookieInv` bounds the age of a cookie by that of the secret it was made
with: less than one interval older than it while the secret is the current one, and
between one unit and two intervals older than the secret that replaced it.

### What is only model-checked

- Liveness: `Heals`, `Rejoined`, `Terminates`, `NoPartLeft`, `ControlServed`, `Closes`,
  `SilentReleased`, `SuppressionFollowsPath`, `StopReturns`, `Converges`, `Settles`,
  `Floods`. The prover does not treat fairness.
- `LearnedSound` of `Mesh`, where tables are merged by folds over entries and offers, and
  whose inductive form has to bound the lease in every datagram under way.
- `Converged`, which holds only without faults and with patient deadlines: its
  invariant is the list of the stages of two handshakes at once.
- `TypeOK` of `services`, in the proofs where they need it.

## Findings

`peer_silent_lower`: on the lower NodeId a failed rekey every 120 s is taken for a
sign of life (`src/tunnel/tunnel.cpp:498`), so that a silent peer never reaches the
180 s of the README and keeps its session and routes. On the higher NodeId the
timeout works (`HigherRemovesSilent`), except for the session of a late RESP (below).

`probe_pair`: `handle_path_probe` answers a challenge only over a route that is not
suppressed (`src/tunnel/tunnel.cpp:1613-1622`). When a link fails for long enough that
both of its ends time a probe out, each suppresses the path to the other; from then on
both send challenges after every hold-down and both drop those they receive, so that no
response ever comes, although SECURITY.md:259-265 says that "the direct path is retried
after hold-down". With no relay between the two, their traffic stays suppressed. The
challenges still count as signs of life, so the sessions do not end either, which would
bring new routes. `SuppressionFollowsPath` is about one node and a peer whose answers
come or do not come.

That simultaneous initiations converge, which SECURITY.md claims and which depends
on the order of the tests in `handle_handshake_init` and `handle_handshake_resp`,
holds.

### Where code and text differ

Smaller differences met while modelling, which no run checks.

- A late RESP. `handshake_peer` reserves its entry (433-443) and creates its INIT (451)
  in separate lock sections. When `maintenance_loop` declares the peer dead and removes
  its session and initiators in between, or later than the INIT, the RESP may come after
  the attempt has given up; `handle_handshake_response_frame` (1430) installs the session
  without `mark_seen`. The peer is then on record as dead with a session, and if it falls
  silent, `stale_peers` passes over it because it is dead already (`src/peer/peer.cpp:214`).
  `DeadSessionIsLate` and `HigherRemovesSilent` except exactly this session. Any frame
  of the peer puts the record right.
- `connect_loop` looks at the session at line 350 of `src/tunnel/tunnel.cpp` and
  installs the configured routes at 354. When `maintenance_loop` declares the peer dead
  in between, the routes of a dead peer are back, against the comment at 752-755.
- `FailureCancels` (`FileTransfer`): when a recipient's retries are used up,
  `send_file` leaves its loop at 2206 and the list of those to cancel is only the
  recipients before it, so the failing one and those after it get no CANCEL
  (README.md:189, SECURITY.md:243). They keep the `.part` file until the idle timeout.
- A teardown frame runs `stop` in a detached thread (1410). The REPL may run it at the
  same time, so that both join the same thread or empty `connect_threads_`, may still be
  in `start`, whose `emplace_back` (230-232) then meets the joins and the `clear` of line
  249, and may destroy the `Tunnel` while the detached thread is in it. Each is undefined
  behaviour: `CleanStop` and `StopReturns` hold as long as the process is not lost to it.
- The comment before line 354 reads as if routes and the full table were sent after a
  handshake; the loop does so every half second while the session is up.
- The result of closing the stream of a `.part` file (1241-1244) is not looked at.
  Only the final digest notices a lost write, and since only the last chunk is asked
  for again, the transfer fails in the end.
- The comment at 1538-1540 says that data cannot precede the RESP. The session is
  visible to the other threads before the RESP is queued; such frames are dropped by
  the initiator.
- `stop` clears `incoming_transfers_` and leaves the `.part` files.
- Presences are not authenticated (SECURITY.md:329-334) and never expire, so a stale one
  keeps replacing the endpoint that frames prove; `Settles` is therefore stated for a
  last presence that names a place of the peer.
- `handshake_peer` calls `mark_seen` with the endpoint it copied before it began (505,
  523, 533, 542), also when the session came up through another one: until the next frame
  the record names an endpoint from which the peer may never have sent, as "Direct".
- Two first starts at the same time may each return an identity, of which one is then
  replaced on disk. `SoleStartLasts` is stated for starts that do not overlap.
- `retain_recipients` has no effect, since peers are never removed from the table; a
  pending probe outlives the removal of its route; control traffic may starve data
  without limit, by design.

## Not modelled

Noise IK, AEAD, hashes and random numbers (two ends with one transcript have the
same keys; ids are drawn fresh); byte codecs and parsers (headers, peer tables,
invites, configuration, STUN, IP packets); the calls of Wintun and Winsock; the
broadcasts of LAN discovery; chat, which keeps no state; the parsing and printing of
the command line, and the self-tests that make up most of `main.cpp` and
`tunnel_test.cpp`. They are sequential code without state that outlives a call, and
are better served by tests. The node's own list of endpoint candidates is not
modelled either, as it is only sent to others. `PROJECT.json` lists every part with
its reason, and every known hazard with the properties that cover it.

Simplifications across modules: gossip entries fit a datagram each; a prefix is a
name with a length, and an address is the set of prefixes that cover it; relay quotas
count integers in place of doubles; a merge is one step in `Mesh` and several in
`RouteProbes`; `Mesh` has no probes, so that `Converges` says what gossip and leases lead
to, and not which of the routes are suppressed.

## Plan

1. `LearnedSound`, with merging as a recursive function in place of the folds, on top of
   what is proved of the operators of `Routing`.
2. The node's own endpoint candidates, with the two nodes of a punch composed.
