----------------------------- MODULE Revocation -----------------------------
(***************************************************************************)
(* The flooding of membership revocations: MembershipRevocationStore and   *)
(* the announcements of Tunnel.  A record here is a valid one, of the      *)
(* network and its trusted issuer, so it is an enrollment nonce with an    *)
(* epoch.  Frames wait in a set: they may overtake each other, and a send  *)
(* or a datagram may fail a bounded number of times.                       *)
(***************************************************************************)
EXTENDS Integers, Sequences, FiniteSets

CONSTANTS
  RevNodes,
  RevNeighbours,    \* for each node, the peers with a session and an endpoint
  Issuable,         \* <<node, record>>: the records that a node's user may add
  MaxStored,        \* MEMBERSHIP_REVOCATION_MAX_STORED
  MaxRecords,       \* MEMBERSHIP_REVOCATION_MAX_RECORDS, per frame
  MaxRevFaults      \* bound: failed sends and lost datagrams

ASSUME RevocationAssumption ==
  /\ {MaxStored, MaxRecords} \subseteq Nat \ {0} /\ MaxRevFaults \in Nat
  /\ RevNeighbours \in [RevNodes -> SUBSET RevNodes]
  /\ \A x \in Issuable : x[1] \in RevNodes /\ x[2].epoch \in Nat

VARIABLES
  store,      \* records_ of each node, in the order of their arrival
  frames,     \* revocation frames under way
  revoked,    \* history: records that some node took from its own user
  revFaults

revVars == <<store, frames, revoked, revFaults>>

Nonces == {x[2].nonce : x \in Issuable}

RevInit ==
  /\ store = [n \in RevNodes |-> <<>>]
  /\ frames = {} /\ revoked = {} /\ revFaults = 0

-----------------------------------------------------------------------------
Supersedes(r, held) == held.epoch < r.epoch

(* MembershipRevocationStore::add, on the records of a store.              *)
AddRevocation(records, r) ==
  LET found == {i \in DOMAIN records : records[i].nonce = r.nonce}
  IN  IF found # {}
      THEN [i \in DOMAIN records |-> IF i \in found /\ Supersedes(r, records[i]) THEN r ELSE records[i]]
      ELSE IF Len(records) >= MaxStored THEN records
      ELSE Append(records, r)

(* The records of one frame, added in order.                               *)
AddAll(records, batch) ==
  LET after[i \in 0 .. Len(batch)] == IF i = 0 THEN records ELSE AddRevocation(after[i - 1], batch[i])
  IN  after[Len(batch)]

(* announce_membership_revocations cuts the store into frames.             *)
Batches(records) ==
  LET last == Len(records)
      End(k) == IF (k + 1) * MaxRecords < last THEN (k + 1) * MaxRecords ELSE last
  IN  [k \in {i \in 0 .. last : i * MaxRecords < last} |-> SubSeq(records, k * MaxRecords + 1, End(k))]

Audience(n, exclude) == RevNeighbours[n] \ exclude

(* The announcement; a failed send ends the loop over a peer's frames.     *)
Announce(n, records, exclude, known) ==
  LET batches == Batches(records)
      all == Cardinality(DOMAIN batches)
      Sent(p, count) == {[from |-> n, to |-> p, batch |-> batches[k]] : k \in {i \in DOMAIN batches : i < count}}
  IN  \/ /\ frames' = known \cup UNION {Sent(p, all) : p \in Audience(n, exclude)}
         /\ UNCHANGED revFaults
      \/ /\ revFaults < MaxRevFaults /\ revFaults' = revFaults + 1
         /\ \E short \in Audience(n, exclude), count \in 0 .. all - 1 :
              frames' = known \cup UNION {Sent(p, IF p = short THEN count ELSE all) : p \in Audience(n, exclude)}

-----------------------------------------------------------------------------
(* add_membership_revocation.                                              *)
Revoke(n, r) ==
  LET records == AddRevocation(store[n], r)
  IN  /\ <<n, r>> \in Issuable /\ records # store[n]
      /\ store' = [store EXCEPT ![n] = records]
      /\ revoked' = revoked \cup {r}
      /\ Announce(n, records, {}, frames)

(* handle_membership_revocation_frame.                                     *)
TakeRevocations(f) ==
  LET records == AddAll(store[f.to], f.batch)
  IN  /\ store' = [store EXCEPT ![f.to] = records]
      /\ IF records # store[f.to]
         THEN Announce(f.to, records, {f.from}, frames \ {f})
         ELSE frames' = frames \ {f} /\ UNCHANGED revFaults
      /\ UNCHANGED revoked

(* Bug variant of Repeats: only a change is announced.                     *)
RepeatsNever(n) == FALSE

(* A store that is not empty is announced by gossip_loop in every full     *)
(* round, and by each connect_loop whose session is up.                    *)
Repeats(n) == store[n] # <<>>

(* Such an announcement, when the frames of the node's last one have       *)
(* arrived or are lost: the rounds are half a minute apart, and what       *)
(* connect_loop repeats in between is on its way already.                  *)
FullRound(n) ==
  /\ Repeats(n)
  /\ \A f \in frames : f.from # n
  /\ Announce(n, store[n], {}, frames)
  /\ UNCHANGED <<store, revoked>>

LoseRevocations(f) ==
  /\ revFaults < MaxRevFaults /\ revFaults' = revFaults + 1
  /\ frames' = frames \ {f}
  /\ UNCHANGED <<store, revoked>>

RevNext ==
  \/ \E n \in RevNodes : FullRound(n)
  \/ \E x \in Issuable : Revoke(x[1], x[2])
  \/ \E f \in frames : TakeRevocations(f) \/ LoseRevocations(f)

(* The network empties again and again, frames arriving within a second of *)
(* a round, and full rounds recur at every node.                           *)
RevFairness == []<>(frames = {}) /\ \A n \in RevNodes : WF_revVars(FullRound(n))

-----------------------------------------------------------------------------
(* Types of the variables.                                                 *)
RevTypeOK ==
  /\ \A n \in RevNodes :
       /\ Len(store[n]) <= MaxStored
       /\ \A i, j \in DOMAIN store[n] : i < j => store[n][i].nonce # store[n][j].nonce
       /\ \A i \in DOMAIN store[n] : store[n][i] \in revoked
  /\ \A f \in frames : Len(f.batch) \in 1 .. MaxRecords

(* The highest epoch of each nonce.                                        *)
Newest == {r \in revoked : \A q \in revoked : q.nonce = r.nonce => q.epoch <= r.epoch}

(* If the stores can hold every nonce, all nodes end up with the highest   *)
(* epoch of each, in spite of losses: the full rounds repair them.         *)
Floods ==
  Cardinality(Nonces) <= MaxStored =>
    <>[](\A n \in RevNodes : {store[n][i] : i \in DOMAIN store[n]} = Newest)
=============================================================================
