------------------------------- MODULE Gossip -------------------------------
(***************************************************************************)
(* GossipDeltaTracker (gossip.cpp) and the cutting of a peer table into    *)
(* datagrams, as operators.  A tracker is a record                         *)
(*                                                                         *)
(*   current   the last advertisement of each node (current_)              *)
(*   clean     for each recipient, the nodes whose revision in sent_ is    *)
(*             the current one                                             *)
(*                                                                         *)
(* A revision only says whether an advertisement changed since it was      *)
(* committed to a recipient, which is what clean keeps.                    *)
(***************************************************************************)
EXTENDS Naturals, FiniteSets, Sequences, SequencesExt

CONSTANTS
  Node,        \* node ids, ordered
  BatchSize    \* entries that fit into a datagram

ASSUME GossipAssumption == Node \subseteq Nat /\ BatchSize \in Nat \ {0}

NoGossip == [current |-> <<>>, clean |-> [m \in Node |-> {}]]

(* prepare: the tracker after it has taken in the current table, a         *)
(* function from nodes to entries.  A changed entry gets a new revision,   *)
(* which no recipient has.                                                 *)
Observe(t, table) ==
  LET same == {n \in DOMAIN table : n \in DOMAIN t.current /\ t.current[n] = table[n]}
  IN  [current |-> table, clean |-> [m \in Node |-> t.clean[m] \cap same]]

(* prepare: the entries for a recipient, in the order of the map.          *)
Updates(t, m, full) ==
  SetToSortSeq({n \in DOMAIN t.current : full \/ n \notin t.clean[m]}, <)

(* make_gossip_batches: runs of BatchSize entries.                         *)
Batches(nodes) ==
  [i \in 1 .. (Len(nodes) + BatchSize - 1) \div BatchSize |->
     SubSeq(nodes, (i - 1) * BatchSize + 1,
            IF i * BatchSize < Len(nodes) THEN i * BatchSize ELSE Len(nodes))]

(* commit of everything prepared for the recipients in ms, whose datagrams *)
(* are in the send queue.                                                  *)
Committed(t, ms) ==
  [t EXCEPT !.clean = [m \in Node |-> IF m \in ms THEN DOMAIN t.current ELSE @[m]]]
=============================================================================
