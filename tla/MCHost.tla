------------------------------- MODULE MCHost -------------------------------
(***************************************************************************)
(* Small instances of three parts of a process that deal with the          *)
(* operating system and share no state: the socket with its two threads,   *)
(* the credential file, and the downloads.  Each behaviour moves one of    *)
(* them.                                                                   *)
(***************************************************************************)
EXTENDS Transport, IdentityStore, IncomingFiles

VARIABLE moving   \* the part that this behaviour is about

hostVars == <<moving, vars, idVars, inVars>>

HostInit ==
  /\ moving \in {"transport", "identity", "downloads"}
  /\ Init /\ IdInit /\ InInit
  /\ moving # "identity" => file = Missing

HostNext ==
  \/ moving = "transport" /\ Next /\ UNCHANGED <<moving, idVars, inVars>>
  \/ moving = "identity" /\ IdNext /\ UNCHANGED <<moving, vars, inVars>>
  \/ moving = "downloads" /\ InNext /\ UNCHANGED <<moving, vars, idVars>>

(* In a part that does not move, no fair action is enabled.                *)
HostSpec == HostInit /\ [][HostNext]_hostVars /\ Fairness /\ InFairness

-----------------------------------------------------------------------------
(* Data has room for two datagrams of a peer and three in all, control for *)
(* one of each peer.                                                       *)
Limits(control, data) == [c \in Class |-> IF c = "control" THEN control ELSE data]

MCItemsPerPeer == Limits(1, 2)
MCBytesPerPeer == Limits(1, 3)
MCItemsGlobal == Limits(2, 3)
MCBytesGlobal == Limits(2, 4)

(* Chunks of two bytes.  Two senders use one name, and their two files are *)
(* too large together; a file is empty, a file ends with its chunk, another*)
(* does not; the last has chunks too long for this node.                   *)
MCOffer(from, id, name, chunk, content) ==
  [from |-> from, id |-> id, name |-> name, chunk |-> chunk, content |-> content]
MCOffers ==
  {MCOffer("A", 1, "n", 2, <<11, 12, 13>>), MCOffer("A", 2, "m", 2, <<>>),
   MCOffer("B", 1, "n", 2, <<21, 22>>), MCOffer("B", 2, "k", 3, <<41, 42, 43>>)}
=============================================================================
