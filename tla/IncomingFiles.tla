--------------------------- MODULE IncomingFiles ---------------------------
(***************************************************************************)
(* The downloads of a node: the map incoming_transfers_ with the transfers *)
(* of several senders, their .part files and the files they become.  The   *)
(* module FileTransfer follows one transfer from end to end; here is what  *)
(* the transfers of one node share, the limits of admission and the names, *)
(* and where the bytes of a chunk go.                                      *)
(*                                                                         *)
(* A frame of any offered transfer may arrive at any time.  The receive    *)
(* thread handles it under the lock; the maintenance thread erases the     *)
(* transfers that are idle under the lock and deletes their .part files    *)
(* after it.                                                               *)
(*                                                                         *)
(* A byte is a number, a file a sequence of bytes.                         *)
(***************************************************************************)
EXTENDS Integers, Sequences, FiniteSets, FiniteSetsExt, Sums

CONSTANTS
  Offers,             \* the headers that peers send
  LocalChunk,         \* file_chunk_size_for_overlay_mtu of the node
  MinChunk, MaxChunk, \* FILE_TRANSFER_MIN_CHUNK_SIZE and MAX_CHUNK_SIZE
  MaxFileSize,        \* FILE_TRANSFER_MAX_FILE_SIZE
  MaxActivePeer, MaxActiveGlobal, MaxReservedPeer, MaxReservedGlobal,
  IdleTimeout         \* FILE_TRANSFER_IDLE_TIMEOUT

ASSUME IncomingAssumption ==
  /\ {LocalChunk, MinChunk, MaxChunk, MaxFileSize, MaxActivePeer, MaxActiveGlobal, MaxReservedPeer,
      MaxReservedGlobal, IdleTimeout} \subseteq Nat \ {0}
  /\ MaxFileSize <= MaxReservedPeer /\ MaxFileSize <= MaxReservedGlobal
  /\ \A h \in Offers : h.chunk \in Nat /\ h.content \in Seq(Nat)
  /\ \A h, g \in Offers : h.from = g.from /\ h.id = g.id => h = g

VARIABLES
  incoming,   \* incoming_transfers_
  parts,      \* the .part files
  published,  \* the files under their final names
  expired     \* the .part files that expire_file_transfers has yet to delete

inVars == <<incoming, parts, published, expired>>

(* FileTransferKey, which also names the .part file.                       *)
Of(h) == <<h.from, h.id>>
TransferKey == {Of(h) : h \in Offers}
Offered(k) == CHOOSE h \in Offers : Of(h) = k

NoTransfer == [got |-> {-1}, done |-> FALSE, age |-> 0]
Held(k) == incoming[k] # NoTransfer
Unfinished == {k \in TransferKey : Held(k) /\ ~incoming[k].done}

(* No file; a file is a sequence of bytes.                                 *)
None == <<-1>>
Hole == 0       \* what a write past the end leaves before it
Other == 99     \* a byte that the file did not have when it was hashed

InInit ==
  /\ incoming = [k \in TransferKey |-> NoTransfer]
  /\ parts = [k \in TransferKey |-> None]
  /\ published = [n \in {h.name : h \in Offers} |-> None]
  /\ expired = {}

-----------------------------------------------------------------------------
(* file_transfer_chunk_count; 0 is an error.                               *)
ChunkCount(size, chunk) ==
  IF size > MaxFileSize \/ chunk < MinChunk \/ chunk > MaxChunk THEN 0
  ELSE IF size = 0 THEN 1
  ELSE 1 + (size - 1) \div chunk

Chunks(h) == 0 .. ChunkCount(Len(h.content), h.chunk) - 1

(* The length that is_valid_file_chunk_for_header asks of chunk i.         *)
ChunkLength(h, i) ==
  IF i + 1 = ChunkCount(Len(h.content), h.chunk) THEN Len(h.content) - i * h.chunk ELSE h.chunk

(* The bytes that send_file reads for chunk i, up to the end of the file;  *)
(* they may have changed since the file was hashed.                        *)
Reads(h, i) ==
  LET bytes == SubSeq(h.content, i * h.chunk + 1, Min({(i + 1) * h.chunk, Len(h.content)}))
  IN  {bytes, [j \in DOMAIN bytes |-> Other]}

(* seekp and write.                                                        *)
Written(bytes, offset, data) ==
  [j \in 1 .. Max({Len(bytes), IF data = <<>> THEN 0 ELSE offset + Len(data)}) |->
     IF j - offset \in DOMAIN data THEN data[j - offset]
     ELSE IF j <= Len(bytes) THEN bytes[j] ELSE Hole]

Reserved(K) == Total([k \in K |-> Len(Offered(k).content)])

(* file_transfer_admission_allowed, for the unfinished transfers of a peer *)
(* and of all peers.                                                       *)
AdmissionAllowed(mine, all, size) ==
  /\ size <= MaxFileSize
  /\ Cardinality(mine) < MaxActivePeer /\ Cardinality(all) < MaxActiveGlobal
  /\ Reserved(mine) <= MaxReservedPeer - size /\ Reserved(all) <= MaxReservedGlobal - size

-----------------------------------------------------------------------------
Refresh(k) == incoming' = [incoming EXCEPT ![k].age = 0]

(* handle_file_header_frame.  A transfer that is known is only refreshed.  *)
(* A new one is opened unless a limit or the disk forbids it.              *)
TakeHeader(h) ==
  LET k == Of(h)
  IN  /\ ChunkCount(Len(h.content), h.chunk) # 0 /\ h.chunk <= LocalChunk
      /\ \/ Held(k) /\ Refresh(k) /\ UNCHANGED parts
         \/ /\ ~Held(k)
            /\ AdmissionAllowed({j \in Unfinished : j[1] = h.from}, Unfinished, Len(h.content))
            /\ parts' = [parts EXCEPT ![k] = <<>>]
            /\ incoming' = [incoming EXCEPT ![k] = [got |-> {}, done |-> FALSE, age |-> 0]]
      /\ UNCHANGED <<published, expired>>

(* hash_file_sha256: no two files have the same digest.                    *)
Digest(bytes) == <<"sha256", bytes>>

(* Bug variant of Verified: the digest is not compared.                    *)
VerifiedSize(k, bytes) == Len(bytes) = Len(Offered(k).content)

(* verify_and_commit_file: the size and the digest are right.              *)
Verified(k, bytes) ==
  Len(bytes) = Len(Offered(k).content) /\ Digest(bytes) = Digest(Offered(k).content)

(* A chunk is written and recorded.  With the last one the file is         *)
(* published under its name, in place of an older one; when that fails the *)
(* chunk is asked for again.                                               *)
StoreChunk(k, i, bytes) ==
  LET got == incoming[k].got \cup {i}
      name == Offered(k).name
      Keep(g) == /\ incoming' = [incoming EXCEPT ![k] = [got |-> g, done |-> FALSE, age |-> 0]]
                 /\ parts' = [parts EXCEPT ![k] = bytes]
                 /\ UNCHANGED published
  IN  \/ got # Chunks(Offered(k)) /\ Keep(got)
      \/ /\ got = Chunks(Offered(k)) /\ Verified(k, bytes)
         /\ incoming' = [incoming EXCEPT ![k] = [got |-> got, done |-> TRUE, age |-> 0]]
         /\ parts' = [parts EXCEPT ![k] = None]
         /\ published' = [published EXCEPT ![name] = bytes]
      \/ got = Chunks(Offered(k)) /\ Keep(got \ {i})   \* not verified, or not renamed

(* handle_file_chunk_frame.                                                *)
TakeChunk(k, i, data) ==
  /\ Held(k) /\ Len(data) = ChunkLength(Offered(k), i)
  /\ \/ i \in incoming[k].got /\ Refresh(k) /\ UNCHANGED <<parts, published>>
     \/ (* The .part file cannot be opened or written. *)
        i \notin incoming[k].got /\ Refresh(k) /\ UNCHANGED <<parts, published>>
     \/ (* Written, or lost when the stream is closed, which nobody notices. *)
        /\ i \notin incoming[k].got /\ parts[k] # None
        /\ \E bytes \in {Written(parts[k], i * Offered(k).chunk, data), parts[k]} : StoreChunk(k, i, bytes)
  /\ UNCHANGED expired

(* handle_file_cancel_frame.                                               *)
TakeCancel(k) ==
  /\ Held(k)
  /\ incoming' = [incoming EXCEPT ![k] = NoTransfer]
  /\ parts' = IF incoming[k].done THEN parts ELSE [parts EXCEPT ![k] = None]
  /\ UNCHANGED <<published, expired>>

(* Bug variant of Idle: a transfer whose .part file is gone is overlooked. *)
IdleWithPart(k) == Held(k) /\ incoming[k].age >= IdleTimeout /\ parts[k] # None

Idle(k) == Held(k) /\ incoming[k].age >= IdleTimeout

(* The lock section of expire_file_transfers.                              *)
ExpireTransfers ==
  /\ expired = {} /\ \E k \in TransferKey : Idle(k)
  /\ incoming' = [k \in TransferKey |-> IF Idle(k) THEN NoTransfer ELSE incoming[k]]
  /\ expired' = {k \in Unfinished : Idle(k)}
  /\ UNCHANGED <<parts, published>>

(* What it does after the lock, for one transfer.  In between the receive  *)
(* thread may have opened that transfer again: then its new .part file is  *)
(* deleted.                                                                *)
DeletePart(k) ==
  /\ k \in expired
  /\ expired' = expired \ {k}
  /\ parts' = [parts EXCEPT ![k] = None]
  /\ UNCHANGED <<incoming, published>>

InTick ==
  /\ \E k \in TransferKey : Held(k) /\ incoming[k].age < IdleTimeout
  /\ incoming' = [k \in TransferKey |->
                    IF Held(k) /\ incoming[k].age < IdleTimeout
                      THEN [incoming[k] EXCEPT !.age = @ + 1] ELSE incoming[k]]
  /\ UNCHANGED <<parts, published, expired>>

InNext ==
  \/ \E h \in Offers : TakeHeader(h)
  \/ \E k \in TransferKey :
       \/ \E i \in Chunks(Offered(k)) : \E data \in Reads(Offered(k), i) : TakeChunk(k, i, data)
       \/ TakeCancel(k)
       \/ DeletePart(k)
  \/ ExpireTransfers
  \/ InTick

(* Time passes, and maintenance_loop looks for idle transfers every second.*)
InFairness ==
  /\ WF_inVars(InTick) /\ WF_inVars(ExpireTransfers)
  /\ WF_inVars(\E k \in TransferKey : DeletePart(k))

InSpec == InInit /\ [][InNext]_inVars /\ InFairness

-----------------------------------------------------------------------------
IsFile(b) == b = None \/ (b \in Seq(Nat) /\ Len(b) <= MaxFileSize)

(* Types of the variables.                                                 *)
InTypeOK ==
  /\ \A k \in TransferKey :
       /\ Held(k) => incoming[k].got \subseteq Chunks(Offered(k))
       /\ incoming[k].done \in BOOLEAN /\ incoming[k].age \in 0 .. IdleTimeout
       /\ IsFile(parts[k])
  /\ \A n \in DOMAIN published : IsFile(published[n])
  /\ expired \subseteq TransferKey

(* What stands under a name is, byte for byte, a file that somebody sent   *)
(* under that name: never a mixture of two senders, of two versions of a   *)
(* file, or one with a gap or a chunk in the wrong place.                  *)
PublishedWhole ==
  \A n \in DOMAIN published :
    published[n] # None => \E h \in Offers : h.name = n /\ h.content = published[n]

(* The .part files of the transfers that are held stay within what was     *)
(* admitted, of each peer and in all, however transfers come and go.       *)
ReservationsHold ==
  /\ \A k \in Unfinished : parts[k] # None => Len(parts[k]) <= Len(Offered(k).content)
  /\ Cardinality(Unfinished) <= MaxActiveGlobal /\ Reserved(Unfinished) <= MaxReservedGlobal
  /\ \A k \in Unfinished :
       LET mine == {j \in Unfinished : j[1] = k[1]}
       IN  Cardinality(mine) <= MaxActivePeer /\ Reserved(mine) <= MaxReservedPeer

(* The disk holds nothing but whole files under their names and, next to   *)
(* them, the part files of admitted transfers within their reservations.   *)
DownloadsSound == InTypeOK /\ PublishedWhole /\ ReservationsHold

(* A transfer whose sender falls silent is given up, also one that lost    *)
(* its .part file to the deletion of its predecessor's, and no .part file  *)
(* outlives its transfer: neither state lasts.  (P ~> ~P is []<>~P.)       *)
SilentReleased ==
  \A k \in TransferKey :
    /\ []<>(~Held(k) \/ incoming[k].age = 0)
    /\ []<>(Held(k) \/ parts[k] = None)
=============================================================================
