--------------------------- MODULE IdentityStore ---------------------------
(***************************************************************************)
(* The credential file of a node (identity_store.cpp).  A process that     *)
(* starts the REPL calls load_or_create_identity, which reads the file,    *)
(* rewrites one of the old format and creates a missing one, always by way *)
(* of a temporary file.  Several processes may start at the same time, and *)
(* each may be killed between any two calls of the operating system and in *)
(* the middle of a write; the number of a process that is gone is given to *)
(* a later one.                                                            *)
(*                                                                         *)
(* An identity is its two private keys: x, from which the NodeId follows,  *)
(* and the signing key s.  Signatures are deterministic, so the binding    *)
(* is a function of the two; damage shows in the checksum.                 *)
(***************************************************************************)
EXTENDS Integers, FiniteSets

CONSTANTS
  Pid,            \* process numbers
  TempAttempts,   \* names of temporary files a process tries, 16
  MaxKey          \* bound: keys, enough for those that exist at one time

ASSUME IdentityAssumption ==
  /\ TempAttempts \in Nat \ {0} /\ MaxKey \in Nat /\ IsFiniteSet(Pid)
  /\ MaxKey >= 2 * (2 * Cardinality(Pid) + 4)

VARIABLES
  file,       \* what stands at the path of the credential file
  temps,      \* the temporary files of each process number
  proc,       \* where each process is, and the identity it holds
  born,       \* history: file at the beginning
  promised    \* history: identities returned to a process that started alone

idVars == <<file, temps, proc, born, promised>>

Missing == [size |-> -1, x |-> 0, s |-> 0]

LegacySize == 32
V1Size == 168

Legacy(x) == [size |-> LegacySize, x |-> x, s |-> 0]

(* encode_identity.                                                        *)
V1(id) == [size |-> V1Size, x |-> id.x, s |-> id.s]

(* A file that was damaged, or not written to its end.  One of 32 bytes    *)
(* passes for a file of the old format, with whatever key.                 *)
Damaged(size) == [size |-> size, x |-> 0, s |-> 0]

(* A temporary file whose process is gone: it is never read again, and its *)
(* content is left out.                                                    *)
StaleTemp == Damaged(0)

NoId == [x |-> 0, s |-> 0]

Loading == {p \in Pid : proc[p].pc \notin {"off", "up"}}

(* The keys in use, and the next one that a generator returns, as long as  *)
(* the bound leaves one for each of the two keys of an identity.           *)
KeysUsed ==
  LET ids == {file, born} \cup {proc[p].id : p \in Pid} \cup promised
               \cup {temps[t] : t \in DOMAIN temps}
  IN  {i.x : i \in ids} \cup {i.s : i \in ids}
NewKey(used) == CHOOSE k \in 1 .. MaxKey : k \notin used
KeysLeft == \A k \in 0 .. MaxKey : ~(1 .. MaxKey \subseteq KeysUsed \cup {k})

(* bind_identity_keys makes a signing key for x.                           *)
Bound(x) == [x |-> x, s |-> NewKey(KeysUsed \cup {x})]

(* Identity::create, and decode_legacy_identity.                           *)
CreatedIdentity == Bound(NewKey(KeysUsed))
MigratedIdentity == Bound(file.x)

IdInit ==
  /\ file \in {Missing, Legacy(1), V1([x |-> 1, s |-> 2]), Damaged(V1Size), Damaged(4), Damaged(V1Size + 1)}
  /\ born = file /\ promised = {}
  /\ temps = [t \in Pid \X (1 .. TempAttempts) |-> Missing]
  /\ proc = [p \in Pid |-> [pc |-> "off", id |-> NoId, attempt |-> 0, alone |-> FALSE]]

-----------------------------------------------------------------------------
(* The exits of load_or_create_identity: it throws, which ends the         *)
(* process, or returns an identity to run_repl.                            *)
Throw(p) ==
  /\ proc' = [proc EXCEPT ![p] = [pc |-> "off", id |-> NoId, attempt |-> 0, alone |-> FALSE]]
  /\ UNCHANGED promised

ReturnIdentity(p, id) ==
  /\ proc' = [proc EXCEPT ![p] = [pc |-> "up", id |-> id, attempt |-> 0, alone |-> FALSE]]
  /\ promised' = IF proc[p].alone THEN promised \cup {id} ELSE promised

StartProcess(p) ==
  /\ proc[p].pc = "off"
  /\ proc' = [q \in Pid |->
                IF q = p THEN [pc |-> "look", id |-> NoId, attempt |-> 0, alone |-> Loading = {}]
                ELSE [proc[q] EXCEPT !.alone = FALSE]]
  /\ UNCHANGED <<file, temps, born, promised>>

(* identity_file_exists, and Identity::create when there is no file.       *)
LookForFile(p) ==
  /\ proc[p].pc = "look"
  /\ IF file = Missing
     THEN KeysLeft /\ proc' = [proc EXCEPT ![p].pc = "open", ![p].id = CreatedIdentity, ![p].attempt = 1]
     ELSE proc' = [proc EXCEPT ![p].pc = "read"]
  /\ UNCHANGED <<file, temps, born, promised>>

(* decode_v1_identity accepts the file.                                    *)
DecodesV1(f) == f.size = V1Size /\ f.x # 0

(* read_identity_file; an old file gets a signing key of its own, a damaged*)
(* one is refused.                                                         *)
ReadFile(p) ==
  /\ proc[p].pc = "read"
  /\ \/ /\ file.size = LegacySize /\ KeysLeft
        /\ proc' = [proc EXCEPT ![p].pc = "open", ![p].id = MigratedIdentity, ![p].attempt = 1]
        /\ UNCHANGED promised
     \/ file.size # LegacySize /\ DecodesV1(file) /\ ReturnIdentity(p, [x |-> file.x, s |-> file.s])
     \/ file.size # LegacySize /\ ~DecodesV1(file) /\ Throw(p)
  /\ UNCHANGED <<file, temps, born>>

(* One attempt of write_identity_atomic to create a temporary file.        *)
OpenTemp(p) ==
  LET t == <<p, proc[p].attempt>>
  IN  /\ proc[p].pc = "open"
      /\ \/ /\ temps[t] = Missing
            /\ temps' = [temps EXCEPT ![t] = StaleTemp]
            /\ proc' = [proc EXCEPT ![p].pc = "write"]
            /\ UNCHANGED promised
         \/ /\ temps[t] # Missing
            /\ UNCHANGED temps
            /\ IF proc[p].attempt < TempAttempts
               THEN proc' = [proc EXCEPT ![p].attempt = @ + 1] /\ UNCHANGED promised
               ELSE Throw(p)
      /\ UNCHANGED <<file, born>>

(* DeleteFileA after a failure; its own failure is not looked at.          *)
DeleteTemp(t) == \E f \in {Missing, StaleTemp} : temps' = [temps EXCEPT ![t] = f]

(* The write, the flush and the close.                                     *)
WriteTemp(p) ==
  LET t == <<p, proc[p].attempt>>
  IN  /\ proc[p].pc = "write"
      /\ \/ /\ temps' = [temps EXCEPT ![t] = V1(proc[p].id)]
            /\ proc' = [proc EXCEPT ![p].pc = "move"]
            /\ UNCHANGED promised
         \/ DeleteTemp(t) /\ Throw(p)
      /\ UNCHANGED <<file, born>>

(* Bug variant of MoveTemp: the identity is used although it is not saved. *)
MoveTempForgiving(p) ==
  LET t == <<p, proc[p].attempt>>
  IN  /\ proc[p].pc = "move"
      /\ \/ file' = temps[t] /\ temps' = [temps EXCEPT ![t] = Missing]
         \/ DeleteTemp(t) /\ UNCHANGED file
      /\ ReturnIdentity(p, proc[p].id)
      /\ UNCHANGED born

(* The temporary file replaces the credential file, in one step and for    *)
(* good; it cannot while another process has the credential file open.     *)
MoveTemp(p) ==
  LET t == <<p, proc[p].attempt>>
  IN  /\ proc[p].pc = "move"
      /\ \/ /\ file' = temps[t]
            /\ temps' = [temps EXCEPT ![t] = Missing]
            /\ ReturnIdentity(p, proc[p].id)
         \/ DeleteTemp(t) /\ Throw(p) /\ UNCHANGED file
      /\ UNCHANGED born

(* Every call of the operating system before the write may fail.           *)
CallFails(p) ==
  /\ proc[p].pc \in {"look", "read", "open"}
  /\ Throw(p)
  /\ UNCHANGED <<file, temps, born>>

(* The process ends, or is killed wherever it is.                          *)
EndProcess(p) ==
  LET t == <<p, proc[p].attempt>>
  IN  /\ proc[p].pc # "off"
      /\ temps' = IF proc[p].pc \in {"write", "move"} THEN [temps EXCEPT ![t] = StaleTemp] ELSE temps
      /\ Throw(p)
      /\ UNCHANGED <<file, born>>

IdNext ==
  \E p \in Pid :
    \/ StartProcess(p) \/ LookForFile(p) \/ ReadFile(p) \/ OpenTemp(p) \/ WriteTemp(p)
    \/ MoveTemp(p) \/ CallFails(p) \/ EndProcess(p)

IdSpec == IdInit /\ [][IdNext]_idVars

-----------------------------------------------------------------------------
Key == 0 .. MaxKey
Content == [size : {-1, 0, 4, LegacySize, V1Size, V1Size + 1}, x : Key, s : Key]

KeyPair == [x : Key, s : Key]
ProcState ==
  [pc : {"off", "look", "read", "open", "write", "move", "up"},
   id : KeyPair, attempt : 0 .. TempAttempts, alone : BOOLEAN]

(* Types of the variables.                                                 *)
IdTypeOK ==
  /\ {file, born} \subseteq Content
  /\ temps \in [Pid \X (1 .. TempAttempts) -> Content]
  /\ proc \in [Pid -> ProcState]
  /\ promised \subseteq KeyPair

(* Whatever is killed or fails, and however many processes start at once,  *)
(* the credential file is never half written: a damaged file is left as it *)
(* is, a file of the new format too, and one of the old format keeps its   *)
(* NodeId when it is migrated.                                             *)
FileKept ==
  \/ file = born
  \/ born = Missing /\ DecodesV1(file)
  \/ born.size = LegacySize /\ DecodesV1(file) /\ file.x = born.x

(* A process that nobody else's start overlapped has the identity that all *)
(* later processes will read, signing key included.                        *)
SoleStartLasts == \A id \in promised : file = V1(id)

(* The identity of the node survives crashes, failures and concurrent      *)
(* starts of load_or_create_identity.                                      *)
IdentityKept == IdTypeOK /\ FileKept /\ SoleStartLasts
=============================================================================
