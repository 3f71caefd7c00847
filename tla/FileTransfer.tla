---------------------------- MODULE FileTransfer ----------------------------
(***************************************************************************)
(* One call of send_file: the sending windows of its recipients, polled by *)
(* one loop, and at each recipient the incoming transfer with its chunk    *)
(* tracker, its .part file and the final name.  The session frames between *)
(* them may be lost, delayed and reordered.                                *)
(*                                                                         *)
(*   window[r]  FileSendWindow of recipient r                              *)
(*   keys       transfer_keys: the recipients the loop still serves        *)
(*   outcome    what send_file returned, "running" before that             *)
(*   entry[r]   incoming_transfers_ at r: the received chunks, the length  *)
(*              of their prefix (contiguous_received_), completion_reported*)
(*   part[r]    the chunks in the .part file, and Lost(c) for a chunk c    *)
(*              whose bytes did not get there                              *)
(*   saved[r]   the file stands under its final name                       *)
(*   up[r], down[r]  the frames on their way to r and back                 *)
(*   faults     frames lost and disk operations failed so far, counted up  *)
(*              to one more than there are retries                         *)
(*   broken     a recipient refused, the source file could not be read, or *)
(*              a write was lost when its stream was closed                *)
(*                                                                         *)
(* The chunks are 0..Total-1; in a set of overdue items Header stands for  *)
(* the header.  A recipient is told from the others by its place in        *)
(* transfer_keys.  When a deadline has passed is left open, with one       *)
(* restriction if Patient: an item is not overdue while its frame or an    *)
(* acknowledgement of it is on its way.                                    *)
(***************************************************************************)
EXTENDS Integers, FiniteSets, FiniteSetsExt

CONSTANTS
  Recipients,   \* the number of established peers
  Total,        \* total_chunks
  Window,       \* window_size, 32
  RetryLimit,   \* retry_limit, 5
  MaxRanges,    \* FILE_ACK_MAX_RANGES, 32
  Patient,      \* no retransmission overtakes an answer
  Flaky         \* recipients whose disk may lose a write that has returned

ASSUME FileAssumption ==
  /\ {Recipients, Total, Window, RetryLimit, MaxRanges} \subseteq Nat \ {0}
  /\ Patient \in BOOLEAN

VARIABLES window, keys, outcome, entry, part, saved, up, down, faults, broken

sender == <<window, keys, outcome>>
receiver == <<entry, part, saved>>
vars == <<window, keys, outcome, entry, part, saved, up, down, faults, broken>>

Recipient == 1..Recipients
Chunk == 0..Total - 1
Header == Total

MaxFaults == RetryLimit + 1

NoEntry == [got |-> {}, contiguous |-> -1, done |-> FALSE]
NoFile == {Header}
Lost(c) == -1 - c

HeaderFrame == [type |-> "HEADER", index |-> Header]
ChunkFrame(c) == [type |-> "CHUNK", index |-> c]
CancelFrame == [type |-> "CANCEL", index |-> Header]
Frame(i) == IF i = Header THEN HeaderFrame ELSE ChunkFrame(i)
Ack(S) == [type |-> "ACK", got |-> S]
Refusal == [type |-> "CANCEL", got |-> {}]

-----------------------------------------------------------------------------
(* FileChunkTracker.                                                       *)

(* The prefix of got, known to reach up to from.                           *)
Extend(got, from) == Min({n \in from..Total : n \notin got})

Record(e, c) ==
  [e EXCEPT !.got = @ \cup {c}, !.contiguous = Extend(e.got \cup {c}, @)]

Remove(e, c) ==
  [e EXCEPT !.got = @ \ {c},
            !.contiguous = IF c < @ THEN Extend(e.got \ {c}, 0) ELSE @]

(* acknowledged_ranges without a focus: the runs of received chunks, as    *)
(* many as an acknowledgement holds.                                       *)
RunStarts(got) == {i \in got : i - 1 \notin got}
FirstRuns(e) ==
  {i \in e.got : Cardinality({s \in RunStarts(e.got) : s <= i}) <= MaxRanges}

(* acknowledged_ranges with a focus: the prefix, and the run of received   *)
(* chunks around the focus where there is room for a second range.         *)
RunAround(e, c) ==
  {i \in e.got : /\ i >= e.contiguous
                 /\ \A j \in Chunk :
                      (i <= j /\ j <= c) \/ (c <= j /\ j <= i) => j \in e.got}
FocusRuns(e, c) ==
  LET prefix == 0..e.contiguous - 1
      used   == IF prefix = {} THEN 0 ELSE 1
  IN prefix \cup (IF c \in e.got /\ c >= e.contiguous /\ used < MaxRanges
                    THEN RunAround(e, c) ELSE {})

-----------------------------------------------------------------------------
(* FileSendWindow.  tries gives the retransmissions of the chunks in       *)
(* flight.                                                                 *)

NewWindow ==
  [headerSent |-> FALSE, headerReceived |-> FALSE, headerTries |-> 0,
   next |-> 0, tries |-> [c \in {} |-> 0], acked |-> {}, failed |-> FALSE]

InFlight(w) == DOMAIN w.tries
Complete(w) == w.acked = Chunk

Unsent(w) == {c \in w.next..Total - 1 : c \notin w.acked}
Room(w) == Window - Cardinality(InFlight(w))

(* Where next_chunk_ stops: with the window full, or at the end.           *)
NextChunk(w) ==
  Min({n \in w.next..Total :
         n = Total \/ Cardinality({c \in Unsent(w) : c < n}) = Room(w)})
Fresh(w) == {c \in Unsent(w) : c < NextChunk(w)}

(* Bug variant of PollHeader: a retransmission is not counted.             *)
PollHeaderUncounted(w, due) == [w EXCEPT !.headerSent = TRUE]

(* Bug variant of PollHeader: gives up one retransmission early.           *)
PollHeaderEarly(w, due) ==
  IF ~w.headerSent THEN [w EXCEPT !.headerSent = TRUE]
  ELSE IF Header \notin due THEN w
  ELSE IF w.headerTries + 1 >= RetryLimit THEN [w EXCEPT !.failed = TRUE]
  ELSE [w EXCEPT !.headerTries = @ + 1]

(* due: the items whose retransmission deadline has passed.                *)
PollHeader(w, due) ==
  IF ~w.headerSent THEN [w EXCEPT !.headerSent = TRUE]
  ELSE IF Header \notin due THEN w
  ELSE IF w.headerTries >= RetryLimit THEN [w EXCEPT !.failed = TRUE]
  ELSE [w EXCEPT !.headerTries = @ + 1]

PollChunks(w, due) ==
  IF \E c \in due \cap InFlight(w) : w.tries[c] >= RetryLimit
    THEN [w EXCEPT !.failed = TRUE]
    ELSE [w EXCEPT !.tries = [c \in InFlight(w) \cup Fresh(w) |->
                                IF c \notin InFlight(w) THEN 0
                                ELSE IF c \in due THEN w.tries[c] + 1
                                ELSE w.tries[c]],
                   !.next = NextChunk(w)]

Poll(w, due) ==
  IF w.failed \/ Complete(w) THEN w
  ELSE IF w.headerReceived THEN PollChunks(w, due)
  ELSE PollHeader(w, due)

(* What poll asks to be sent.                                              *)
Sends(w, due) ==
  IF w.headerReceived THEN (due \cap InFlight(w)) \cup Fresh(w)
  ELSE IF ~w.headerSent \/ Header \in due THEN {Header} ELSE {}

Acknowledge(w, S) ==
  IF w.failed THEN w
  ELSE [w EXCEPT !.headerReceived = TRUE,
                 !.acked = @ \cup S,
                 !.tries = [c \in InFlight(w) \ S |-> w.tries[c]]]

-----------------------------------------------------------------------------
(* The sending loop.                                                       *)

Init ==
  /\ window = [r \in Recipient |-> NewWindow]
  /\ keys = Recipient
  /\ outcome = "running"
  /\ entry = [r \in Recipient |-> NoEntry]
  /\ part = [r \in Recipient |-> NoFile]
  /\ saved = [r \in Recipient |-> FALSE]
  /\ up = [r \in Recipient |-> {}]
  /\ down = [r \in Recipient |-> {}]
  /\ faults = 0
  /\ broken = FALSE

Waiting(w) ==
  IF w.headerReceived THEN InFlight(w)
  ELSE IF w.headerSent THEN {Header} ELSE {}

(* The items of r whose deadline may have passed.                          *)
Overdue(r) ==
  {i \in Waiting(window[r]) :
     Patient => /\ Frame(i) \notin up[r]
                /\ \A a \in down[r] : i # Header => i \notin a.got
                /\ i = Header => down[r] = {}}

Open == {r \in keys : ~Complete(window[r])}

(* The choices of overdue items, for every recipient that is polled.       *)
Deadlines == {d \in [Open -> SUBSET (Chunk \cup {Header})] :
                \A r \in Open : d[r] \subseteq Overdue(r)}

Polled(d) == [r \in Open |-> Poll(window[r], d[r])]
Failing(d) == {r \in Open : Polled(d)[r].failed}

(* send_file erases its windows from outgoing_transfers_ and returns.      *)
Finish(result) ==
  /\ outcome' = result
  /\ keys' = {}
  /\ window' = [r \in Recipient |-> NewWindow]

(* A round of the loop: recipients that are complete leave it, the others  *)
(* are polled and their frames sent.                                       *)
PollAll(d) ==
  /\ Failing(d) = {}
  /\ Open # {}
  /\ keys' = Open
  /\ window' = [r \in Recipient |->
                  IF r \in Open THEN Polled(d)[r] ELSE window[r]]
  /\ up' = [r \in Recipient |->
              IF r \in Open
                THEN up[r] \cup {Frame(i) : i \in Sends(window[r], d[r])}
                ELSE up[r]]
  /\ UNCHANGED <<outcome, receiver, down, faults, broken>>

(* Bug variant of AllComplete: the loop ends with the first recipient that *)
(* is done.                                                                *)
AnyComplete ==
  /\ \E r \in keys : Complete(window[r])
  /\ Finish("success")
  /\ UNCHANGED <<receiver, up, down, faults, broken>>

AllComplete ==
  /\ Open = {}
  /\ Finish("success")
  /\ UNCHANGED <<receiver, up, down, faults, broken>>

(* A window has failed: the loop breaks off at the first such recipient.   *)
(* transfer_keys is then the list of those polled before it, and they are  *)
(* the ones that are sent a CANCEL.                                        *)
PollFails(d) ==
  /\ Failing(d) # {}
  /\ Finish("failed")
  /\ up' = [r \in Recipient |->
              IF r \in Open /\ r < Min(Failing(d))
                THEN up[r] \cup {CancelFrame} ELSE up[r]]
  /\ UNCHANGED <<receiver, down, faults, broken>>

(* The file cannot be read for chunk c of recipient r: what precedes it in *)
(* the round has been sent, and everybody in transfer_keys is sent CANCEL. *)
ReadFails(d, r, c) ==
  /\ Failing(d) = {}
  /\ c \in Sends(window[r], d[r]) \ {Header}
  /\ broken' = TRUE
  /\ Finish("failed")
  /\ up' = [s \in Recipient |->
              IF s \notin Open THEN up[s]
              ELSE up[s] \cup {CancelFrame}
                     \cup {Frame(i) : i \in {j \in Sends(window[s], d[s]) :
                                               s < r \/ (s = r /\ j < c)}}]
  /\ UNCHANGED <<receiver, down, faults>>

(* The tunnel is stopped: running_ is false at the head of the loop.       *)
Stop ==
  /\ Finish("stopped")
  /\ up' = [r \in Recipient |->
              IF r \in keys THEN up[r] \cup {CancelFrame} ELSE up[r]]
  /\ UNCHANGED <<receiver, down, faults, broken>>

Round ==
  \/ \E d \in Deadlines : PollAll(d)
  \/ AllComplete
  \/ \E d \in Deadlines : PollFails(d)
  \/ \E d \in Deadlines, r \in Open, c \in Chunk : ReadFails(d, r, c)

SendFile == outcome = "running" /\ Round
StopSending == outcome = "running" /\ Stop

-----------------------------------------------------------------------------
(* The frames.  Not Patient, several copies of a frame may be on their way *)
(* and one stays when another arrives.                                     *)

Rest(frames, f) == {frames \ {f}} \cup (IF Patient THEN {} ELSE {frames})

HandleFileAck(r) ==
  \E a \in down[r] :
    /\ a.type = "ACK"
    /\ \E rest \in Rest(down[r], a) : down' = [down EXCEPT ![r] = rest]
    /\ window' = IF r \in keys
                   THEN [window EXCEPT ![r] = Acknowledge(@, a.got)]
                   ELSE window
    /\ UNCHANGED <<keys, outcome, receiver, up, faults, broken>>

(* A CANCEL at the sender fails the window.                                *)
HandleRefusal(r) ==
  /\ Refusal \in down[r]
  /\ down' = [down EXCEPT ![r] = @ \ {Refusal}]
  /\ window' = IF r \in keys THEN [window EXCEPT ![r].failed = TRUE] ELSE window
  /\ UNCHANGED <<keys, outcome, receiver, up, faults, broken>>

Fault == faults' = IF faults < MaxFaults THEN faults + 1 ELSE faults

Lose(r) ==
  /\ Fault
  /\ \/ \E f \in up[r] : up' = [up EXCEPT ![r] = @ \ {f}] /\ UNCHANGED down
     \/ \E a \in down[r] : down' = [down EXCEPT ![r] = @ \ {a}] /\ UNCHANGED up
  /\ UNCHANGED <<sender, receiver, broken>>

-----------------------------------------------------------------------------
(* The recipient.                                                          *)

Answer(r, a) == down' = [down EXCEPT ![r] = @ \cup {a}]

Take(r, f) == \E rest \in Rest(up[r], f) : up' = [up EXCEPT ![r] = rest]

(* Bug variant of HandleHeaderAgain: a header that is retried starts the   *)
(* transfer anew.                                                          *)
HandleHeaderAgainResets(r) ==
  /\ entry[r] # NoEntry
  /\ entry' = [entry EXCEPT ![r] = [got |-> {}, contiguous |-> 0, done |-> FALSE]]
  /\ part' = [part EXCEPT ![r] = {}]
  /\ Answer(r, Ack({}))
  /\ UNCHANGED <<saved, faults, broken>>

(* The transfer is known: its received ranges are reported.                *)
HandleHeaderAgain(r) ==
  /\ entry[r] # NoEntry
  /\ Answer(r, Ack(FirstRuns(entry[r])))
  /\ UNCHANGED <<receiver, faults, broken>>

(* A new transfer: the .part file is truncated, the tracker reset.         *)
HandleHeaderNew(r) ==
  /\ entry[r] = NoEntry
  /\ entry' = [entry EXCEPT ![r] = [got |-> {}, contiguous |-> 0, done |-> FALSE]]
  /\ part' = [part EXCEPT ![r] = {}]
  /\ Answer(r, Ack({}))
  /\ UNCHANGED <<saved, faults, broken>>

(* file_transfer_admission_allowed refuses: the other transfers of the     *)
(* recipient, which are not modelled, have used up its limits.             *)
HandleHeaderRefused(r) ==
  /\ entry[r] = NoEntry
  /\ broken' = TRUE
  /\ Answer(r, Refusal)
  /\ UNCHANGED <<receiver, faults>>

(* The .part file cannot be opened.                                        *)
HandleHeaderFails(r) ==
  /\ entry[r] = NoEntry
  /\ Fault
  /\ UNCHANGED <<receiver, down, broken>>

HandleFileHeader(r) ==
  /\ HeaderFrame \in up[r]
  /\ Take(r, HeaderFrame)
  /\ UNCHANGED sender
  /\ \/ HandleHeaderAgain(r)
     \/ HandleHeaderNew(r)
     \/ HandleHeaderRefused(r)
     \/ HandleHeaderFails(r)

(* No such transfer, or the .part file has gone: no answer.                *)
ChunkDropped(r, c) ==
  /\ entry[r] = NoEntry \/ (c \notin entry[r].got /\ part[r] = NoFile)
  /\ UNCHANGED <<receiver, down, faults, broken>>

ChunkDuplicate(r, c) ==
  /\ entry[r] # NoEntry /\ c \in entry[r].got
  /\ Answer(r, Ack(FocusRuns(entry[r], c)))
  /\ UNCHANGED <<receiver, faults, broken>>

Writable(r, c) == entry[r] # NoEntry /\ c \notin entry[r].got /\ part[r] # NoFile

(* The write fails: no answer.                                             *)
ChunkNotWritten(r, c) ==
  /\ Writable(r, c)
  /\ Fault
  /\ UNCHANGED <<receiver, down, broken>>

(* The .part file after the write of chunk c.  The stream is tested before *)
(* it is closed: a write that only fails then goes unnoticed.              *)
Written(r, c) ==
  {(part[r] \ {Lost(c)}) \cup {c}}
    \cup (IF r \in Flaky THEN {(part[r] \ {c}) \cup {Lost(c)}} ELSE {})

Notice(p, c) == broken' = (broken \/ Lost(c) \in p)

ChunkWritten(r, c) ==
  LET e == Record(entry[r], c)
  IN \E p \in Written(r, c) :
     /\ Writable(r, c)
     /\ e.got # Chunk
     /\ entry' = [entry EXCEPT ![r] = e]
     /\ part' = [part EXCEPT ![r] = p]
     /\ Notice(p, c)
     /\ Answer(r, Ack(FocusRuns(e, c)))
     /\ UNCHANGED <<saved, faults>>

(* The last chunk, and verify_and_commit_file publishes the file.          *)
ChunkCommits(r, c) ==
  LET e == Record(entry[r], c)
  IN /\ Writable(r, c)
     /\ e.got = Chunk
     /\ Chunk \in Written(r, c)
     /\ entry' = [entry EXCEPT ![r] = [e EXCEPT !.done = TRUE]]
     /\ part' = [part EXCEPT ![r] = NoFile]
     /\ saved' = [saved EXCEPT ![r] = TRUE]
     /\ Answer(r, Ack(FocusRuns(e, c)))
     /\ UNCHANGED <<faults, broken>>

(* The last chunk, and the file is not published: the size or the digest   *)
(* is wrong, or an operation on the files failed.                          *)
ChunkNotCommitted(r, c) ==
  LET e == Remove(Record(entry[r], c), c)
  IN \E p \in Written(r, c) :
     /\ Writable(r, c)
     /\ entry[r].got \cup {c} = Chunk
     /\ IF p = Chunk THEN Fault ELSE UNCHANGED faults
     /\ entry' = [entry EXCEPT ![r] = e]
     /\ part' = [part EXCEPT ![r] = p]
     /\ Notice(p, c)
     /\ Answer(r, Ack(FocusRuns(e, c)))
     /\ UNCHANGED saved

HandleFileChunk(r) ==
  \E c \in Chunk :
    /\ ChunkFrame(c) \in up[r]
    /\ Take(r, ChunkFrame(c))
    /\ UNCHANGED sender
    /\ \/ ChunkDropped(r, c)
       \/ ChunkDuplicate(r, c)
       \/ ChunkNotWritten(r, c)
       \/ ChunkWritten(r, c)
       \/ ChunkCommits(r, c)
       \/ ChunkNotCommitted(r, c)

(* The transfer is dropped, and its .part file unless it was published.    *)
Discard(r) ==
  /\ entry' = [entry EXCEPT ![r] = NoEntry]
  /\ part' = IF entry[r] # NoEntry /\ ~entry[r].done
               THEN [part EXCEPT ![r] = NoFile] ELSE part
  /\ UNCHANGED saved

HandleFileCancel(r) ==
  /\ CancelFrame \in up[r]
  /\ up' = [up EXCEPT ![r] = @ \ {CancelFrame}]
  /\ Discard(r)
  /\ UNCHANGED <<sender, down, faults, broken>>

(* Bug variant of Expire: only published transfers are dropped.            *)
ExpireDone(r) ==
  /\ entry[r] # NoEntry /\ entry[r].done
  /\ r \notin keys /\ up[r] = {}
  /\ Discard(r)
  /\ UNCHANGED <<sender, up, down, faults, broken>>

(* Five minutes without a frame: the retransmissions of a recipient that   *)
(* is still served come at most two seconds apart, and a frame is not      *)
(* under way for minutes.                                                  *)
Expire(r) ==
  /\ entry[r] # NoEntry
  /\ r \notin keys /\ up[r] = {}
  /\ Discard(r)
  /\ IF entry[r].done THEN UNCHANGED down ELSE Answer(r, Refusal)
  /\ UNCHANGED <<sender, up, faults, broken>>

Next ==
  \/ SendFile
  \/ StopSending
  \/ \E r \in Recipient :
       \/ HandleFileAck(r)
       \/ HandleRefusal(r)
       \/ Lose(r)
       \/ HandleFileHeader(r)
       \/ HandleFileChunk(r)
       \/ HandleFileCancel(r)
       \/ Expire(r)

Spec == Init /\ [][Next]_vars

(* The loop of send_file wakes up at least every 25 ms, a frame arrives or *)
(* is lost, and maintenance_loop looks for idle transfers every second.    *)
Fairness ==
  /\ WF_vars(SendFile)
  /\ \A r \in Recipient :
       /\ WF_vars(HandleFileAck(r)) /\ WF_vars(HandleRefusal(r))
       /\ WF_vars(HandleFileHeader(r)) /\ WF_vars(HandleFileChunk(r))
       /\ WF_vars(HandleFileCancel(r)) /\ WF_vars(Expire(r))

FairSpec == Spec /\ Fairness

-----------------------------------------------------------------------------
(* Properties.                                                             *)

WindowState ==
  [headerSent : BOOLEAN, headerReceived : BOOLEAN, headerTries : 0..RetryLimit,
   next : 0..Total, tries : UNION {[S -> 0..RetryLimit] : S \in SUBSET Chunk},
   acked : SUBSET Chunk, failed : BOOLEAN]

Entry == [got : SUBSET Chunk, contiguous : -1..Total, done : BOOLEAN]
Covers(p, S) == \A c \in S : c \in p \/ Lost(c) \in p
PartItem == Chunk \cup {Lost(c) : c \in Chunk}
UpFrame == {Frame(i) : i \in Chunk \cup {Header}} \cup {CancelFrame}
DownFrame == {Ack(S) : S \in SUBSET Chunk} \cup {Refusal}

(* The type invariant: no retransmission count passes the retry limit.     *)
TypeOK ==
  /\ window \in [Recipient -> WindowState]
  /\ keys \subseteq Recipient
  /\ outcome \in {"running", "success", "failed", "stopped"}
  /\ entry \in [Recipient -> Entry]
  /\ part \in [Recipient -> (SUBSET PartItem) \cup {NoFile}]
  /\ saved \in [Recipient -> BOOLEAN]
  /\ up \in [Recipient -> SUBSET UpFrame]
  /\ down \in [Recipient -> SUBSET DownFrame]
  /\ faults \in 0..MaxFaults
  /\ broken \in BOOLEAN

(* send_file says "acknowledged by all peers" only when every recipient    *)
(* has verified the file and given it its final name.                      *)
SuccessMeansSaved == outcome = "success" => \A r \in Recipient : saved[r]

(* The recipient never loses a chunk the sender counts as acknowledged or  *)
(* is about to: while the sender serves a recipient, acknowledge() marks   *)
(* only what the tracker still holds, through retried headers, failed      *)
(* writes and a failed verify_and_commit_file that takes a chunk back.     *)
AckedStaysReceived ==
  \A r \in keys :
    /\ window[r].acked \subseteq entry[r].got
    /\ \A a \in down[r] : a.got \subseteq entry[r].got

(* The chunks in flight are exactly those below next_chunk_ that are not   *)
(* acknowledged, and never more than the window: no chunk is forgotten     *)
(* between the two, which would leave the loop of send_file without end.   *)
WindowExact ==
  \A r \in Recipient :
    /\ InFlight(window[r]) = {c \in 0..window[r].next - 1 : c \notin window[r].acked}
    /\ Cardinality(InFlight(window[r])) <= Window

(* The cached contiguous_received_ is the length of the received prefix,   *)
(* after every record and every remove.                                    *)
PrefixExact ==
  \A r \in Recipient :
    entry[r] # NoEntry => entry[r].contiguous = Extend(entry[r].got, 0)

(* A transfer that is not complete has its .part file, and every chunk     *)
(* that the tracker counts as received was written to it, those lost when  *)
(* the stream was closed included.                                         *)
PartHoldsReceived ==
  \A r \in Recipient :
    entry[r] # NoEntry /\ ~entry[r].done =>
      part[r] # NoFile /\ Covers(part[r], entry[r].got)

(* The three books of a transfer agree: what the sender counts as          *)
(* acknowledged the tracker holds, what the tracker holds is in the .part  *)
(* file, and window and tracker are each exact.                            *)
BooksAgree ==
  TypeOK /\ AckedStaysReceived /\ WindowExact /\ PrefixExact /\ PartHoldsReceived

(* As long as no more frames are lost and no more disk operations fail     *)
(* than there are retries, nobody refuses, the file can be read and no     *)
(* write is lost unnoticed, send_file does not fail.                       *)
RetriesSuffice == outcome = "failed" => broken \/ faults > RetryLimit

(* send_file comes to an end for good, whatever is lost.                   *)
Terminates == <>[](outcome # "running")

(* No .part file stays behind for good, neither when the transfer fails    *)
(* nor when a header that was under way recreates it after the CANCEL.     *)
NoPartLeft == <>[](\A r \in Recipient : part[r] = NoFile)

(* When send_file gives up, every recipient that has neither acknowledged  *)
(* the whole file nor refused it is sent a CANCEL.  Does not hold: see     *)
(* README, "Where code and text differ".                                   *)
FailureCancels ==
  [][outcome = "running" /\ outcome' = "failed" =>
       \A r \in Open : window[r].failed \/ CancelFrame \in up'[r]]_vars
=============================================================================
