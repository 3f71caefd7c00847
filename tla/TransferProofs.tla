--------------------------- MODULE TransferProofs ---------------------------
(***************************************************************************)
(* The safety properties of FileTransfer for every number of recipients    *)
(* and chunks, every window, retry limit and number of ranges.             *)
(***************************************************************************)
EXTENDS FileTransfer, FiniteSetTheorems, WellFoundedInduction, TLAPS

(* Most leaves are steps of logic and sets, for Zenon; those that need     *)
(* arithmetic, or more of functions and records, name SMT.                 *)
USE Zenon

-----------------------------------------------------------------------------
(* FileTransfer.                                                           *)

(* The constants, spelled out.                                             *)
LEMMA Constants ==
  /\ Recipients \in Nat /\ Recipients > 0 /\ Total \in Nat /\ Total > 0
  /\ Window \in Nat /\ Window > 0 /\ RetryLimit \in Nat /\ RetryLimit > 0
  /\ MaxRanges \in Nat /\ Patient \in BOOLEAN
BY FileAssumption, SMT

(* Min of a set of naturals that is not empty is its least element.        *)
LEMMA MinNat ==
  ASSUME NEW S, S \subseteq Nat, S # {}
  PROVE  Min(S) \in S /\ \A y \in S : Min(S) <= y
<1>1. PICK x \in S : \A y \in S : ~(<<y, x>> \in OpToRel(<, Nat))
  <2>1. IsWellFoundedOn(OpToRel(<, Nat), Nat)
    BY NatLessThanWellFounded
  <2> QED
    BY <2>1, WFMin
<1>2. ASSUME NEW y \in S PROVE x <= y
  <2>1. y < x => <<y, x>> \in OpToRel(<, Nat)
    BY DEF OpToRel
  <2>2. ~(y < x)
    BY <1>1, <2>1
  <2> QED
    BY <2>2, x \in Nat, y \in Nat, SMT
<1> QED
  BY <1>2 DEF Min

(* Extend returns a prefix: what lies below it and above from is in got.   *)
LEMMA ExtendPrefix ==
  ASSUME NEW got \in SUBSET Chunk, NEW from \in 0..Total,
         0..from - 1 \subseteq got
  PROVE  /\ Extend(got, from) \in from..Total
         /\ 0..Extend(got, from) - 1 \subseteq got
         /\ Extend(got, from) \notin got
<1> DEFINE S == {n \in from..Total : n \notin got}
<1>1. Total \in S /\ S \subseteq Nat
  BY Constants, SMT DEF Chunk
<1>2. Min(S) \in S /\ \A y \in S : Min(S) <= y
  BY <1>1, MinNat
<1>3. Extend(got, from) = Min(S)
  BY DEF Extend
<1>4. ASSUME NEW i \in 0..Min(S) - 1 PROVE i \in got
  <2>1. i < Min(S) /\ i \in Nat /\ Min(S) \in from..Total
    BY <1>2, SMT
  <2>2. CASE i < from
    BY <2>1, <2>2, Constants, SMT
  <2>3. CASE i >= from
    <3>1. i \in from..Total
      BY <2>1, <2>3, Constants, SMT
    <3>2. i \notin S
      BY <2>1, <1>2, SMT
    <3> QED
      BY <3>1, <3>2
  <2> QED
    BY <2>1, <2>2, <2>3, Constants, SMT
<1> QED
  BY <1>2, <1>3, <1>4

(* Unsent chunks below n; fill counts them.                                *)
Below(w, n) == {c \in Unsent(w) : c < n}

(* One window of WindowExact.                                              *)
Exact(w) ==
  /\ InFlight(w) = {c \in 0..w.next - 1 : c \notin w.acked}
  /\ Cardinality(InFlight(w)) <= Window

(* The sets of chunks are finite.                                          *)
LEMMA Finite ==
  ASSUME NEW w \in WindowState
  PROVE  /\ IsFiniteSet(Chunk)
         /\ \A S \in SUBSET Chunk : IsFiniteSet(S) /\ Cardinality(S) \in Nat
         /\ InFlight(w) \in SUBSET Chunk
         /\ Unsent(w) \in SUBSET Chunk
         /\ \A n : Below(w, n) \in SUBSET Chunk
<1>1. IsFiniteSet(Chunk)
  BY FS_Interval, Constants, SMT DEF Chunk
<1>2. \A S \in SUBSET Chunk : IsFiniteSet(S) /\ Cardinality(S) \in Nat
  BY <1>1, FS_Subset, FS_CardinalityType
<1>3. InFlight(w) \in SUBSET Chunk
  BY DEF InFlight, WindowState
<1>4. Unsent(w) \in SUBSET Chunk
  BY Constants, SMT DEF Unsent, WindowState, Chunk
<1> QED
  BY <1>1, <1>2, <1>3, <1>4 DEF Below

(* poll() stops filling at a chunk between next_chunk_ and the end, and    *)
(* with no more chunks than there is room for.                             *)
LEMMA FillBound ==
  ASSUME NEW w \in WindowState, Exact(w)
  PROVE  /\ NextChunk(w) \in w.next..Total
         /\ Cardinality(Fresh(w)) <= Room(w)
<1> DEFINE C(n) == Cardinality(Below(w, n))
           K == {n \in w.next..Total : n = Total \/ C(n) = Room(w)}
<1>1. w.next \in 0..Total
  BY DEF WindowState
<1>2. Total \in K /\ K \subseteq Nat
  BY <1>1, Constants, SMT
<1>3. Min(K) \in K /\ \A y \in K : Min(K) <= y
  BY <1>2, MinNat
<1>4. NextChunk(w) = Min(K) /\ Fresh(w) = Below(w, Min(K))
  BY DEF NextChunk, Fresh, Below
<1>5. \A n : C(n) \in Nat
  BY Finite
<1>6. Room(w) \in Nat
  BY Finite, Constants, SMT DEF Exact, Room
<1>7. C(Min(K)) <= Room(w)
  <2> SUFFICES ASSUME C(Min(K)) > Room(w) PROVE FALSE
    BY <1>5, <1>6, SMT
  <2> DEFINE B == {n \in w.next..Total : C(n) > Room(w)}
  <2>1. Min(K) = Total /\ \A n \in w.next..Total : C(n) # Room(w)
    <3>1. Min(K) = Total
      BY <1>3, <1>5, <1>6, SMT
    <3>2. ASSUME NEW n \in w.next..Total, C(n) = Room(w) PROVE FALSE
      <4>1. n \in K
        BY <3>2
      <4>2. n = Total
        BY <4>1, <3>1, <1>1, <1>3, Constants, SMT
      <4> QED
        BY <4>2, <3>1, <3>2, <1>5, <1>6, SMT
    <3> QED
      BY <3>1, <3>2
  <2>2. Total \in B /\ B \subseteq Nat
    BY <2>1, <1>1, Constants, SMT
  <2> DEFINE m == Min(B)
  <2>3. m \in B /\ \A y \in B : m <= y
    BY <2>2, MinNat
  <2>4. C(w.next) = 0
    <3>1. Below(w, w.next) = {}
      BY <1>1, Constants, SMT DEF Below, Unsent
    <3> QED
      BY <3>1, FS_EmptySet
  <2>5. m # w.next
    BY <2>3, <2>4, <1>6, SMT
  <2>6. m - 1 \in w.next..Total /\ m - 1 \notin B
    BY <2>3, <2>5, <1>1, Constants, SMT
  <2>7. C(m - 1) < Room(w)
    BY <2>6, <2>1, <1>5, <1>6, SMT
  <2>8. Below(w, m) \subseteq Below(w, m - 1) \cup {m - 1}
    <3>1. m \in Nat
      BY <2>2, <2>3
    <3>2. ASSUME NEW c \in Unsent(w), c < m PROVE c < m - 1 \/ c = m - 1
      BY <3>1, <3>2, <1>1, Constants, SMT DEF Unsent
    <3> HIDE DEF m
    <3> QED
      BY <3>2 DEF Below
  <2>9. C(m) <= C(m - 1) + 1
    <3>1. IsFiniteSet(Below(w, m - 1))
      BY Finite
    <3>2. /\ IsFiniteSet(Below(w, m - 1) \cup {m - 1})
          /\ Cardinality(Below(w, m - 1) \cup {m - 1}) <= C(m - 1) + 1
      <4> HIDE DEF m
      <4>1. /\ IsFiniteSet(Below(w, m - 1) \cup {m - 1})
            /\ \/ Cardinality(Below(w, m - 1) \cup {m - 1}) = C(m - 1)
               \/ Cardinality(Below(w, m - 1) \cup {m - 1}) = C(m - 1) + 1
        BY <3>1, FS_AddElement
      <4> QED
        BY <4>1, <1>5, SMT
    <3>3. Cardinality(Below(w, m)) <= Cardinality(Below(w, m - 1) \cup {m - 1})
      BY <3>2, <2>8, FS_Subset
    <3>4. Cardinality(Below(w, m - 1) \cup {m - 1}) \in Nat
      BY <3>2, FS_CardinalityType
    <3> QED
      BY <3>2, <3>3, <3>4, <1>5, SMT
  <2> QED
    BY <2>3, <2>7, <2>9, <1>5, <1>6, SMT
<1> QED
  BY <1>3, <1>4, <1>7

(* poll() keeps the window a window, exact, and its acknowledgements.      *)
LEMMA PollInv ==
  ASSUME NEW w \in WindowState, Exact(w), NEW due
  PROVE  /\ Poll(w, due) \in WindowState
         /\ Exact(Poll(w, due))
         /\ Poll(w, due).acked = w.acked
<1> DEFINE p == Poll(w, due)
<1>0. /\ w.tries \in [InFlight(w) -> 0..RetryLimit]
      /\ InFlight(w) \subseteq Chunk
  BY DEF WindowState, InFlight
<1>1. ASSUME p.tries = w.tries, p.next = w.next, p.acked = w.acked
      PROVE  Exact(p)
  BY <1>1 DEF Exact, InFlight
<1>2. CASE w.failed \/ Complete(w)
  BY <1>2, <1>1 DEF Poll
<1>3. CASE ~(w.failed \/ Complete(w)) /\ ~w.headerReceived
  <2>1. p = PollHeader(w, due)
    BY <1>3 DEF Poll, WindowState
  <2>2. p \in WindowState /\ p.tries = w.tries /\ p.next = w.next /\ p.acked = w.acked
    <3>1. CASE p = w
      BY <3>1
    <3>2. CASE p = [w EXCEPT !.headerSent = TRUE]
      BY <3>2 DEF WindowState
    <3>3. CASE p = [w EXCEPT !.failed = TRUE]
      BY <3>3 DEF WindowState
    <3>4. CASE w.headerTries < RetryLimit /\ p = [w EXCEPT !.headerTries = @ + 1]
      <4>1. w.headerTries + 1 \in 0..RetryLimit
        BY <3>4, Constants, SMT DEF WindowState
      <4> QED
        BY <3>4, <4>1 DEF WindowState
    <3>5. w.headerTries \in 0..RetryLimit
      BY DEF WindowState
    <3> QED
      BY <2>1, <3>1, <3>2, <3>3, <3>4, <3>5, Constants, SMT DEF PollHeader
  <2> QED
    BY <2>2, <1>1
<1>4. CASE ~(w.failed \/ Complete(w)) /\ w.headerReceived
  <2> DEFINE t == [c \in InFlight(w) \cup Fresh(w) |->
                     IF c \notin InFlight(w) THEN 0
                     ELSE IF c \in due THEN w.tries[c] + 1
                     ELSE w.tries[c]]
  <2>1. p = PollChunks(w, due)
    BY <1>4 DEF Poll
  <2>2. CASE \E c \in due \cap InFlight(w) : w.tries[c] >= RetryLimit
    <3>1. p = [w EXCEPT !.failed = TRUE]
      BY <2>1, <2>2 DEF PollChunks
    <3> QED
      BY <3>1, <1>1 DEF WindowState
  <2>3. CASE ~ \E c \in due \cap InFlight(w) : w.tries[c] >= RetryLimit
    <3>1. p = [w EXCEPT !.tries = t, !.next = NextChunk(w)]
      BY <2>1, <2>3 DEF PollChunks
    <3>2. NextChunk(w) \in w.next..Total /\ Cardinality(Fresh(w)) <= Room(w)
      BY FillBound
    <3>3. Fresh(w) \in SUBSET Chunk
      BY Finite DEF Fresh
    <3>4. t \in [InFlight(w) \cup Fresh(w) -> 0..RetryLimit]
      BY <1>0, <2>3, Constants, SMT
    <3>5. t \in UNION {[S -> 0..RetryLimit] : S \in SUBSET Chunk}
      BY <3>4, <3>3, <1>0
    <3>6. NextChunk(w) \in 0..Total
      BY <3>2, Constants, SMT DEF WindowState
    <3>7. p \in WindowState
      BY <3>1, <3>5, <3>6 DEF WindowState
    <3>8. /\ p.tries = t /\ p.next = NextChunk(w) /\ p.acked = w.acked
          /\ InFlight(p) = InFlight(w) \cup Fresh(w)
      BY <3>1, <3>4 DEF WindowState, InFlight
    <3>9. InFlight(p) = {c \in 0..p.next - 1 : c \notin p.acked}
      <4>1. InFlight(w) = {c \in 0..w.next - 1 : c \notin w.acked}
        BY DEF Exact
      <4>2. Fresh(w) = {c \in w.next..NextChunk(w) - 1 : c \notin w.acked}
        BY <3>2, <3>6, Constants, SMT DEF Fresh, Unsent, WindowState
      <4>3. w.next \in 0..Total
        BY DEF WindowState
      <4> QED
        BY <4>1, <4>2, <4>3, <3>2, <3>8, Constants, SMT
    <3>10. Cardinality(InFlight(p)) <= Window
      <4>1. /\ IsFiniteSet(InFlight(w)) /\ IsFiniteSet(Fresh(w))
            /\ Cardinality(InFlight(w)) \in Nat /\ Cardinality(Fresh(w)) \in Nat
            /\ Cardinality(InFlight(w) \cap Fresh(w)) \in Nat
        BY Finite, <3>3
      <4>2. Cardinality(InFlight(w) \cup Fresh(w)) =
              Cardinality(InFlight(w)) + Cardinality(Fresh(w))
                - Cardinality(InFlight(w) \cap Fresh(w))
        BY <4>1, FS_Union
      <4> QED
        BY <4>1, <4>2, <3>2, <3>8, Constants, SMT DEF Room
    <3> QED
      BY <3>7, <3>8, <3>9, <3>10 DEF Exact
  <2> QED
    BY <2>2, <2>3
<1> QED
  BY <1>2, <1>3, <1>4

(* acknowledge() keeps the window a window, and exact.                     *)
LEMMA AcknowledgeInv ==
  ASSUME NEW w \in WindowState, Exact(w), NEW S \in SUBSET Chunk
  PROVE  /\ Acknowledge(w, S) \in WindowState
         /\ Exact(Acknowledge(w, S))
         /\ Acknowledge(w, S).acked \subseteq w.acked \cup S
<1> DEFINE a == Acknowledge(w, S)
           t == [c \in InFlight(w) \ S |-> w.tries[c]]
<1>1. CASE w.failed
  BY <1>1 DEF Acknowledge
<1>2. CASE ~w.failed
  <2>1. a = [w EXCEPT !.headerReceived = TRUE, !.acked = @ \cup S, !.tries = t]
    BY <1>2 DEF Acknowledge
  <2>2. w.tries \in [InFlight(w) -> 0..RetryLimit] /\ InFlight(w) \subseteq Chunk
    BY DEF WindowState, InFlight
  <2>3. t \in [InFlight(w) \ S -> 0..RetryLimit]
    BY <2>2
  <2>4. t \in UNION {[R -> 0..RetryLimit] : R \in SUBSET Chunk}
    BY <2>2, <2>3
  <2>5. a \in WindowState
    BY <2>1, <2>4 DEF WindowState
  <2>6. /\ a.acked = w.acked \cup S /\ a.next = w.next
        /\ InFlight(a) = InFlight(w) \ S
    BY <2>1, <2>3 DEF WindowState, InFlight
  <2>7. InFlight(a) = {c \in 0..a.next - 1 : c \notin a.acked}
    BY <2>6 DEF Exact
  <2>8. Cardinality(InFlight(a)) <= Window
    <3>1. IsFiniteSet(InFlight(w)) /\ Cardinality(InFlight(w)) \in Nat
      BY Finite
    <3>2. Cardinality(InFlight(a)) <= Cardinality(InFlight(w))
      BY <3>1, <2>6, FS_Subset
    <3>3. Cardinality(InFlight(a)) \in Nat
      BY <2>5, Finite
    <3> QED
      BY <3>1, <3>2, <3>3, Constants, SMT DEF Exact
  <2> QED
    BY <2>5, <2>6, <2>7, <2>8 DEF Exact
<1> QED
  BY <1>1, <1>2

-----------------------------------------------------------------------------
(* The recipient's tracker.                                                *)

(* The cached prefix is received, and the chunk after it is not.           *)
PrefixHeld(e) ==
  /\ 0..e.contiguous - 1 \subseteq e.got
  /\ e # NoEntry => e.contiguous >= 0 /\ e.contiguous \notin e.got

(* record() adds the chunk and keeps the prefix.                           *)
LEMMA RecordInv ==
  ASSUME NEW e \in Entry, e # NoEntry, PrefixHeld(e), NEW c \in Chunk
  PROVE  /\ Record(e, c) \in Entry /\ PrefixHeld(Record(e, c))
         /\ Record(e, c).got = e.got \cup {c}
         /\ Record(e, c).done = e.done
         /\ Record(e, c) # NoEntry
<1> DEFINE n == Extend(e.got \cup {c}, e.contiguous)
<1>1. e.got \cup {c} \in SUBSET Chunk /\ e.contiguous \in 0..Total
  BY Constants, SMT DEF Entry, PrefixHeld
<1>2. n \in e.contiguous..Total /\ 0..n - 1 \subseteq e.got \cup {c} /\ n \notin e.got \cup {c}
  BY <1>1, ExtendPrefix DEF PrefixHeld
<1>3. n \in 0..Total
  BY <1>1, <1>2, Constants, SMT
<1> HIDE DEF n
<1>4. Record(e, c) = [e EXCEPT !.got = e.got \cup {c}, !.contiguous = n]
  BY DEF Record, n, Entry
<1>5. /\ Record(e, c) \in Entry /\ Record(e, c).got = e.got \cup {c}
      /\ Record(e, c).contiguous = n /\ Record(e, c).done = e.done
  <2>1. n \in -1..Total
    BY <1>3, Constants, SMT
  <2> QED
    BY <1>1, <1>4, <2>1 DEF Entry
<1>6. Record(e, c) # NoEntry
  BY <1>3, <1>5, SMT DEF NoEntry
<1> QED
  BY <1>2, <1>3, <1>5, <1>6, SMT DEF PrefixHeld

(* remove() takes the chunk back and keeps the prefix.                     *)
LEMMA RemoveInv ==
  ASSUME NEW e \in Entry, e # NoEntry, PrefixHeld(e), NEW c \in Chunk
  PROVE  /\ Remove(e, c) \in Entry /\ PrefixHeld(Remove(e, c))
         /\ Remove(e, c).got = e.got \ {c}
         /\ Remove(e, c).done = e.done
         /\ Remove(e, c) # NoEntry
<1> DEFINE n == IF c < e.contiguous THEN Extend(e.got \ {c}, 0) ELSE e.contiguous
<1>1. e.got \ {c} \in SUBSET Chunk /\ e.contiguous \in 0..Total /\ c \in Nat
  BY Constants, SMT DEF Entry, PrefixHeld, Chunk
<1>2. n \in 0..Total /\ 0..n - 1 \subseteq e.got \ {c} /\ n \notin e.got \ {c}
  <2>1. CASE c < e.contiguous
    <3>1. 0 \in 0..Total /\ 0..0 - 1 \subseteq e.got \ {c}
      BY Constants, SMT
    <3>2. LET x == Extend(e.got \ {c}, 0)
          IN x \in 0..Total /\ 0..x - 1 \subseteq e.got \ {c} /\ x \notin e.got \ {c}
      BY <3>1, <1>1, ExtendPrefix
    <3> QED
      BY <3>2, <2>1
  <2>2. CASE ~(c < e.contiguous)
    BY <2>2, <1>1, SMT DEF PrefixHeld
  <2> QED
    BY <2>1, <2>2
<1> HIDE DEF n
<1>4. Remove(e, c) = [e EXCEPT !.got = e.got \ {c}, !.contiguous = n]
  BY DEF Remove, n, Entry
<1>5. /\ Remove(e, c) \in Entry /\ Remove(e, c).got = e.got \ {c}
      /\ Remove(e, c).contiguous = n /\ Remove(e, c).done = e.done
  <2>1. n \in -1..Total
    BY <1>2, Constants, SMT
  <2> QED
    BY <1>1, <1>4, <2>1 DEF Entry
<1>6. Remove(e, c) # NoEntry
  BY <1>2, <1>5, SMT DEF NoEntry
<1> QED
  BY <1>2, <1>5, <1>6, SMT DEF PrefixHeld

(* An acknowledgement reports received chunks only.                        *)
LEMMA RunsReceived ==
  ASSUME NEW e \in Entry, PrefixHeld(e), NEW c
  PROVE  FirstRuns(e) \subseteq e.got /\ FocusRuns(e, c) \subseteq e.got
BY DEF FirstRuns, FocusRuns, RunAround, PrefixHeld

-----------------------------------------------------------------------------
(* The inductive invariant.                                                *)

(* The tracker of every recipient has its prefix right.                    *)
Prefixes == \A r \in Recipient : PrefixHeld(entry[r])

(* No CANCEL is on its way to a recipient that is served.                  *)
ServedUncancelled == \A r \in keys : CancelFrame \notin up[r]

(* Who has all chunks has published the file.                              *)
AllGotSaved == \A r \in Recipient : entry[r].got = Chunk => saved[r]

(* A recipient leaves the loop of send_file when it has published.         *)
LeftSaved ==
  /\ outcome \in {"running", "success"} => \A r \in Recipient \ keys : saved[r]
  /\ outcome # "running" => keys = {}

IInv ==
  /\ TypeOK
  /\ WindowExact
  /\ Prefixes
  /\ AckedStaysReceived
  /\ PartHoldsReceived
  /\ ServedUncancelled
  /\ AllGotSaved
  /\ LeftSaved

(* A window just reset.                                                    *)
LEMMA NewWindowInv ==
  NewWindow \in WindowState /\ Exact(NewWindow) /\ NewWindow.acked = {}
<1> DEFINE t == [c \in {} |-> 0]
<1>1. t \in [{} -> 0..RetryLimit]
  OBVIOUS
<1>2. t \in UNION {[S -> 0..RetryLimit] : S \in SUBSET Chunk}
  BY <1>1
<1>3. NewWindow \in WindowState
  BY <1>2, Constants, SMT DEF NewWindow, WindowState
<1>4. InFlight(NewWindow) = {} /\ NewWindow.next = 0 /\ NewWindow.acked = {}
  BY DEF NewWindow, InFlight
<1>5. Cardinality({}) = 0
  BY FS_EmptySet
<1> QED
  BY <1>3, <1>4, <1>5, Constants, SMT DEF Exact

(* The initial states.                                                     *)
LEMMA InitIInv == Init => IInv
<1> SUFFICES ASSUME Init PROVE IInv
  OBVIOUS
<1>1. Chunk # {} /\ Header \notin Chunk
  BY Constants, SMT DEF Chunk, Header
<1>2. NoEntry \in Entry /\ PrefixHeld(NoEntry) /\ NoEntry.got = {}
  BY Constants, SMT DEF Entry, NoEntry, PrefixHeld
<1>3. TypeOK
  <2>1. window \in [Recipient -> WindowState]
    BY NewWindowInv DEF Init
  <2>2. entry \in [Recipient -> Entry]
    BY <1>2 DEF Init
  <2>3. faults \in 0..MaxFaults
    BY Constants, SMT DEF Init, MaxFaults
  <2> QED
    BY <2>1, <2>2, <2>3 DEF Init, TypeOK
<1>4. WindowExact
  BY NewWindowInv DEF Init, WindowExact, Exact
<1>5. AckedStaysReceived
  BY <1>2, NewWindowInv DEF Init, AckedStaysReceived
<1> QED
  BY <1>1, <1>2, <1>3, <1>4, <1>5
     DEF Init, IInv, Prefixes, PartHoldsReceived, ServedUncancelled,
         AllGotSaved, LeftSaved

-----------------------------------------------------------------------------
(* The steps of the sender.                                                *)

(* send_file returns: no window is left, and success needs that everybody  *)
(* has published.                                                          *)
LEMMA FinishInv ==
  ASSUME IInv, NEW result \in {"success", "failed", "stopped"}, Finish(result),
         result = "success" => \A r \in Recipient : saved[r],
         UNCHANGED <<receiver, down, faults>>,
         up' \in [Recipient -> SUBSET UpFrame], broken' \in BOOLEAN
  PROVE  IInv'
<1> USE DEF IInv, Finish, receiver
<1>1. TypeOK'
  <2>1. window' \in [Recipient -> WindowState]
    BY NewWindowInv
  <2> QED
    BY <2>1 DEF TypeOK, MaxFaults
<1>2. WindowExact'
  BY NewWindowInv DEF WindowExact, Exact, InFlight
<1>3. Prefixes' /\ PartHoldsReceived' /\ AllGotSaved'
  BY DEF Prefixes, PartHoldsReceived, AllGotSaved
<1>4. AckedStaysReceived' /\ ServedUncancelled' /\ LeftSaved'
  BY DEF AckedStaysReceived, ServedUncancelled, LeftSaved
<1> QED
  BY <1>1, <1>2, <1>3, <1>4

(* The frames of a round are frames to a recipient.                        *)
LEMMA SendsFrames ==
  ASSUME TypeOK, NEW r \in Recipient, NEW due
  PROVE  {Frame(i) : i \in Sends(window[r], due)} \subseteq UpFrame \ {CancelFrame}
<1>1. window[r] \in WindowState
  BY DEF TypeOK
<1>2. Sends(window[r], due) \subseteq Chunk \cup {Header}
  BY <1>1, Finite DEF Sends, Fresh
<1>3. \A i : Frame(i) # CancelFrame
  BY DEF Frame, HeaderFrame, ChunkFrame, CancelFrame
<1> QED
  BY <1>2, <1>3 DEF UpFrame

(* A recipient all of whose chunks are acknowledged has published.         *)
LEMMA CompleteSaved ==
  ASSUME IInv, NEW r \in keys, Complete(window[r])
  PROVE  saved[r]
<1>1. r \in Recipient /\ entry[r] \in Entry
  BY DEF IInv, TypeOK
<1>2. Chunk \subseteq entry[r].got /\ entry[r].got \subseteq Chunk
  BY <1>1 DEF IInv, AckedStaysReceived, Complete, Entry
<1>3. entry[r].got = Chunk
  BY <1>2
<1> QED
  BY <1>1, <1>3 DEF IInv, AllGotSaved

(* A round that sends.                                                     *)
LEMMA PollAllInv ==
  ASSUME IInv, outcome = "running", NEW d, PollAll(d)
  PROVE  IInv'
<1> USE DEF IInv, PollAll, receiver
<1>0. Open \subseteq keys /\ keys \subseteq Recipient
  BY DEF Open, TypeOK
<1>1. ASSUME NEW r \in Recipient
      PROVE  /\ window'[r] \in WindowState /\ Exact(window'[r])
             /\ window'[r].acked = window[r].acked
  <2>1. window[r] \in WindowState /\ Exact(window[r])
    BY DEF TypeOK, WindowExact, Exact
  <2>2. CASE r \in Open
    <3>1. window'[r] = Poll(window[r], d[r])
      BY <2>2 DEF Polled
    <3> QED
      BY <3>1, <2>1, PollInv, SMT
  <2>3. CASE r \notin Open
    BY <2>1, <2>3
  <2> QED
    BY <2>2, <2>3
<1>2. ASSUME NEW r \in Recipient
      PROVE  /\ up'[r] \subseteq UpFrame
             /\ CancelFrame \in up'[r] => CancelFrame \in up[r]
  BY SendsFrames DEF TypeOK
<1>3. TypeOK'
  <2>1. window' \in [Recipient -> WindowState]
    BY <1>1
  <2>2. up' \in [Recipient -> SUBSET UpFrame]
    BY <1>2
  <2> QED
    BY <2>1, <2>2, <1>0 DEF TypeOK, MaxFaults
<1>4. WindowExact'
  BY <1>1 DEF WindowExact, Exact, InFlight
<1>5. Prefixes' /\ PartHoldsReceived' /\ AllGotSaved'
  BY DEF Prefixes, PartHoldsReceived, AllGotSaved
<1>6. AckedStaysReceived'
  <2> SUFFICES ASSUME NEW r \in keys'
               PROVE  /\ window'[r].acked \subseteq entry'[r].got
                      /\ \A a \in down'[r] : a.got \subseteq entry'[r].got
    BY DEF AckedStaysReceived
  <2>1. r \in keys /\ r \in Recipient
    BY <1>0
  <2> QED
    BY <2>1, <1>1 DEF AckedStaysReceived
<1>7. ServedUncancelled'
  BY <1>0, <1>2 DEF ServedUncancelled
<1>8. LeftSaved'
  <2>1. ASSUME NEW r \in Recipient \ Open PROVE saved[r]
    <3>1. CASE r \in keys
      BY <2>1, <3>1, CompleteSaved DEF Open
    <3>2. CASE r \notin keys
      BY <2>1, <3>2 DEF LeftSaved
    <3> QED
      BY <3>1, <3>2
  <2> QED
    BY <2>1 DEF LeftSaved
<1> QED
  BY <1>3, <1>4, <1>5, <1>6, <1>7, <1>8

(* The rounds that end send_file, and the stop.                            *)
LEMMA EndInv ==
  ASSUME IInv, outcome = "running",
         \/ AllComplete
         \/ \E d \in Deadlines : PollFails(d)
         \/ \E d \in Deadlines, r \in Open, c \in Chunk : ReadFails(d, r, c)
         \/ Stop
  PROVE  IInv'
<1>0. up \in [Recipient -> SUBSET UpFrame] /\ CancelFrame \in UpFrame /\ broken \in BOOLEAN
  BY DEF IInv, TypeOK, UpFrame
<1>1. CASE AllComplete
  <2>1. ASSUME NEW r \in Recipient PROVE saved[r]
    <3>1. CASE r \in keys
      BY <3>1, <1>1, CompleteSaved DEF AllComplete, Open
    <3>2. CASE r \notin keys
      BY <3>2 DEF IInv, LeftSaved
    <3> QED
      BY <3>1, <3>2
  <2>2. /\ Finish("success") /\ UNCHANGED <<receiver, down, faults>>
        /\ up' = up /\ broken' = broken
    BY <1>1 DEF AllComplete
  <2> QED
    BY <2>1, <2>2, <1>0, FinishInv
<1>2. CASE \E d \in Deadlines : PollFails(d)
  <2>1. PICK d \in Deadlines : PollFails(d)
    BY <1>2
  <2>2. up' \in [Recipient -> SUBSET UpFrame]
    BY <2>1, <1>0 DEF PollFails
  <2>3. Finish("failed") /\ UNCHANGED <<receiver, down, faults>> /\ broken' = broken
    BY <2>1 DEF PollFails
  <2> QED
    BY <2>2, <2>3, <1>0, FinishInv
<1>3. CASE \E d \in Deadlines, r \in Open, c \in Chunk : ReadFails(d, r, c)
  <2>1. PICK d \in Deadlines, r \in Open, c \in Chunk : ReadFails(d, r, c)
    BY <1>3
  <2>2. ASSUME NEW s \in Recipient PROVE up'[s] \subseteq UpFrame
    <3>1. {Frame(i) : i \in Sends(window[s], d[s])} \subseteq UpFrame
      BY SendsFrames DEF IInv
    <3>2. up'[s] \subseteq up[s] \cup {CancelFrame} \cup {Frame(i) : i \in Sends(window[s], d[s])}
      BY <2>1, <1>0 DEF ReadFails
    <3> QED
      BY <3>1, <3>2, <1>0
  <2>3. up' \in [Recipient -> SUBSET UpFrame]
    BY <2>1, <2>2 DEF ReadFails
  <2>4. Finish("failed") /\ UNCHANGED <<receiver, down, faults>> /\ broken' = TRUE
    BY <2>1 DEF ReadFails
  <2> QED
    BY <2>3, <2>4, FinishInv
<1>4. CASE Stop
  <2>1. up' \in [Recipient -> SUBSET UpFrame]
    BY <1>4, <1>0 DEF Stop
  <2>2. Finish("stopped") /\ UNCHANGED <<receiver, down, faults>> /\ broken' = broken
    BY <1>4 DEF Stop
  <2> QED
    BY <2>1, <2>2, <1>0, FinishInv
<1> QED
  BY <1>1, <1>2, <1>3, <1>4

(* An acknowledgement or a CANCEL reaches the sender.                      *)
LEMMA SenderReceives ==
  ASSUME IInv, NEW r \in Recipient, HandleFileAck(r) \/ HandleRefusal(r)
  PROVE  IInv'
<1> USE DEF IInv, receiver
<1>1. PICK a \in down[r] :
        /\ down'[r] \subseteq down[r]
        /\ down' = [down EXCEPT ![r] = down'[r]]
        /\ \/ window' = window
           \/ r \in keys /\ window' = [window EXCEPT ![r] = Acknowledge(@, a.got)]
           \/ r \in keys /\ window' = [window EXCEPT ![r].failed = TRUE]
        /\ UNCHANGED <<keys, outcome, receiver, up, faults, broken>>
  <2>1. down \in [Recipient -> SUBSET DownFrame]
    BY DEF TypeOK
  <2>2. CASE HandleFileAck(r)
    <3>1. PICK a \in down[r] :
            /\ \E rest \in Rest(down[r], a) : down' = [down EXCEPT ![r] = rest]
            /\ window' = IF r \in keys
                           THEN [window EXCEPT ![r] = Acknowledge(@, a.got)]
                           ELSE window
            /\ UNCHANGED <<keys, outcome, receiver, up, faults, broken>>
      BY <2>2 DEF HandleFileAck
    <3>2. PICK rest \in Rest(down[r], a) : down' = [down EXCEPT ![r] = rest]
      BY <3>1
    <3>3. rest \subseteq down[r] /\ down'[r] = rest
      BY <3>2, <2>1 DEF Rest
    <3> QED
      BY <3>1, <3>2, <3>3
  <2>3. CASE HandleRefusal(r)
    BY <2>1, <2>3 DEF HandleRefusal
  <2> QED
    BY <2>2, <2>3
<1>2. a \in DownFrame /\ a.got \in SUBSET Chunk
  <2>1. a \in DownFrame
    BY DEF TypeOK
  <2> QED
    BY <2>1, SMT DEF DownFrame, Ack, Refusal
<1>3. window \in [Recipient -> WindowState] /\ \A s \in Recipient : Exact(window[s])
  BY DEF TypeOK, WindowExact, Exact
<1>4. ASSUME NEW s \in Recipient
      PROVE  /\ window'[s] \in WindowState /\ Exact(window'[s])
             /\ window'[s].acked \subseteq
                  window[s].acked \cup (IF s = r THEN a.got ELSE {})
  <2>1. CASE window'[s] = window[s]
    BY <2>1, <1>3
  <2>2. CASE s = r /\ window'[s] = Acknowledge(window[s], a.got)
    BY <2>2, <1>2, <1>3, AcknowledgeInv, SMT
  <2>3. CASE window'[s] = [window[s] EXCEPT !.failed = TRUE]
    <3>1. window'[s] \in WindowState /\ window'[s].acked = window[s].acked
      BY <2>3, <1>3 DEF WindowState
    <3>2. window'[s].tries = window[s].tries /\ window'[s].next = window[s].next
      BY <2>3, <1>3 DEF WindowState
    <3> QED
      BY <3>1, <3>2, <1>3 DEF Exact, InFlight
  <2> QED
    BY <1>1, <1>3, <2>1, <2>2, <2>3
<1>5. window' \in [Recipient -> WindowState]
  <2>1. DOMAIN window' = Recipient /\ window' = [s \in Recipient |-> window'[s]]
    BY <1>1, <1>3
  <2> QED
    BY <2>1, <1>4
<1>6. TypeOK'
  <2>1. down' \in [Recipient -> SUBSET DownFrame]
    BY <1>1 DEF TypeOK
  <2> QED
    BY <1>1, <1>5, <2>1 DEF TypeOK, MaxFaults
<1>7. WindowExact'
  BY <1>4 DEF WindowExact, Exact, InFlight
<1>8. Prefixes' /\ PartHoldsReceived' /\ AllGotSaved'
  BY <1>1 DEF Prefixes, PartHoldsReceived, AllGotSaved
<1>9. AckedStaysReceived'
  <2> SUFFICES ASSUME NEW s \in keys
               PROVE  /\ window'[s].acked \subseteq entry[s].got
                      /\ \A b \in down'[s] : b.got \subseteq entry[s].got
    BY <1>1 DEF AckedStaysReceived
  <2>1. s \in Recipient /\ down'[s] \subseteq down[s]
    BY <1>1 DEF TypeOK
  <2>2. /\ window[s].acked \subseteq entry[s].got
        /\ \A b \in down[s] : b.got \subseteq entry[s].got
    BY DEF AckedStaysReceived
  <2> QED
    BY <2>1, <2>2, <1>4
<1>10. ServedUncancelled' /\ LeftSaved'
  BY <1>1 DEF ServedUncancelled, LeftSaved
<1> QED
  BY <1>6, <1>7, <1>8, <1>9, <1>10

-----------------------------------------------------------------------------
(* The steps of a recipient and of the network.                            *)

(* What a step of recipient r may do: e is its new entry, p its new .part  *)
(* file, sv whether it has published, A the answers.                       *)
RecipientMay(r, e, p, sv, A) ==
  /\ UNCHANGED sender
  /\ e \in Entry /\ PrefixHeld(e)
  /\ r \in keys => entry[r].got \subseteq e.got
  /\ p \in (SUBSET PartItem) \cup {NoFile}
  /\ e # NoEntry /\ ~e.done => p # NoFile /\ Covers(p, e.got)
  /\ sv \in BOOLEAN
  /\ saved[r] => sv
  /\ e.got = Chunk => sv
  /\ \A a \in A : r \in keys => a.got \subseteq e.got
  /\ entry' = [entry EXCEPT ![r] = e]
  /\ part' = [part EXCEPT ![r] = p]
  /\ saved' = [saved EXCEPT ![r] = sv]
  /\ down' \in [Recipient -> SUBSET DownFrame]
  /\ \A s \in Recipient : down'[s] \subseteq down[s] \cup (IF s = r THEN A ELSE {})
  /\ up' \in [Recipient -> SUBSET UpFrame]
  /\ \A s \in Recipient : up'[s] \subseteq up[s]
  /\ faults' \in 0..MaxFaults
  /\ broken' \in BOOLEAN

(* Such a step keeps the invariant.                                        *)
LEMMA RecipientStep ==
  ASSUME IInv, NEW r \in Recipient, NEW e, NEW p, NEW sv, NEW A,
         RecipientMay(r, e, p, sv, A)
  PROVE  IInv'
<1> USE DEF IInv, sender, RecipientMay
<1>1. /\ entry \in [Recipient -> Entry] /\ saved \in [Recipient -> BOOLEAN]
      /\ part \in [Recipient -> (SUBSET PartItem) \cup {NoFile}]
      /\ keys \subseteq Recipient
  BY DEF TypeOK
<1>2. TypeOK'
  <2>1. /\ entry' \in [Recipient -> Entry] /\ saved' \in [Recipient -> BOOLEAN]
        /\ part' \in [Recipient -> (SUBSET PartItem) \cup {NoFile}]
    BY <1>1
  <2> QED
    BY <2>1 DEF TypeOK, MaxFaults
<1>3. WindowExact'
  BY DEF WindowExact, InFlight
<1>4. Prefixes'
  BY <1>1 DEF Prefixes
<1>5. PartHoldsReceived'
  BY <1>1 DEF PartHoldsReceived
<1>6. AllGotSaved'
  BY <1>1 DEF AllGotSaved
<1>7. AckedStaysReceived'
  <2> SUFFICES ASSUME NEW s \in keys
               PROVE  /\ window[s].acked \subseteq entry'[s].got
                      /\ \A b \in down'[s] : b.got \subseteq entry'[s].got
    BY DEF AckedStaysReceived
  <2>1. s \in Recipient /\ entry[s].got \subseteq entry'[s].got
    BY <1>1
  <2>2. /\ window[s].acked \subseteq entry[s].got
        /\ \A b \in down[s] : b.got \subseteq entry[s].got
    BY DEF AckedStaysReceived
  <2>3. ASSUME NEW b \in down'[s] PROVE b.got \subseteq entry'[s].got
    <3>1. CASE b \in down[s]
      BY <3>1, <2>1, <2>2
    <3>2. CASE s = r /\ b \in A
      BY <3>2, <1>1
    <3> QED
      BY <3>1, <3>2, <2>1
  <2> QED
    BY <2>1, <2>2, <2>3
<1>8. ServedUncancelled'
  BY <1>1 DEF ServedUncancelled
<1>9. LeftSaved'
  <2>1. \A s \in Recipient : saved[s] => saved'[s]
    BY <1>1
  <2> QED
    BY <2>1 DEF LeftSaved
<1> QED
  BY <1>2, <1>3, <1>4, <1>5, <1>6, <1>7, <1>8, <1>9

(* The state of recipient r in IInv.                                       *)
LEMMA AtRecipient ==
  ASSUME IInv, NEW r \in Recipient
  PROVE  /\ entry[r] \in Entry /\ PrefixHeld(entry[r])
         /\ part[r] \in (SUBSET PartItem) \cup {NoFile}
         /\ saved[r] \in BOOLEAN
         /\ entry[r].got = Chunk => saved[r]
         /\ entry[r] # NoEntry /\ ~entry[r].done =>
              part[r] # NoFile /\ Covers(part[r], entry[r].got)
         /\ entry = [entry EXCEPT ![r] = entry[r]]
         /\ part = [part EXCEPT ![r] = part[r]]
         /\ saved = [saved EXCEPT ![r] = saved[r]]
         /\ up \in [Recipient -> SUBSET UpFrame]
         /\ down \in [Recipient -> SUBSET DownFrame]
         /\ faults \in 0..MaxFaults /\ broken \in BOOLEAN
BY DEF IInv, TypeOK, Prefixes, AllGotSaved, PartHoldsReceived

(* An answer to the sender.                                                *)
LEMMA AnswerInv ==
  ASSUME IInv, NEW r \in Recipient, NEW a \in DownFrame, Answer(r, a)
  PROVE  /\ down' \in [Recipient -> SUBSET DownFrame]
         /\ \A s \in Recipient :
              down'[s] \subseteq down[s] \cup (IF s = r THEN {a} ELSE {})
BY DEF IInv, TypeOK, Answer

(* A fault is counted up to the bound.                                     *)
LEMMA FaultInv ==
  ASSUME IInv, Fault
  PROVE  faults' \in 0..MaxFaults
BY Constants, SMT DEF IInv, TypeOK, Fault, MaxFaults

(* Taking a frame leaves fewer.                                            *)
LEMMA TakeInv ==
  ASSUME IInv, NEW r \in Recipient, NEW f, Take(r, f)
  PROVE  /\ up' \in [Recipient -> SUBSET UpFrame]
         /\ \A s \in Recipient : up'[s] \subseteq up[s]
<1>1. PICK rest \in Rest(up[r], f) : up' = [up EXCEPT ![r] = rest]
  BY DEF Take
<1>2. up \in [Recipient -> SUBSET UpFrame] /\ rest \subseteq up[r]
  BY DEF IInv, TypeOK, Rest
<1> QED
  BY <1>1, <1>2

(* The header handler.                                                     *)
LEMMA HeaderInv ==
  ASSUME IInv, NEW r \in Recipient, HandleFileHeader(r)
  PROVE  IInv'
<1>0. /\ up' \in [Recipient -> SUBSET UpFrame]
      /\ \A s \in Recipient : up'[s] \subseteq up[s]
      /\ UNCHANGED sender
  BY TakeInv DEF HandleFileHeader
<1>1. CASE HandleHeaderAgain(r)
  <2> DEFINE a == Ack(FirstRuns(entry[r]))
  <2>1. FirstRuns(entry[r]) \subseteq entry[r].got /\ entry[r].got \subseteq Chunk
    BY AtRecipient, RunsReceived DEF Entry
  <2>2. a \in DownFrame /\ a.got \subseteq entry[r].got
    BY <2>1 DEF DownFrame, Ack
  <2>3. Answer(r, a) /\ UNCHANGED <<entry, part, saved, faults, broken>>
    BY <1>1 DEF HandleHeaderAgain, receiver
  <2> HIDE DEF a
  <2>4. /\ down' \in [Recipient -> SUBSET DownFrame]
        /\ \A s \in Recipient : down'[s] \subseteq down[s] \cup (IF s = r THEN {a} ELSE {})
    BY <2>2, <2>3, AnswerInv
  <2>5. RecipientMay(r, entry[r], part[r], saved[r], {a})
    BY <1>0, <2>2, <2>3, <2>4, AtRecipient DEF RecipientMay
  <2> QED
    BY <2>5, RecipientStep
<1>2. CASE HandleHeaderNew(r)
  <2> DEFINE e == [got |-> {}, contiguous |-> 0, done |-> FALSE]
  <2>1. e \in Entry /\ PrefixHeld(e) /\ e.got = {} /\ e.got # Chunk
    BY Constants, SMT DEF Entry, PrefixHeld, Chunk
  <2>2. entry[r].got \subseteq e.got
    BY <1>2, <2>1, SMT DEF HandleHeaderNew, NoEntry
  <2>3. {} \in (SUBSET PartItem) \cup {NoFile} /\ {} # NoFile /\ Covers({}, e.got)
    BY <2>1 DEF NoFile, Covers
  <2>4. Ack({}) \in DownFrame /\ Ack({}).got = {}
    BY DEF DownFrame, Ack
  <2>5. /\ entry' = [entry EXCEPT ![r] = e] /\ part' = [part EXCEPT ![r] = {}]
        /\ Answer(r, Ack({})) /\ UNCHANGED <<saved, faults, broken>>
    BY <1>2 DEF HandleHeaderNew
  <2>6. /\ down' \in [Recipient -> SUBSET DownFrame]
        /\ \A s \in Recipient : down'[s] \subseteq down[s] \cup (IF s = r THEN {Ack({})} ELSE {})
    BY <2>4, <2>5, AnswerInv
  <2> HIDE DEF e
  <2>7. RecipientMay(r, e, {}, saved[r], {Ack({})})
    BY <1>0, <2>1, <2>2, <2>3, <2>4, <2>5, <2>6, AtRecipient DEF RecipientMay
  <2> QED
    BY <2>7, RecipientStep
<1>3. CASE HandleHeaderRefused(r)
  <2>1. Refusal \in DownFrame /\ Refusal.got = {}
    BY DEF DownFrame, Refusal
  <2>2. Answer(r, Refusal) /\ UNCHANGED <<entry, part, saved, faults>> /\ broken' = TRUE
    BY <1>3 DEF HandleHeaderRefused, receiver
  <2>3. /\ down' \in [Recipient -> SUBSET DownFrame]
        /\ \A s \in Recipient : down'[s] \subseteq down[s] \cup (IF s = r THEN {Refusal} ELSE {})
    BY <2>1, <2>2, AnswerInv
  <2>4. RecipientMay(r, entry[r], part[r], saved[r], {Refusal})
    BY <1>0, <2>1, <2>2, <2>3, AtRecipient DEF RecipientMay
  <2> QED
    BY <2>4, RecipientStep
<1>4. CASE HandleHeaderFails(r)
  <2>1. Fault /\ UNCHANGED <<entry, part, saved, down, broken>>
    BY <1>4 DEF HandleHeaderFails, receiver
  <2>2. faults' \in 0..MaxFaults
    BY <2>1, FaultInv
  <2>3. {} \in SUBSET DownFrame
    OBVIOUS
  <2>4. RecipientMay(r, entry[r], part[r], saved[r], {})
    BY <1>0, <2>1, <2>2, <2>3, AtRecipient DEF RecipientMay
  <2> QED
    BY <2>4, RecipientStep
<1> QED
  BY <1>1, <1>2, <1>3, <1>4 DEF HandleFileHeader

(* The chunk handler.                                                      *)
LEMMA ChunkInv ==
  ASSUME IInv, NEW r \in Recipient, HandleFileChunk(r)
  PROVE  IInv'
<1>0. PICK c \in Chunk :
        /\ Take(r, ChunkFrame(c))
        /\ UNCHANGED sender
        /\ \/ ChunkDropped(r, c) \/ ChunkDuplicate(r, c) \/ ChunkNotWritten(r, c)
           \/ ChunkWritten(r, c) \/ ChunkCommits(r, c) \/ ChunkNotCommitted(r, c)
  BY DEF HandleFileChunk
<1>1. /\ up' \in [Recipient -> SUBSET UpFrame]
      /\ \A s \in Recipient : up'[s] \subseteq up[s]
  BY <1>0, TakeInv
<1>2. {} \in SUBSET DownFrame /\ Header \notin Chunk
  BY Constants, SMT DEF Header, Chunk
<1>3. ASSUME NEW e \in Entry, PrefixHeld(e), Answer(r, Ack(FocusRuns(e, c)))
      PROVE  /\ {Ack(FocusRuns(e, c))} \in SUBSET DownFrame
             /\ \A a \in {Ack(FocusRuns(e, c))} : a.got \subseteq e.got
             /\ down' \in [Recipient -> SUBSET DownFrame]
             /\ \A s \in Recipient :
                  down'[s] \subseteq down[s] \cup
                    (IF s = r THEN {Ack(FocusRuns(e, c))} ELSE {})
  <2>1. FocusRuns(e, c) \subseteq e.got /\ e.got \subseteq Chunk
    BY <1>3, RunsReceived DEF Entry
  <2>2. Ack(FocusRuns(e, c)) \in DownFrame /\ Ack(FocusRuns(e, c)).got \subseteq e.got
    BY <2>1 DEF DownFrame, Ack
  <2> QED
    BY <2>2, <1>3, AnswerInv
<1>4. CASE ChunkDropped(r, c)
  <2>1. UNCHANGED <<entry, part, saved, down, faults, broken>>
    BY <1>4 DEF ChunkDropped, receiver
  <2>2. RecipientMay(r, entry[r], part[r], saved[r], {})
    BY <1>0, <1>1, <1>2, <2>1, AtRecipient DEF RecipientMay
  <2> QED
    BY <2>2, RecipientStep
<1>5. CASE ChunkDuplicate(r, c)
  <2>1. /\ Answer(r, Ack(FocusRuns(entry[r], c)))
        /\ UNCHANGED <<entry, part, saved, faults, broken>>
    BY <1>5 DEF ChunkDuplicate, receiver
  <2>2. RecipientMay(r, entry[r], part[r], saved[r], {Ack(FocusRuns(entry[r], c))})
    BY <1>0, <1>1, <1>3, <2>1, AtRecipient DEF RecipientMay
  <2> QED
    BY <2>2, RecipientStep
<1>6. CASE ChunkNotWritten(r, c)
  <2>1. Fault /\ UNCHANGED <<entry, part, saved, down, broken>>
    BY <1>6 DEF ChunkNotWritten, receiver
  <2>2. faults' \in 0..MaxFaults
    BY <2>1, FaultInv
  <2>3. RecipientMay(r, entry[r], part[r], saved[r], {})
    BY <1>0, <1>1, <1>2, <2>1, <2>2, AtRecipient DEF RecipientMay
  <2> QED
    BY <2>3, RecipientStep
<1> DEFINE e == Record(entry[r], c)
<1>7. ASSUME Writable(r, c)
      PROVE  /\ e \in Entry /\ PrefixHeld(e) /\ e # NoEntry
             /\ e.got = entry[r].got \cup {c} /\ e.done = entry[r].done
             /\ entry[r] # NoEntry /\ c \notin entry[r].got
             /\ part[r] \in SUBSET PartItem
  <2>1. entry[r] # NoEntry /\ c \notin entry[r].got /\ part[r] # NoFile
    BY <1>7 DEF Writable
  <2>2. /\ e \in Entry /\ PrefixHeld(e) /\ e # NoEntry
        /\ e.got = entry[r].got \cup {c} /\ e.done = entry[r].done
    BY <2>1, AtRecipient, RecordInv, SMT
  <2> QED
    BY <2>1, <2>2, AtRecipient
<1>11. ASSUME Writable(r, c), NEW p \in Written(r, c)
       PROVE  /\ p \in SUBSET PartItem /\ p # NoFile
              /\ ~e.done => Covers(p, e.got)
  <2>1. /\ part[r] \in SUBSET PartItem /\ e.got = entry[r].got \cup {c}
        /\ entry[r].got \subseteq Chunk
        /\ ~e.done => Covers(part[r], entry[r].got)
    BY <1>11, <1>7, AtRecipient DEF Entry
  <2>2. Lost(c) \in PartItem /\ c \in PartItem /\ Header \notin PartItem
    BY Constants, SMT DEF PartItem, Lost, Header, Chunk
  <2>3. p = (part[r] \ {Lost(c)}) \cup {c} \/ p = (part[r] \ {c}) \cup {Lost(c)}
    BY <1>11 DEF Written
  <2>4. \A d \in Chunk : d # c => Lost(d) # Lost(c) /\ d # Lost(c) /\ Lost(d) # c
    BY Constants, SMT DEF Lost, Chunk
  <2> HIDE DEF e
  <2>5. p \in SUBSET PartItem /\ p # NoFile
    BY <2>1, <2>2, <2>3 DEF NoFile
  <2>6. ASSUME ~e.done PROVE Covers(p, e.got)
    <3> SUFFICES ASSUME NEW d \in e.got PROVE d \in p \/ Lost(d) \in p
      BY DEF Covers
    <3>1. CASE d = c
      BY <3>1, <2>3
    <3>2. CASE d # c
      <4>1. d \in entry[r].got /\ d \in Chunk /\ (d \in part[r] \/ Lost(d) \in part[r])
        BY <3>2, <2>1, <2>6 DEF Covers
      <4> QED
        BY <4>1, <3>2, <2>3, <2>4
    <3> QED
      BY <3>1, <3>2
  <2> QED
    BY <2>5, <2>6
<1>8. CASE ChunkWritten(r, c)
  <2>1. PICK p \in Written(r, c) :
          /\ Writable(r, c) /\ e.got # Chunk
          /\ entry' = [entry EXCEPT ![r] = e] /\ part' = [part EXCEPT ![r] = p]
          /\ Answer(r, Ack(FocusRuns(e, c))) /\ UNCHANGED <<saved, faults>>
          /\ Notice(p, c)
    BY <1>8 DEF ChunkWritten
  <2>2. /\ e \in Entry /\ PrefixHeld(e) /\ entry[r].got \subseteq e.got
        /\ p \in (SUBSET PartItem) \cup {NoFile}
        /\ e # NoEntry /\ ~e.done => p # NoFile /\ Covers(p, e.got)
    BY <2>1, <1>7, <1>11
  <2>3. broken' \in BOOLEAN
    BY <2>1, AtRecipient DEF Notice
  <2> HIDE DEF e
  <2>4. RecipientMay(r, e, p, saved[r], {Ack(FocusRuns(e, c))})
    BY <1>0, <1>1, <1>3, <2>1, <2>2, <2>3, AtRecipient DEF RecipientMay
  <2> QED
    BY <2>4, RecipientStep
<1>9. CASE ChunkCommits(r, c)
  <2> DEFINE x == [e EXCEPT !.done = TRUE]
  <2>1. /\ Writable(r, c)
        /\ entry' = [entry EXCEPT ![r] = x] /\ part' = [part EXCEPT ![r] = NoFile]
        /\ saved' = [saved EXCEPT ![r] = TRUE]
        /\ Answer(r, Ack(FocusRuns(e, c))) /\ UNCHANGED <<faults, broken>>
    BY <1>9 DEF ChunkCommits
  <2>2. /\ e \in Entry /\ PrefixHeld(e) /\ e # NoEntry
        /\ e.got = entry[r].got \cup {c}
    BY <2>1, <1>7
  <2> HIDE DEF e
  <2>3. /\ x \in Entry /\ x.got = e.got /\ x.contiguous = e.contiguous /\ x.done
    BY <2>2 DEF Entry
  <2>4. PrefixHeld(x) /\ entry[r].got \subseteq x.got
    <3>1. e.contiguous >= 0 /\ e.contiguous \notin e.got
      BY <2>2 DEF PrefixHeld
    <3> QED
      BY <3>1, <2>2, <2>3 DEF PrefixHeld
  <2>5. NoFile \in (SUBSET PartItem) \cup {NoFile}
    OBVIOUS
  <2> HIDE DEF x
  <2>6. RecipientMay(r, x, NoFile, TRUE, {Ack(FocusRuns(e, c))})
    BY <1>0, <1>1, <1>3, <2>1, <2>2, <2>3, <2>4, <2>5, AtRecipient DEF RecipientMay
  <2> QED
    BY <2>6, RecipientStep
<1>10. CASE ChunkNotCommitted(r, c)
  <2> DEFINE x == Remove(e, c)
  <2>1. PICK p \in Written(r, c) :
          /\ Writable(r, c)
          /\ entry' = [entry EXCEPT ![r] = x] /\ part' = [part EXCEPT ![r] = p]
          /\ Fault \/ UNCHANGED faults
          /\ Answer(r, Ack(FocusRuns(x, c))) /\ UNCHANGED saved
          /\ Notice(p, c)
    BY <1>10, ZenonT(30) DEF ChunkNotCommitted
  <2>2. /\ e \in Entry /\ PrefixHeld(e) /\ e # NoEntry
        /\ e.got = entry[r].got \cup {c} /\ c \notin entry[r].got
        /\ e.done = entry[r].done
        /\ p \in SUBSET PartItem /\ p # NoFile /\ (~e.done => Covers(p, e.got))
    BY <2>1, <1>7, <1>11, ZenonT(30)
  <2> HIDE DEF e
  <2>3. x \in Entry /\ PrefixHeld(x) /\ x.got = e.got \ {c} /\ x.done = e.done
    BY <2>2, RemoveInv
  <2> HIDE DEF x
  <2>4. /\ entry[r].got \subseteq x.got /\ x.got # Chunk
        /\ p \in (SUBSET PartItem) \cup {NoFile}
        /\ x # NoEntry /\ ~x.done => p # NoFile /\ Covers(p, x.got)
    BY <2>2, <2>3 DEF Covers
  <2>5. faults' \in 0..MaxFaults /\ broken' \in BOOLEAN
    BY <2>1, FaultInv, AtRecipient DEF Notice
  <2>6. RecipientMay(r, x, p, saved[r], {Ack(FocusRuns(x, c))})
    BY <1>0, <1>1, <1>3, <2>1, <2>3, <2>4, <2>5, AtRecipient DEF RecipientMay
  <2> QED
    BY <2>6, RecipientStep
<1> QED
  BY <1>0, <1>4, <1>5, <1>6, <1>8, <1>9, <1>10

(* The transfer is dropped: by a CANCEL, which reaches nobody who is       *)
(* served, or because it has been idle.                                    *)
LEMMA DiscardInv ==
  ASSUME IInv, NEW r \in Recipient, HandleFileCancel(r) \/ Expire(r)
  PROVE  IInv'
<1>1. r \notin keys
  BY DEF IInv, ServedUncancelled, HandleFileCancel, Expire
<1>2. NoEntry \in Entry /\ PrefixHeld(NoEntry) /\ NoEntry.got # Chunk
  BY Constants, SMT DEF NoEntry, Entry, PrefixHeld, Chunk
<1>3. PICK p \in {part[r], NoFile} : part' = [part EXCEPT ![r] = p]
  BY AtRecipient DEF HandleFileCancel, Expire, Discard
<1>4. /\ entry' = [entry EXCEPT ![r] = NoEntry] /\ saved' = saved
      /\ UNCHANGED <<sender, faults, broken>>
  BY DEF HandleFileCancel, Expire, Discard
<1>5. /\ up' \in [Recipient -> SUBSET UpFrame]
      /\ \A s \in Recipient : up'[s] \subseteq up[s]
  BY AtRecipient DEF HandleFileCancel, Expire
<1>6. /\ down' \in [Recipient -> SUBSET DownFrame]
      /\ \A s \in Recipient : down'[s] \subseteq down[s] \cup (IF s = r THEN {Refusal} ELSE {})
  <2>1. CASE down' = down
    BY <2>1, AtRecipient
  <2>2. CASE Answer(r, Refusal)
    <3>1. Refusal \in DownFrame
      BY DEF DownFrame
    <3> QED
      BY <3>1, <2>2, AnswerInv
  <2> QED
    BY <2>1, <2>2 DEF HandleFileCancel, Expire
<1>7. RecipientMay(r, NoEntry, p, saved[r], {Refusal})
  BY <1>1, <1>2, <1>3, <1>4, <1>5, <1>6, AtRecipient DEF RecipientMay
<1> QED
  BY <1>7, RecipientStep

(* A frame is lost.                                                        *)
LEMMA LoseInv ==
  ASSUME IInv, NEW r \in Recipient, Lose(r)
  PROVE  IInv'
<1>1. /\ up' \in [Recipient -> SUBSET UpFrame]
      /\ \A s \in Recipient : up'[s] \subseteq up[s]
      /\ down' \in [Recipient -> SUBSET DownFrame]
      /\ \A s \in Recipient : down'[s] \subseteq down[s]
  BY AtRecipient, SMT DEF Lose
<1>2. faults' \in 0..MaxFaults
  BY FaultInv DEF Lose
<1>3. UNCHANGED <<sender, entry, part, saved, broken>>
  BY DEF Lose, receiver
<1>4. RecipientMay(r, entry[r], part[r], saved[r], {})
  BY <1>1, <1>2, <1>3, AtRecipient DEF RecipientMay
<1> QED
  BY <1>4, RecipientStep

-----------------------------------------------------------------------------
(* The theorems.                                                           *)

(* Every step keeps the invariant.                                         *)
LEMMA NextIInv == IInv /\ [Next]_vars => IInv'
<1> SUFFICES ASSUME IInv, [Next]_vars PROVE IInv'
  OBVIOUS
<1>1. CASE SendFile
  <2>1. CASE \E d \in Deadlines : PollAll(d)
    BY <1>1, <2>1, PollAllInv DEF SendFile
  <2> QED
    BY <1>1, <2>1, EndInv DEF SendFile, Round
<1>2. CASE StopSending
  BY <1>2, EndInv DEF StopSending
<1>3. CASE \E r \in Recipient : HandleFileAck(r) \/ HandleRefusal(r)
  BY <1>3, SenderReceives
<1>4. CASE \E r \in Recipient : Lose(r)
  BY <1>4, LoseInv
<1>5. CASE \E r \in Recipient : HandleFileHeader(r)
  BY <1>5, HeaderInv
<1>6. CASE \E r \in Recipient : HandleFileChunk(r)
  BY <1>6, ChunkInv
<1>7. CASE \E r \in Recipient : HandleFileCancel(r) \/ Expire(r)
  BY <1>7, DiscardInv
<1>8. CASE UNCHANGED vars
  BY <1>8 DEF vars, IInv, TypeOK, WindowExact, InFlight, Prefixes,
              AckedStaysReceived, PartHoldsReceived, ServedUncancelled,
              AllGotSaved, LeftSaved
<1> QED
  BY <1>1, <1>2, <1>3, <1>4, <1>5, <1>6, <1>7, <1>8 DEF Next

(* What the invariant says of the cached prefix and of success.            *)
LEMMA IInvImplies == IInv => PrefixExact /\ SuccessMeansSaved
<1> SUFFICES ASSUME IInv PROVE PrefixExact /\ SuccessMeansSaved
  OBVIOUS
<1>1. ASSUME NEW r \in Recipient, entry[r] # NoEntry
      PROVE  entry[r].contiguous = Extend(entry[r].got, 0)
  <2> DEFINE n == Extend(entry[r].got, 0)
             k == entry[r].contiguous
  <2>1. entry[r].got \in SUBSET Chunk /\ 0 \in 0..Total /\ 0..0 - 1 \subseteq entry[r].got
    BY AtRecipient, Constants, SMT DEF Entry
  <2>2. n \in 0..Total /\ 0..n - 1 \subseteq entry[r].got /\ n \notin entry[r].got
    BY <2>1, ExtendPrefix
  <2>3. k \in 0..Total /\ 0..k - 1 \subseteq entry[r].got /\ k \notin entry[r].got
    BY <1>1, AtRecipient, Constants, SMT DEF PrefixHeld, Entry
  <2> HIDE DEF n, k
  <2>4. ~(n < k) /\ ~(k < n)
    BY <2>2, <2>3, Constants, SMT
  <2>5. n = k
    BY <2>2, <2>3, <2>4, Constants, SMT
  <2> QED
    BY <2>5 DEF n, k
<1>2. SuccessMeansSaved
  BY DEF IInv, LeftSaved, SuccessMeansSaved
<1> QED
  BY <1>1, <1>2 DEF PrefixExact

(* send_file reports success only if every recipient, however many there   *)
(* are and however large the file, has published it.                       *)
THEOREM Delivery == Spec => []SuccessMeansSaved
BY IInvImplies, InitIInv, NextIInv, PTL DEF Spec

(* Sender, tracker and .part file agree: the recipient keeps what a window *)
(* counts as acknowledged, the window holds what is sent and not           *)
(* acknowledged within its size, the cached prefix is right after every    *)
(* record and remove, every chunk that is counted is in the .part file but *)
(* for what an unchecked close lost, and no retransmission count passes    *)
(* the retry limit.                                                        *)
THEOREM BooksStayConsistent == Spec => []BooksAgree
<1>1. IInv => BooksAgree
  BY IInvImplies DEF IInv, BooksAgree
<1> QED
  BY <1>1, InitIInv, NextIInv, PTL DEF Spec

-----------------------------------------------------------------------------
(* The retries.                                                            *)

(* The retransmissions of item i, the header or a chunk in flight.         *)
Tries(w, i) == IF i = Header THEN w.headerTries ELSE w.tries[i]

(* Item i or an answer to it is on its way.                                *)
Carried(r, i) ==
  \/ Frame(i) \in up[r]
  \/ IF i = Header THEN down[r] # {} ELSE \E a \in down[r] : i \in a.got

(* Every retransmission of item i was paid for with a fault, and there is  *)
(* one to spare unless the item is on its way.                             *)
Afforded(r, i) ==
  \/ Tries(window[r], i) < faults
  \/ Tries(window[r], i) = faults /\ Carried(r, i)

(* A recipient that is served, with nothing broken.                        *)
Served(r) ==
  /\ ~window[r].failed /\ Refusal \notin down[r]
  /\ window[r].headerReceived \/ down[r] # {} => entry[r] # NoEntry
  /\ \A i \in Waiting(window[r]) : Afforded(r, i)

(* The header goes first.                                                  *)
WindowPhase(w) ==
  /\ ~w.headerSent => w.headerTries = 0
  /\ ~w.headerReceived => InFlight(w) = {}

(* Nothing was lost when a stream was closed, and everybody is served.     *)
Sound ==
  /\ \A r \in Recipient, c \in Chunk : Lost(c) \notin part[r]
  /\ \A r \in keys : Served(r)

RetryInv ==
  /\ RetriesSuffice
  /\ \A r \in Recipient : WindowPhase(window[r]) /\ (entry[r].done => entry[r].got = Chunk)
  /\ ~broken => Sound

(* The frames of different items differ.                                   *)
LEMMA FramesDiffer ==
  /\ \A c \in Chunk : c # Header /\ Frame(c) = ChunkFrame(c)
  /\ Frame(Header) = HeaderFrame
  /\ \A i, j \in Chunk \cup {Header} : Frame(i) = Frame(j) => i = j
<1>1. \A c \in Chunk : c # Header
  BY Constants, SMT DEF Chunk, Header
<1>2. \A i, j : ChunkFrame(i) = ChunkFrame(j) => i = j
  BY SMT DEF ChunkFrame
<1>3. \A i : ChunkFrame(i) # HeaderFrame
  BY SMT DEF ChunkFrame, HeaderFrame
<1> QED
  BY <1>1, <1>2, <1>3 DEF Frame

(* A window waits for its header or for chunks, and counts their           *)
(* retransmissions up to the retry limit.                                  *)
LEMMA WaitingItems ==
  ASSUME NEW w \in WindowState
  PROVE  /\ Waiting(w) \subseteq Chunk \cup {Header}
         /\ \A i \in Waiting(w) : Tries(w, i) \in 0..RetryLimit
<1>1. /\ w.tries \in [InFlight(w) -> 0..RetryLimit] /\ InFlight(w) \subseteq Chunk
      /\ w.headerTries \in 0..RetryLimit
  BY DEF WindowState, InFlight
<1> QED
  BY <1>1, FramesDiffer DEF Waiting, Tries

(* A fault pays for one more retransmission of everything.                 *)
LEMMA FaultPays ==
  ASSUME IInv, Fault, NEW r \in Recipient, NEW i \in Waiting(window[r]), Afforded(r, i)
  PROVE  Tries(window[r], i) < faults'
<1>1. window[r] \in WindowState /\ faults \in 0..MaxFaults
  BY DEF IInv, TypeOK
<1>2. Tries(window[r], i) \in 0..RetryLimit
  BY <1>1, WaitingItems
<1>3. Tries(window[r], i) <= faults
  BY <1>1, <1>2, Constants, SMT DEF Afforded, MaxFaults
<1> QED
  BY <1>1, <1>2, <1>3, Constants, SMT DEF Fault, MaxFaults

(* The acknowledgement of a chunk that was received reports it, if it has  *)
(* room for a range after the prefix.                                      *)
LEMMA FocusReported ==
  ASSUME MaxRanges > 1, NEW e \in Entry, PrefixHeld(e), NEW c \in e.got
  PROVE  c \in FocusRuns(e, c)
<1>1. c \in Nat /\ e.contiguous \in Int
  BY Constants, SMT DEF Entry, Chunk
<1>2. CASE c < e.contiguous
  BY <1>1, <1>2, SMT DEF FocusRuns
<1>3. CASE c >= e.contiguous
  <2>1. \A j \in Chunk : (c <= j /\ j <= c) \/ (c <= j /\ j <= c) => j = c
    BY <1>1, Constants, SMT DEF Chunk
  <2>2. c \in RunAround(e, c)
    BY <1>3, <2>1 DEF RunAround
  <2>3. (IF 0..e.contiguous - 1 = {} THEN 0 ELSE 1) < MaxRanges
    BY Constants, SMT
  <2> QED
    BY <1>3, <2>2, <2>3 DEF FocusRuns
<1> QED
  BY <1>1, <1>2, <1>3, SMT

(* A step that leaves the sender alone and concerns one recipient: what    *)
(* was on its way still is, or a fault was counted.                        *)
LEMMA OneRetry ==
  ASSUME IInv, RetryInv, NEW r \in Recipient, UNCHANGED sender,
         \A s \in Recipient \ {r} : /\ entry'[s] = entry[s] /\ part'[s] = part[s]
                                    /\ up'[s] = up[s] /\ down'[s] = down[s],
         broken => broken', Fault \/ faults' = faults,
         entry'[r].done => entry'[r].got = Chunk,
         ~broken' => \A c \in Chunk : Lost(c) \notin part'[r],
         ~broken' /\ r \in keys =>
           /\ Refusal \notin down'[r]
           /\ down'[r] # {} \/ entry[r] # NoEntry => entry'[r] # NoEntry
           /\ Fault \/ \A i \in Waiting(window[r]) : Carried(r, i) => Carried(r, i)'
  PROVE  RetryInv'
<1>0. /\ window' = window /\ keys' = keys /\ outcome' = outcome /\ keys \subseteq Recipient
      /\ faults \in 0..MaxFaults
  BY DEF sender, IInv, TypeOK
<1>1. RetriesSuffice'
  <2>1. faults > RetryLimit => faults' > RetryLimit
    BY <1>0, Constants, SMT DEF Fault, MaxFaults
  <2> QED
    BY <1>0, <2>1 DEF RetryInv, RetriesSuffice
<1>2. ASSUME NEW s \in Recipient
      PROVE  WindowPhase(window'[s]) /\ (entry'[s].done => entry'[s].got = Chunk)
  BY <1>0 DEF RetryInv
<1>3. ASSUME ~broken', NEW s \in keys PROVE Served(s)'
  <2>1. Served(s) /\ s \in Recipient
    BY <1>0, <1>3 DEF RetryInv, Sound
  <2>2. /\ ~window'[s].failed /\ Refusal \notin down'[s]
        /\ window'[s].headerReceived \/ down'[s] # {} => entry'[s] # NoEntry
    BY <1>0, <1>3, <2>1 DEF Served
  <2>3. ASSUME NEW i \in Waiting(window[s]) PROVE Afforded(s, i)'
    <3>1. Afforded(s, i)
      BY <2>1 DEF Served
    <3>2. CASE Fault
      BY <1>0, <2>1, <3>1, <3>2, FaultPays DEF Afforded
    <3>3. CASE faults' = faults /\ (Carried(s, i) => Carried(s, i)')
      BY <1>0, <3>1, <3>3 DEF Afforded
    <3>4. Carried(s, i) => Carried(s, i)' \/ Fault
      BY <1>3, <2>1 DEF Carried
    <3> QED
      BY <3>2, <3>3, <3>4
  <2> QED
    BY <1>0, <2>2, <2>3 DEF Served
<1>4. ASSUME ~broken' PROVE Sound'
  <2>1. ASSUME NEW s \in Recipient, NEW c \in Chunk PROVE Lost(c) \notin part'[s]
    BY <1>4 DEF RetryInv, Sound
  <2> QED
    BY <1>0, <1>3, <1>4, <2>1 DEF Sound
<1> QED
  BY <1>1, <1>2, <1>4 DEF RetryInv

(* A frame is lost.                                                        *)
LEMMA LoseRetry ==
  ASSUME IInv, RetryInv, NEW r \in Recipient, Lose(r)
  PROVE  RetryInv'
<1>1. UNCHANGED sender /\ UNCHANGED <<entry, part, broken>> /\ Fault
  BY DEF Lose, receiver
<1>2. up \in [Recipient -> SUBSET UpFrame] /\ down \in [Recipient -> SUBSET DownFrame]
  BY DEF IInv, TypeOK
<1>3. /\ \A s \in Recipient \ {r} : up'[s] = up[s] /\ down'[s] = down[s]
      /\ down'[r] \subseteq down[r]
  BY <1>2, SMT DEF Lose
<1>4. ASSUME ~broken', r \in keys
      PROVE  Refusal \notin down'[r] /\ (down'[r] # {} => entry[r] # NoEntry)
  BY <1>1, <1>3, <1>4 DEF RetryInv, Sound, Served
<1>5. /\ entry[r].done => entry[r].got = Chunk
      /\ ~broken' => \A c \in Chunk : Lost(c) \notin part[r]
  BY <1>1 DEF RetryInv, Sound
<1> QED
  BY <1>1, <1>3, <1>4, <1>5, OneRetry

(* A recipient takes the frame of item i and does not take back an answer: *)
(* what else was on its way still is.                                      *)
LEMMA TakeRetry ==
  ASSUME IInv, Patient, NEW r \in Recipient, NEW i \in Chunk \cup {Header},
         Take(r, Frame(i)), down[r] \subseteq down'[r]
  PROVE  /\ \A s \in Recipient \ {r} : up'[s] = up[s]
         /\ \A j \in Waiting(window[r]) \ {i} : Carried(r, j) => Carried(r, j)'
<1>1. up' = [up EXCEPT ![r] = up[r] \ {Frame(i)}]
  BY DEF Take, Rest
<1>2. up \in [Recipient -> SUBSET UpFrame] /\ window[r] \in WindowState
  BY DEF IInv, TypeOK
<1>3. up'[r] = up[r] \ {Frame(i)} /\ \A s \in Recipient \ {r} : up'[s] = up[s]
  BY <1>1, <1>2
<1>4. ASSUME NEW j \in Waiting(window[r]) \ {i}, Carried(r, j) PROVE Carried(r, j)'
  <2>1. Frame(j) # Frame(i)
    BY <1>2, <1>4, WaitingItems, FramesDiffer
  <2> QED
    BY <1>3, <1>4, <2>1 DEF Carried
<1> QED
  BY <1>3, <1>4

(* The header arrives: it is answered, or a fault is counted.              *)
LEMMA HeaderRetry ==
  ASSUME IInv, RetryInv, Patient, NEW r \in Recipient, HandleFileHeader(r)
  PROVE  RetryInv'
<1>1. UNCHANGED sender /\ Take(r, Frame(Header)) /\ Header \in Chunk \cup {Header}
  BY FramesDiffer DEF HandleFileHeader
<1>2. /\ down \in [Recipient -> SUBSET DownFrame] /\ entry \in [Recipient -> Entry]
      /\ part \in [Recipient -> (SUBSET PartItem) \cup {NoFile}]
  BY DEF IInv, TypeOK
<1>3. /\ entry[r].done => entry[r].got = Chunk
      /\ ~broken => \A c \in Chunk : Lost(c) \notin part[r]
      /\ ~broken /\ r \in keys => Refusal \notin down[r] /\ (down[r] # {} => entry[r] # NoEntry)
  BY DEF RetryInv, Sound, Served
<1>4. ASSUME NEW S, Answer(r, Ack(S))
      PROVE  /\ \A s \in Recipient \ {r} : up'[s] = up[s] /\ down'[s] = down[s]
             /\ \A i \in Waiting(window[r]) : Carried(r, i) => Carried(r, i)'
             /\ Refusal \notin down[r] => Refusal \notin down'[r]
  <2>1. down'[r] = down[r] \cup {Ack(S)} /\ \A s \in Recipient \ {r} : down'[s] = down[s]
    BY <1>2, <1>4 DEF Answer
  <2>2. Ack(S) # Refusal
    BY SMT DEF Ack, Refusal
  <2>3. Carried(r, Header)'
    BY <2>1 DEF Carried
  <2>4. /\ \A s \in Recipient \ {r} : up'[s] = up[s]
        /\ \A j \in Waiting(window[r]) \ {Header} : Carried(r, j) => Carried(r, j)'
    BY <1>1, <2>1, TakeRetry
  <2> QED
    BY <2>1, <2>2, <2>3, <2>4
<1>5. CASE HandleHeaderAgain(r)
  <2>1. /\ entry[r] # NoEntry /\ Answer(r, Ack(FirstRuns(entry[r])))
        /\ UNCHANGED <<entry, part, faults, broken>>
    BY <1>5 DEF HandleHeaderAgain, receiver
  <2> QED
    BY <1>1, <1>3, <1>4, <2>1, OneRetry
<1>6. CASE HandleHeaderNew(r)
  <2> DEFINE e == [got |-> {}, contiguous |-> 0, done |-> FALSE]
  <2>1. /\ entry' = [entry EXCEPT ![r] = e] /\ part' = [part EXCEPT ![r] = {}]
        /\ Answer(r, Ack({})) /\ UNCHANGED <<faults, broken>>
    BY <1>6 DEF HandleHeaderNew
  <2>2. ~e.done /\ e # NoEntry
    BY SMT DEF NoEntry
  <2> HIDE DEF e
  <2>3. /\ entry'[r] = e /\ part'[r] = {}
        /\ \A s \in Recipient \ {r} : entry'[s] = entry[s] /\ part'[s] = part[s]
    BY <1>2, <2>1
  <2> QED
    BY <1>1, <1>3, <1>4, <2>1, <2>2, <2>3, OneRetry
<1>7. CASE HandleHeaderRefused(r)
  <2>1. /\ Answer(r, Refusal) /\ broken' = TRUE /\ UNCHANGED <<entry, part, faults>>
    BY <1>7 DEF HandleHeaderRefused, receiver
  <2>2. down[r] \subseteq down'[r] /\ \A s \in Recipient \ {r} : down'[s] = down[s]
    BY <1>2, <2>1 DEF Answer
  <2>3. \A s \in Recipient \ {r} : up'[s] = up[s]
    BY <1>1, <2>2, TakeRetry
  <2> QED
    BY <1>1, <1>3, <2>1, <2>2, <2>3, OneRetry
<1>8. CASE HandleHeaderFails(r)
  <2>1. Fault /\ UNCHANGED <<entry, part, down, broken>>
    BY <1>8 DEF HandleHeaderFails, receiver
  <2>2. \A s \in Recipient \ {r} : up'[s] = up[s]
    BY <1>1, <2>1, TakeRetry
  <2> QED
    BY <1>1, <1>3, <2>1, <2>2, OneRetry
<1> QED
  BY <1>5, <1>6, <1>7, <1>8 DEF HandleFileHeader

(* A write that is not lost with the stream leaves nothing lost; with the  *)
(* last chunk, the .part file then holds them all.                         *)
LEMMA WrittenSound ==
  ASSUME IInv, RetryInv, NEW r \in Recipient, NEW c \in Chunk, Writable(r, c),
         NEW p \in Written(r, c), Notice(p, c), ~broken'
  PROVE  /\ \A x \in Chunk : Lost(x) \notin p
         /\ entry[r].got \cup {c} = Chunk => p = Chunk
<1>1. /\ entry[r] # NoEntry /\ c \notin entry[r].got /\ entry[r].got \subseteq Chunk
      /\ part[r] \in SUBSET PartItem
  BY AtRecipient DEF Writable, Entry
<1>2. ~broken /\ Lost(c) \notin p
  BY DEF Notice
<1>3. \A x \in Chunk : Lost(x) \notin part[r]
  BY <1>2 DEF RetryInv, Sound
<1>4. p = (part[r] \ {Lost(c)}) \cup {c}
  BY <1>2 DEF Written
<1>5. \A x \in Chunk : Lost(x) # c
  BY Constants, SMT DEF Lost, Chunk
<1>6. \A x \in Chunk : Lost(x) \notin p
  BY <1>3, <1>4, <1>5
<1>7. ~entry[r].done
  BY <1>1 DEF RetryInv
<1>8. entry[r].got \subseteq part[r] /\ part[r] \subseteq Chunk
  <2>1. Covers(part[r], entry[r].got)
    BY <1>1, <1>7, AtRecipient
  <2>2. \A x \in entry[r].got : x \in part[r]
    BY <1>1, <1>3, <2>1 DEF Covers
  <2>3. \A y \in part[r] : y \in Chunk
    <3> SUFFICES ASSUME NEW y \in part[r], y \notin Chunk PROVE FALSE
      OBVIOUS
    <3>1. PICK x \in Chunk : y = Lost(x)
      BY <1>1 DEF PartItem
    <3> QED
      BY <1>3, <3>1
  <2> QED
    BY <2>2, <2>3
<1>9. entry[r].got \cup {c} = Chunk => p = Chunk
  BY <1>3, <1>4, <1>8
<1> QED
  BY <1>6, <1>9

(* A chunk arrives: it is acknowledged, or a fault is counted.             *)
LEMMA ChunkRetry ==
  ASSUME IInv, RetryInv, Patient, MaxRanges > 1, NEW r \in Recipient, HandleFileChunk(r)
  PROVE  RetryInv'
<1>0. PICK c \in Chunk :
        /\ Take(r, Frame(c)) /\ UNCHANGED sender
        /\ \/ ChunkDropped(r, c) \/ ChunkDuplicate(r, c) \/ ChunkNotWritten(r, c)
           \/ ChunkWritten(r, c) \/ ChunkCommits(r, c) \/ ChunkNotCommitted(r, c)
  BY FramesDiffer DEF HandleFileChunk
<1>1. /\ down \in [Recipient -> SUBSET DownFrame] /\ entry \in [Recipient -> Entry]
      /\ part \in [Recipient -> (SUBSET PartItem) \cup {NoFile}] /\ broken \in BOOLEAN
  BY DEF IInv, TypeOK
<1>2. /\ entry[r].done => entry[r].got = Chunk
      /\ ~broken => \A x \in Chunk : Lost(x) \notin part[r]
      /\ ~broken /\ r \in keys => Refusal \notin down[r] /\ (down[r] # {} => entry[r] # NoEntry)
  BY DEF RetryInv, Sound, Served
<1>3. ASSUME down[r] \subseteq down'[r]
      PROVE  /\ \A s \in Recipient \ {r} : up'[s] = up[s]
             /\ \A j \in Waiting(window[r]) \ {c} : Carried(r, j) => Carried(r, j)'
  <2>1. c \in Chunk \cup {Header} /\ Take(r, Frame(c))
    BY <1>0
  <2> QED
    BY <1>3, <2>1, TakeRetry
<1>4. ASSUME NEW e \in Entry, PrefixHeld(e), Answer(r, Ack(FocusRuns(e, c)))
      PROVE  /\ \A s \in Recipient \ {r} : up'[s] = up[s] /\ down'[s] = down[s]
             /\ c \in e.got => \A i \in Waiting(window[r]) : Carried(r, i) => Carried(r, i)'
             /\ Refusal \notin down[r] => Refusal \notin down'[r]
  <2> DEFINE a == Ack(FocusRuns(e, c))
  <2>1. a # Refusal /\ a.got = FocusRuns(e, c)
    BY SMT DEF Ack, Refusal
  <2>2. Answer(r, a)
    BY <1>4
  <2> HIDE DEF a
  <2>3. down'[r] = down[r] \cup {a} /\ \A s \in Recipient \ {r} : down'[s] = down[s]
    BY <1>1, <2>2 DEF Answer
  <2>4. c \in e.got => Carried(r, c)'
    <3>1. c \in e.got => c \in a.got
      BY <1>4, <2>1, FocusReported
    <3> QED
      BY <2>3, <3>1, FramesDiffer DEF Carried
  <2>5. /\ \A s \in Recipient \ {r} : up'[s] = up[s]
        /\ \A j \in Waiting(window[r]) \ {c} : Carried(r, j) => Carried(r, j)'
    BY <2>3, <1>3
  <2> QED
    BY <2>1, <2>3, <2>4, <2>5
<1>5. CASE ChunkDropped(r, c)
  <2>1. /\ entry[r] = NoEntry \/ (c \notin entry[r].got /\ part[r] = NoFile)
        /\ UNCHANGED <<entry, part, down, faults, broken>>
    BY <1>5 DEF ChunkDropped, receiver
  <2>2. ASSUME ~broken', r \in keys PROVE c \notin Waiting(window[r])
    <3>1. Served(r)
      BY <2>1, <2>2 DEF RetryInv, Sound
    <3>2. entry[r] = NoEntry
      BY <1>2, <2>1, AtRecipient
    <3> QED
      BY <3>1, <3>2, FramesDiffer DEF Served, Waiting
  <2>3. /\ \A s \in Recipient \ {r} : up'[s] = up[s]
        /\ \A j \in Waiting(window[r]) \ {c} : Carried(r, j) => Carried(r, j)'
    BY <1>3, <2>1
  <2> QED
    BY <1>0, <1>2, <2>1, <2>2, <2>3, OneRetry
<1>6. CASE ChunkDuplicate(r, c)
  <2>1. /\ entry[r] # NoEntry /\ c \in entry[r].got /\ Answer(r, Ack(FocusRuns(entry[r], c)))
        /\ UNCHANGED <<entry, part, faults, broken>>
    BY <1>6 DEF ChunkDuplicate, receiver
  <2>2. entry[r] \in Entry /\ PrefixHeld(entry[r])
    BY AtRecipient
  <2> QED
    BY <1>0, <1>2, <1>4, <2>1, <2>2, OneRetry
<1>7. CASE ChunkNotWritten(r, c)
  <2>1. Fault /\ UNCHANGED <<entry, part, down, broken>>
    BY <1>7 DEF ChunkNotWritten, receiver
  <2>2. \A s \in Recipient \ {r} : up'[s] = up[s]
    BY <1>3, <2>1
  <2> QED
    BY <1>0, <1>2, <2>1, <2>2, OneRetry
<1> DEFINE e == Record(entry[r], c)
<1>8. ASSUME Writable(r, c)
      PROVE  /\ e \in Entry /\ PrefixHeld(e) /\ e # NoEntry
             /\ e.got = entry[r].got \cup {c} /\ ~e.done
  <2>1. entry[r] # NoEntry /\ c \notin entry[r].got
    BY <1>8 DEF Writable
  <2>2. /\ e \in Entry /\ PrefixHeld(e) /\ e # NoEntry
        /\ e.got = entry[r].got \cup {c} /\ e.done = entry[r].done
    BY <2>1, AtRecipient, RecordInv, SMT
  <2> QED
    BY <1>2, <2>1, <2>2
<1>9. CASE ChunkWritten(r, c)
  <2>1. PICK p \in Written(r, c) :
          /\ Writable(r, c) /\ Notice(p, c)
          /\ entry' = [entry EXCEPT ![r] = e] /\ part' = [part EXCEPT ![r] = p]
          /\ Answer(r, Ack(FocusRuns(e, c))) /\ UNCHANGED faults
    BY <1>9 DEF ChunkWritten
  <2>2. e \in Entry /\ PrefixHeld(e) /\ e # NoEntry /\ c \in e.got /\ ~e.done
    BY <1>8, <2>1
  <2>3. ~broken' => \A x \in Chunk : Lost(x) \notin p
    BY <2>1, WrittenSound
  <2>4. broken => broken'
    BY <2>1 DEF Notice
  <2> HIDE DEF e
  <2>5. /\ entry'[r] = e /\ part'[r] = p
        /\ \A s \in Recipient \ {r} : entry'[s] = entry[s] /\ part'[s] = part[s]
    BY <1>1, <2>1
  <2> QED
    BY <1>0, <1>2, <1>4, <2>1, <2>2, <2>3, <2>4, <2>5, OneRetry
<1>10. CASE ChunkCommits(r, c)
  <2> DEFINE x == [e EXCEPT !.done = TRUE]
  <2>1. /\ Writable(r, c) /\ e.got = Chunk
        /\ entry' = [entry EXCEPT ![r] = x] /\ part' = [part EXCEPT ![r] = NoFile]
        /\ Answer(r, Ack(FocusRuns(e, c))) /\ UNCHANGED <<faults, broken>>
    BY <1>10 DEF ChunkCommits
  <2>2. e \in Entry /\ PrefixHeld(e) /\ c \in e.got
    BY <1>8, <2>1
  <2> HIDE DEF e
  <2>3. x \in Entry /\ x.got = e.got /\ x.done
    BY <2>2 DEF Entry
  <2>4. x # NoEntry
    BY <2>3 DEF NoEntry
  <2>5. \A y \in Chunk : Lost(y) \notin NoFile
    BY Constants, SMT DEF Lost, NoFile, Header, Chunk
  <2> HIDE DEF x
  <2>6. /\ entry'[r] = x /\ part'[r] = NoFile
        /\ \A s \in Recipient \ {r} : entry'[s] = entry[s] /\ part'[s] = part[s]
    BY <1>1, <2>1
  <2> QED
    BY <1>0, <1>2, <1>4, <2>1, <2>2, <2>3, <2>4, <2>5, <2>6, OneRetry
<1>11. CASE ChunkNotCommitted(r, c)
  <2> DEFINE x == Remove(e, c)
  <2>1. PICK p \in Written(r, c) :
          /\ Writable(r, c) /\ Notice(p, c) /\ entry[r].got \cup {c} = Chunk
          /\ IF p = Chunk THEN Fault ELSE UNCHANGED faults
          /\ entry' = [entry EXCEPT ![r] = x] /\ part' = [part EXCEPT ![r] = p]
          /\ Answer(r, Ack(FocusRuns(x, c)))
    BY <1>11, ZenonT(30) DEF ChunkNotCommitted
  <2>2. e \in Entry /\ PrefixHeld(e) /\ e # NoEntry /\ ~e.done
    BY <1>8, <2>1
  <2>3. ~broken' => Fault /\ \A y \in Chunk : Lost(y) \notin p
    BY <2>1, WrittenSound
  <2>4. broken => broken'
    BY <2>1 DEF Notice
  <2> HIDE DEF e
  <2>5. x \in Entry /\ PrefixHeld(x) /\ x # NoEntry /\ ~x.done
    BY <2>2, RemoveInv
  <2> HIDE DEF x
  <2>6. /\ entry'[r] = x /\ part'[r] = p
        /\ \A s \in Recipient \ {r} : entry'[s] = entry[s] /\ part'[s] = part[s]
    BY <1>1, <2>1
  <2>7. Fault \/ faults' = faults
    BY <2>1
  <2> QED
    BY <1>0, <1>2, <1>4, <2>1, <2>3, <2>4, <2>5, <2>6, <2>7, OneRetry
<1> QED
  BY <1>0, <1>5, <1>6, <1>7, <1>9, <1>10, <1>11

(* A transfer is dropped of a recipient that is not served.                *)
LEMMA DiscardRetry ==
  ASSUME IInv, RetryInv, NEW r \in Recipient, HandleFileCancel(r) \/ Expire(r)
  PROVE  RetryInv'
<1>1. r \notin keys
  BY DEF IInv, ServedUncancelled, HandleFileCancel, Expire
<1>2. /\ UNCHANGED sender /\ UNCHANGED <<faults, broken>>
      /\ entry' = [entry EXCEPT ![r] = NoEntry]
      /\ part' = part \/ part' = [part EXCEPT ![r] = NoFile]
  BY DEF HandleFileCancel, Expire, Discard
<1>3. /\ up \in [Recipient -> SUBSET UpFrame] /\ down \in [Recipient -> SUBSET DownFrame]
      /\ entry \in [Recipient -> Entry]
      /\ part \in [Recipient -> (SUBSET PartItem) \cup {NoFile}]
  BY DEF IInv, TypeOK
<1>4. \A s \in Recipient \ {r} : up'[s] = up[s] /\ down'[s] = down[s]
  BY <1>3 DEF HandleFileCancel, Expire, Answer
<1>5. /\ entry'[r] = NoEntry /\ part'[r] \in {part[r], NoFile}
      /\ \A s \in Recipient \ {r} : entry'[s] = entry[s] /\ part'[s] = part[s]
  BY <1>2, <1>3
<1>6. ~NoEntry.done /\ \A y \in Chunk : Lost(y) \notin NoFile
  BY Constants, SMT DEF NoEntry, Lost, NoFile, Header, Chunk
<1>7. ~broken' => \A y \in Chunk : Lost(y) \notin part'[r]
  BY <1>2, <1>5, <1>6 DEF RetryInv, Sound
<1> QED
  BY <1>1, <1>2, <1>4, <1>5, <1>6, <1>7, OneRetry

(* What a round does to the items of a window that is served and does not  *)
(* fail: a fresh item is sent, an overdue one, which is not on its way, is *)
(* counted and sent again, the others are left alone.                      *)
LEMMA PollPays ==
  ASSUME NEW w \in WindowState, WindowPhase(w), ~Complete(w), NEW due,
         due \subseteq Waiting(w), ~Poll(w, due).failed,
         NEW i \in Waiting(Poll(w, due))
  PROVE  \/ i \in Sends(w, due) /\ i \notin Waiting(w) /\ Tries(Poll(w, due), i) = 0
         \/ i \in Sends(w, due) /\ i \in due /\ Tries(Poll(w, due), i) = Tries(w, i) + 1
         \/ i \in Waiting(w) /\ Tries(Poll(w, due), i) = Tries(w, i)
<1> DEFINE p == Poll(w, due)
<1>1. ~w.failed /\ InFlight(w) \subseteq Chunk /\ Fresh(w) \subseteq Chunk
  BY Finite DEF Poll, WindowState, InFlight, Fresh, Unsent
<1>2. CASE w.headerReceived
  <2> DEFINE t == [c \in InFlight(w) \cup Fresh(w) |->
                     IF c \notin InFlight(w) THEN 0
                     ELSE IF c \in due THEN w.tries[c] + 1 ELSE w.tries[c]]
  <2>1. p = PollChunks(w, due)
    BY <1>1, <1>2 DEF Poll
  <2>2. p = [w EXCEPT !.tries = t, !.next = NextChunk(w)]
    BY <2>1 DEF PollChunks, WindowState
  <2>3. p.headerReceived /\ p.tries = t
    BY <1>2, <2>2 DEF WindowState
  <2>4. /\ i \in InFlight(w) \cup Fresh(w) /\ i # Header
        /\ Tries(p, i) = IF i \notin InFlight(w) THEN 0
                         ELSE IF i \in due THEN w.tries[i] + 1 ELSE w.tries[i]
    BY <1>1, <2>3, FramesDiffer DEF Waiting, InFlight, Tries
  <2> QED
    BY <1>2, <2>4 DEF Sends, Waiting, Tries
<1>3. CASE ~w.headerReceived
  <2>1. p = PollHeader(w, due)
    BY <1>1, <1>3 DEF Poll
  <2>2. CASE ~w.headerSent
    <3>1. p = [w EXCEPT !.headerSent = TRUE] /\ w.headerTries = 0
      BY <2>1, <2>2 DEF PollHeader, WindowPhase
    <3>2. p.headerTries = 0 /\ ~p.headerReceived
      BY <1>3, <3>1 DEF WindowState
    <3> QED
      BY <1>3, <2>2, <3>2 DEF Waiting, Tries, Sends
  <2>3. CASE w.headerSent /\ Header \notin due
    BY <1>3, <2>1, <2>3 DEF PollHeader
  <2>4. CASE w.headerSent /\ Header \in due
    <3>1. p = [w EXCEPT !.headerTries = w.headerTries + 1]
      BY <2>1, <2>4 DEF PollHeader, WindowState
    <3>2. p.headerTries = w.headerTries + 1 /\ ~p.headerReceived
      BY <1>3, <3>1 DEF WindowState
    <3> QED
      BY <1>3, <2>4, <3>2 DEF Waiting, Tries, Sends
  <2> QED
    BY <2>2, <2>3, <2>4
<1> QED
  BY <1>2, <1>3

(* A round sends no chunk before the header was received.                  *)
LEMMA PollPhase ==
  ASSUME NEW w \in WindowState, WindowPhase(w), NEW due
  PROVE  WindowPhase(Poll(w, due)) /\ Poll(w, due).headerReceived = w.headerReceived
<1> DEFINE p == Poll(w, due)
<1>1. CASE w.headerReceived
  <2>1. p \in {w, PollChunks(w, due)}
    BY <1>1 DEF Poll
  <2>2. /\ p.headerReceived = w.headerReceived /\ p.headerSent = w.headerSent
        /\ p.headerTries = w.headerTries
    BY <2>1 DEF PollChunks, WindowState
  <2> QED
    BY <1>1, <2>2 DEF WindowPhase
<1>2. CASE ~w.headerReceived
  <2>1. p \in {w, PollHeader(w, due)}
    BY <1>2 DEF Poll
  <2>2. CASE w.headerSent
    <3>1. /\ p.headerReceived = w.headerReceived /\ p.headerSent
          /\ p.tries = w.tries
      BY <2>1, <2>2 DEF PollHeader, WindowState
    <3> QED
      BY <3>1 DEF WindowPhase, InFlight
  <2>3. CASE ~w.headerSent
    <3>1. /\ p.headerReceived = w.headerReceived /\ p.headerTries = w.headerTries
          /\ p.tries = w.tries
      BY <2>1, <2>3 DEF PollHeader, WindowState
    <3> QED
      BY <2>3, <3>1 DEF WindowPhase, InFlight
  <2> QED
    BY <2>2, <2>3
<1> QED
  BY <1>1, <1>2

(* A window fails over an item that is overdue with its retries used up.   *)
LEMMA PollGivesUp ==
  ASSUME NEW w \in WindowState, ~w.failed, NEW due, Poll(w, due).failed
  PROVE  \E i \in due \cap Waiting(w) : Tries(w, i) >= RetryLimit
<1>1. InFlight(w) \subseteq Chunk
  BY Finite
<1>2. CASE w.headerReceived
  <2>1. PollChunks(w, due).failed
    BY <1>2 DEF Poll
  <2>2. PICK c \in due \cap InFlight(w) : w.tries[c] >= RetryLimit
    BY <2>1 DEF PollChunks, WindowState
  <2> QED
    BY <1>1, <1>2, <2>2, FramesDiffer DEF Waiting, Tries
<1>3. CASE ~w.headerReceived
  <2>1. PollHeader(w, due).failed
    BY <1>3 DEF Poll
  <2>2. w.headerSent /\ Header \in due /\ w.headerTries >= RetryLimit
    BY <2>1 DEF PollHeader, WindowState
  <2> QED
    BY <1>3, <2>2 DEF Waiting, Tries
<1> QED
  BY <1>2, <1>3

(* An overdue item is not on its way: one more retransmission is paid for. *)
LEMMA OverdueSpare ==
  ASSUME Patient, NEW r, NEW i \in Overdue(r), Afforded(r, i)
  PROVE  Tries(window[r], i) < faults
BY DEF Overdue, Afforded, Carried

(* A round that sends.                                                     *)
LEMMA PollAllRetry ==
  ASSUME IInv, RetryInv, Patient, outcome = "running", NEW d \in Deadlines, PollAll(d)
  PROVE  RetryInv'
<1>0. /\ Open \subseteq Recipient /\ Open \subseteq keys
      /\ window \in [Recipient -> WindowState] /\ faults \in Nat
  BY Constants, SMT DEF Open, IInv, TypeOK, MaxFaults
<1>1. /\ keys' = Open /\ Failing(d) = {} /\ outcome' = outcome
      /\ \A s \in Recipient \ Open : window'[s] = window[s]
      /\ \A s \in Open : /\ window'[s] = Poll(window[s], d[s])
                         /\ up'[s] = up[s] \cup {Frame(i) : i \in Sends(window[s], d[s])}
      /\ UNCHANGED <<entry, part, down, faults, broken>>
  BY <1>0 DEF PollAll, Polled, receiver
<1>2. RetriesSuffice'
  BY <1>1 DEF RetriesSuffice
<1>3. ASSUME NEW s \in Recipient
      PROVE  WindowPhase(window'[s]) /\ (entry'[s].done => entry'[s].got = Chunk)
  <2>1. WindowPhase(window[s]) /\ (entry[s].done => entry[s].got = Chunk)
    BY DEF RetryInv
  <2>2. window[s] \in WindowState
    BY <1>0
  <2>3. WindowPhase(Poll(window[s], d[s]))
    BY <2>1, <2>2, PollPhase
  <2>4. window'[s] = Poll(window[s], d[s]) \/ window'[s] = window[s]
    BY <1>1
  <2>5. entry' = entry
    BY <1>1
  <2> QED
    BY <2>1, <2>3, <2>4, <2>5
<1>4. ASSUME ~broken, NEW s \in Open PROVE Served(s)'
  <2>1. Served(s) /\ WindowPhase(window[s]) /\ window[s] \in WindowState /\ ~Complete(window[s])
    BY <1>0, <1>4 DEF RetryInv, Sound, Open
  <2>2. ~Poll(window[s], d[s]).failed /\ window'[s] = Poll(window[s], d[s])
    BY <1>1 DEF Failing, Polled
  <2>3. window'[s].headerReceived = window[s].headerReceived
    <3>1. Poll(window[s], d[s]).headerReceived = window[s].headerReceived
      BY <2>1, PollPhase
    <3> QED
      BY <2>2, <3>1
  <2>4. d[s] \subseteq Overdue(s) /\ d[s] \subseteq Waiting(window[s])
    BY DEF Deadlines, Overdue
  <2>5. ASSUME NEW i \in Waiting(window'[s]) PROVE Afforded(s, i)'
    <3> DEFINE w == window[s]
               p == Poll(w, d[s])
    <3>1. \/ i \in Sends(w, d[s]) /\ i \notin Waiting(w) /\ Tries(p, i) = 0
          \/ i \in Sends(w, d[s]) /\ i \in d[s] /\ Tries(p, i) = Tries(w, i) + 1
          \/ i \in Waiting(w) /\ Tries(p, i) = Tries(w, i)
      <4>1. /\ w \in WindowState /\ WindowPhase(w) /\ ~Complete(w) /\ d[s] \subseteq Waiting(w)
            /\ ~p.failed /\ i \in Waiting(p)
        BY <2>1, <2>2, <2>4, <2>5
      <4> HIDE DEF w
      <4> QED
        BY <4>1, PollPays
    <3>2. /\ i \in Sends(w, d[s]) => Carried(s, i)'
          /\ Carried(s, i) => Carried(s, i)'
      BY <1>1 DEF Carried
    <3>3. /\ i \in Waiting(w) => Afforded(s, i) /\ Tries(w, i) \in Nat
      BY <2>1, WaitingItems, Constants, SMT DEF Served
    <3>4. i \in d[s] => i \in Waiting(w) /\ Tries(w, i) < faults
      BY <2>4, <3>3, OverdueSpare
    <3>5. window'[s] = p
      BY <1>1
    <3> HIDE DEF w, p
    <3>6. \/ Tries(p, i) < faults
          \/ Tries(p, i) = faults /\ Carried(s, i)'
      <4>1. CASE i \in Sends(w, d[s]) /\ Tries(p, i) = 0
        BY <1>0, <3>2, <4>1, SMT
      <4>2. CASE i \in Sends(w, d[s]) /\ i \in d[s] /\ Tries(p, i) = Tries(w, i) + 1
        BY <1>0, <3>2, <3>3, <3>4, <4>2, SMT
      <4>3. CASE i \in Waiting(w) /\ Tries(p, i) = Tries(w, i)
        BY <3>2, <3>3, <4>3 DEF Afforded, w
      <4> QED
        BY <3>1, <4>1, <4>2, <4>3
    <3> QED
      BY <1>1, <3>5, <3>6 DEF Afforded
  <2> QED
    BY <1>1, <2>1, <2>2, <2>3, <2>5 DEF Served
<1>5. ~broken' => Sound'
  BY <1>1, <1>4 DEF RetryInv, Sound
<1> QED
  BY <1>2, <1>3, <1>5 DEF RetryInv

(* The rounds that end send_file, and the stop.                            *)
LEMMA EndRetry ==
  ASSUME IInv, RetryInv, Patient, outcome = "running",
         \/ AllComplete
         \/ \E d \in Deadlines : PollFails(d)
         \/ \E d \in Deadlines, r \in Open, c \in Chunk : ReadFails(d, r, c)
         \/ Stop
  PROVE  RetryInv'
<1>1. PICK result \in {"success", "failed", "stopped"} :
        /\ Finish(result) /\ UNCHANGED <<entry, part, down, faults>>
        /\ broken => broken'
        /\ result = "failed" => broken' \/ \E d \in Deadlines : PollFails(d)
  <2>1. CASE AllComplete
    <3>1. Finish("success") /\ UNCHANGED <<entry, part, down, faults, broken>>
      BY <2>1 DEF AllComplete, receiver
    <3> QED
      BY <3>1
  <2>2. CASE \E d \in Deadlines : PollFails(d)
    <3>1. Finish("failed") /\ UNCHANGED <<entry, part, down, faults, broken>>
      BY <2>2 DEF PollFails, receiver
    <3> QED
      BY <2>2, <3>1
  <2>3. CASE \E d \in Deadlines, r \in Open, c \in Chunk : ReadFails(d, r, c)
    <3>1. Finish("failed") /\ UNCHANGED <<entry, part, down, faults>> /\ broken'
      BY <2>3 DEF ReadFails, receiver
    <3> QED
      BY <3>1
  <2>4. CASE Stop
    <3>1. Finish("stopped") /\ UNCHANGED <<entry, part, down, faults, broken>>
      BY <2>4 DEF Stop, receiver
    <3> QED
      BY <3>1
  <2> QED
    BY <2>1, <2>2, <2>3, <2>4
<1>2. ASSUME NEW d \in Deadlines, PollFails(d) PROVE broken \/ faults > RetryLimit
  <2> SUFFICES ASSUME ~broken PROVE faults > RetryLimit
    OBVIOUS
  <2>1. PICK s \in Open : Poll(window[s], d[s]).failed
    BY <1>2 DEF PollFails, Failing, Polled
  <2>2. Served(s) /\ window[s] \in WindowState
    BY DEF RetryInv, Sound, Open, IInv, TypeOK
  <2>3. PICK i \in d[s] \cap Waiting(window[s]) : Tries(window[s], i) >= RetryLimit
    BY <2>1, <2>2, PollGivesUp DEF Served
  <2>4. Tries(window[s], i) < faults
    BY <2>2, <2>3, OverdueSpare DEF Deadlines, Served
  <2>5. Tries(window[s], i) \in 0..RetryLimit /\ faults \in 0..MaxFaults
    BY <2>2, WaitingItems DEF IInv, TypeOK
  <2> QED
    BY <2>3, <2>4, <2>5, Constants, SMT DEF MaxFaults
<1>3. RetriesSuffice'
  <2>1. outcome' = result /\ faults' = faults
    BY <1>1 DEF Finish
  <2>2. ASSUME NEW d \in Deadlines, PollFails(d) PROVE broken' \/ faults > RetryLimit
    BY <1>1, <1>2, <2>2
  <2> QED
    BY <1>1, <2>1, <2>2 DEF RetriesSuffice
<1>4. ASSUME NEW s \in Recipient
      PROVE  WindowPhase(window'[s]) /\ (entry'[s].done => entry'[s].got = Chunk)
  <2>1. window'[s] = NewWindow
    BY <1>1 DEF Finish
  <2>2. WindowPhase(NewWindow)
    BY DEF WindowPhase, NewWindow, InFlight
  <2> QED
    BY <1>1, <2>1, <2>2 DEF RetryInv
<1>5. ~broken' => Sound'
  <2>1. keys' = {}
    BY <1>1 DEF Finish
  <2> QED
    BY <1>1, <2>1 DEF RetryInv, Sound
<1> QED
  BY <1>3, <1>4, <1>5 DEF RetryInv

(* An acknowledgement reaches the sender: what it reports is no longer     *)
(* waited for, and what it does not report is carried by something else.   *)
LEMMA AckRetry ==
  ASSUME IInv, RetryInv, Patient, NEW r \in Recipient, HandleFileAck(r)
  PROVE  RetryInv'
<1>1. PICK a \in down[r] :
        /\ down' = [down EXCEPT ![r] = down[r] \ {a}]
        /\ window' = IF r \in keys
                       THEN [window EXCEPT ![r] = Acknowledge(@, a.got)]
                       ELSE window
        /\ UNCHANGED <<keys, outcome, entry, part, up, faults, broken>>
  BY DEF HandleFileAck, Rest, receiver
<1>2. /\ down \in [Recipient -> SUBSET DownFrame] /\ window \in [Recipient -> WindowState]
      /\ keys \subseteq Recipient
  BY DEF IInv, TypeOK
<1>3. down'[r] = down[r] \ {a} /\ \A s \in Recipient \ {r} : down'[s] = down[s]
  BY <1>1, <1>2
<1>4. CASE r \notin keys
  <2>1. UNCHANGED sender
    BY <1>1, <1>4 DEF sender
  <2>2. /\ entry[r].done => entry[r].got = Chunk
        /\ ~broken => \A c \in Chunk : Lost(c) \notin part[r]
    BY DEF RetryInv, Sound
  <2> QED
    BY <1>1, <1>3, <1>4, <2>1, <2>2, OneRetry
<1>5. CASE r \in keys
  <2> DEFINE w == window[r]
             v == Acknowledge(w, a.got)
  <2>1. window'[r] = v /\ \A s \in Recipient \ {r} : window'[s] = window[s]
    BY <1>1, <1>2, <1>5
  <2>2. w \in WindowState /\ WindowPhase(w)
    BY <1>2 DEF RetryInv
  <2>3. /\ v.headerSent = w.headerSent /\ v.headerTries = w.headerTries /\ v.failed = w.failed
        /\ w.failed => v = w
        /\ ~w.failed => /\ v.headerReceived
                        /\ v.tries = [c \in InFlight(w) \ a.got |-> w.tries[c]]
    BY <2>2 DEF Acknowledge, WindowState
  <2> HIDE DEF w, v
  <2>4. WindowPhase(v)
    BY <2>2, <2>3 DEF WindowPhase
  <2>5. RetriesSuffice'
    BY <1>1 DEF RetryInv, RetriesSuffice
  <2>6. ASSUME NEW s \in Recipient
        PROVE  WindowPhase(window'[s]) /\ (entry'[s].done => entry'[s].got = Chunk)
    BY <1>1, <2>1, <2>4 DEF RetryInv
  <2>7. ASSUME ~broken PROVE Served(r)'
    <3>1. Served(r)
      BY <1>5, <2>7 DEF RetryInv, Sound
    <3>2. ~w.failed /\ Refusal \notin down[r] /\ entry[r] # NoEntry
      BY <3>1 DEF Served, w
    <3>3. v.headerReceived /\ InFlight(v) = InFlight(w) \ a.got
      BY <2>3, <3>2 DEF InFlight
    <3>4. ASSUME NEW i \in Waiting(v) PROVE Afforded(r, i)'
      <4>1. i \in InFlight(w) \ a.got
        BY <3>3 DEF Waiting
      <4>2. i \in Chunk /\ i # Header
        BY <2>2, <4>1, Finite, FramesDiffer
      <4>3. i \in Waiting(w)
        BY <2>2, <4>1 DEF WindowPhase, Waiting
      <4>4. Afforded(r, i)
        BY <3>1, <4>3 DEF Served, w
      <4>5. Tries(v, i) = Tries(w, i)
        BY <2>3, <3>2, <4>1, <4>2 DEF Tries
      <4>6. Carried(r, i) => Carried(r, i)'
        BY <1>1, <1>3, <4>1, <4>2 DEF Carried
      <4> QED
        BY <1>1, <2>1, <4>4, <4>5, <4>6 DEF Afforded, w
    <3> QED
      BY <1>1, <1>3, <2>1, <2>3, <3>2, <3>4 DEF Served
  <2>8. ASSUME ~broken, NEW s \in keys, s # r PROVE Served(s)'
    <3>1. s \in Recipient /\ Served(s)
      BY <1>2, <2>8 DEF RetryInv, Sound
    <3>2. window'[s] = window[s] /\ down'[s] = down[s]
      BY <1>3, <2>1, <2>8, <3>1
    <3> QED
      BY <1>1, <3>1, <3>2 DEF Served, Afforded, Carried
  <2>9. ~broken' => Sound'
    BY <1>1, <2>7, <2>8 DEF RetryInv, Sound
  <2> QED
    BY <2>5, <2>6, <2>9 DEF RetryInv
<1> QED
  BY <1>4, <1>5

(* A CANCEL reaches the sender: of a recipient that is served, only after  *)
(* something broke.                                                        *)
LEMMA RefusalRetry ==
  ASSUME IInv, RetryInv, NEW r \in Recipient, HandleRefusal(r)
  PROVE  RetryInv'
<1>1. /\ Refusal \in down[r] /\ down' = [down EXCEPT ![r] = down[r] \ {Refusal}]
      /\ window' = IF r \in keys THEN [window EXCEPT ![r].failed = TRUE] ELSE window
      /\ UNCHANGED <<keys, outcome, entry, part, up, faults, broken>>
  BY DEF HandleRefusal, receiver
<1>2. /\ down \in [Recipient -> SUBSET DownFrame] /\ window \in [Recipient -> WindowState]
      /\ keys \subseteq Recipient
  BY DEF IInv, TypeOK
<1>3. CASE r \notin keys
  <2>1. UNCHANGED sender
    BY <1>1, <1>3 DEF sender
  <2>2. /\ entry[r].done => entry[r].got = Chunk
        /\ ~broken => \A c \in Chunk : Lost(c) \notin part[r]
    BY DEF RetryInv, Sound
  <2>3. \A s \in Recipient \ {r} : down'[s] = down[s]
    BY <1>1, <1>2
  <2> QED
    BY <1>1, <1>3, <2>1, <2>2, <2>3, OneRetry
<1>4. CASE r \in keys
  <2>1. broken /\ broken'
    BY <1>1, <1>4 DEF RetryInv, Sound, Served
  <2>2. RetriesSuffice'
    BY <1>1 DEF RetryInv, RetriesSuffice
  <2>3. ASSUME NEW s \in Recipient
        PROVE  WindowPhase(window'[s]) /\ (entry'[s].done => entry'[s].got = Chunk)
    <3>1. WindowPhase(window[s]) /\ (entry[s].done => entry[s].got = Chunk)
      BY DEF RetryInv
    <3>2. window'[s] = window[s] \/ window'[s] = [window[s] EXCEPT !.failed = TRUE]
      BY <1>1, <1>2
    <3>3. /\ window'[s].headerSent = window[s].headerSent
          /\ window'[s].headerTries = window[s].headerTries
          /\ window'[s].headerReceived = window[s].headerReceived
          /\ window'[s].tries = window[s].tries
      BY <1>2, <3>2 DEF WindowState
    <3> QED
      BY <1>1, <3>1, <3>3 DEF WindowPhase, InFlight
  <2> QED
    BY <2>1, <2>2, <2>3 DEF RetryInv
<1> QED
  BY <1>3, <1>4

(* Every step keeps it.                                                    *)
LEMMA NextRetry ==
  ASSUME Patient, MaxRanges > 1
  PROVE  IInv /\ RetryInv /\ [Next]_vars => RetryInv'
<1> SUFFICES ASSUME IInv, RetryInv, [Next]_vars PROVE RetryInv'
  OBVIOUS
<1>1. CASE SendFile
  <2>1. CASE \E d \in Deadlines : PollAll(d)
    BY <1>1, <2>1, PollAllRetry DEF SendFile
  <2> QED
    BY <1>1, <2>1, EndRetry DEF SendFile, Round
<1>2. CASE StopSending
  BY <1>2, EndRetry DEF StopSending
<1>3. CASE \E r \in Recipient : HandleFileAck(r) \/ HandleRefusal(r)
  BY <1>3, AckRetry, RefusalRetry
<1>4. CASE \E r \in Recipient : Lose(r)
  BY <1>4, LoseRetry
<1>5. CASE \E r \in Recipient : HandleFileHeader(r)
  BY <1>5, HeaderRetry
<1>6. CASE \E r \in Recipient : HandleFileChunk(r)
  BY <1>6, ChunkRetry
<1>7. CASE \E r \in Recipient : HandleFileCancel(r) \/ Expire(r)
  BY <1>7, DiscardRetry
<1>8. CASE UNCHANGED vars
  BY <1>8 DEF vars, RetryInv, RetriesSuffice, WindowPhase, InFlight, Sound, Served,
              Afforded, Tries, Carried, Waiting
<1> QED
  BY <1>1, <1>2, <1>3, <1>4, <1>5, <1>6, <1>7, <1>8 DEF Next

(* It holds at the start.                                                  *)
LEMMA InitRetry == Init => RetryInv
<1> SUFFICES ASSUME Init PROVE RetryInv
  OBVIOUS
<1>1. \A c \in Chunk : Lost(c) \notin NoFile
  BY Constants, SMT DEF Lost, NoFile, Header, Chunk
<1>2. WindowPhase(NewWindow) /\ ~NewWindow.failed /\ Waiting(NewWindow) = {}
  BY DEF WindowPhase, NewWindow, InFlight, Waiting
<1>3. ~NoEntry.done /\ ~NewWindow.headerReceived
  BY DEF NoEntry, NewWindow
<1>4. ASSUME NEW r \in Recipient PROVE Served(r)
  BY <1>2, <1>3 DEF Init, Served
<1>5. Sound
  BY <1>1, <1>4 DEF Init, Sound
<1>6. \A r \in Recipient : WindowPhase(window[r]) /\ ~entry[r].done
  BY <1>2, <1>3 DEF Init
<1>7. RetriesSuffice
  BY DEF Init, RetriesSuffice
<1> QED
  BY <1>5, <1>6, <1>7 DEF RetryInv

(* If no retransmission overtakes an answer and an acknowledgement has     *)
(* room for two ranges, RetryLimit retransmissions of each item are enough *)
(* for RetryLimit faults in all: send_file fails only when more frames     *)
(* were lost and disk operations failed than that, or a recipient refused, *)
(* the source could not be read or a write was lost unnoticed.             *)
THEOREM RetriesAreEnough ==
  ASSUME Patient, MaxRanges > 1
  PROVE  Spec => []RetriesSuffice
<1>1. IInv /\ RetryInv /\ [Next]_vars => RetryInv'
  BY NextRetry
<1>2. RetryInv => RetriesSuffice
  BY DEF RetryInv
<1> QED
  BY <1>1, <1>2, InitIInv, NextIInv, InitRetry, PTL DEF Spec
=============================================================================
