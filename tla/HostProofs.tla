----------------------------- MODULE HostProofs -----------------------------
(***************************************************************************)
(* What holds of two parts of a host, the transport and the downloads.     *)
(*                                                                         *)
(* Transport implements DatagramQueue, the bookkeeping of its queue is     *)
(* exact and its calls of the socket find it open, for every set of peers  *)
(* and sizes, all limits and any number of callers.  The downloads are     *)
(* sound for all offers and limits.                                        *)
(***************************************************************************)
EXTENDS Transport, IncomingFiles, FiniteSetTheorems, SequenceTheorems, TLAPS

(* Most leaves are steps of logic and sets, for Zenon; those that need     *)
(* arithmetic, or more of functions and records, name SMT.                 *)
USE Zenon

-----------------------------------------------------------------------------
(* Sums.                                                                   *)

(* The value at x, nothing where there is none.                            *)
At(f, x) == IF x \in DOMAIN f THEN f[x] ELSE 0

Unit(x, b) == <<x, b>>

(* The units at x.                                                         *)
Column(f, x) == {Unit(x, b) : b \in 1 .. At(f, x)}

(* A unit is an argument and a number up to the value there.               *)
LEMMA UnitIs ==
  ASSUME NEW f, NEW u
  PROVE  u \in Units(f) <=> \E x \in DOMAIN f : \E b \in 1 .. f[x] : u = Unit(x, b)
BY SMT DEF Units, Unit

(* Different arguments and numbers make different units.                   *)
LEMMA UnitsDiffer ==
  ASSUME NEW x, NEW y, NEW b, NEW c, Unit(x, b) = Unit(y, c)
  PROVE  x = y /\ b = c
BY DEF Unit

(* A set that a function maps one to one onto another has as many members. *)
LEMMA SameCount ==
  ASSUME NEW S, NEW T, IsFiniteSet(S), NEW g \in [S -> T],
         \A a, b \in S : g[a] = g[b] => a = b, \A u \in T : \E b \in S : g[b] = u
  PROVE  IsFiniteSet(T) /\ Cardinality(T) = Cardinality(S)
<1>1. g \in Bijection(S, T)
  BY SMT DEF Bijection, Injection, Surjection, IsInjective
<1>2. ExistsBijection(S, T)
  BY <1>1 DEF ExistsBijection
<1> QED BY <1>2, FS_Bijection

(* There are as many units at x as its value says.                         *)
LEMMA ColumnCount ==
  ASSUME NEW f, NEW x, At(f, x) \in Nat
  PROVE  IsFiniteSet(Column(f, x)) /\ Cardinality(Column(f, x)) = At(f, x)
<1> DEFINE n == At(f, x)
           g == [b \in 1 .. n |-> Unit(x, b)]
<1>1. IsFiniteSet(1 .. n) /\ Cardinality(1 .. n) = n
  <2>1. n \in Nat /\ n \in Int /\ 1 \in Int
    BY SMT
  <2> HIDE DEF n
  <2>2. IsFiniteSet(1 .. n) /\ Cardinality(1 .. n) = IF 1 > n THEN 0 ELSE n - 1 + 1
    BY <2>1, FS_Interval
  <2> QED BY <2>1, <2>2, SMT
<1>2. /\ g \in [1 .. n -> Column(f, x)]
      /\ \A a, b \in 1 .. n : g[a] = g[b] => a = b
      /\ \A u \in Column(f, x) : \E b \in 1 .. n : g[b] = u
  BY UnitsDiffer DEF Column
<1> HIDE DEF g, n
<1>3. IsFiniteSet(Column(f, x)) /\ Cardinality(Column(f, x)) = n
  BY <1>1, <1>2, SameCount
<1> QED BY <1>3 DEF n

(* When the value at x changes the sum changes by as much.                 *)
LEMMA TotalChange ==
  ASSUME NEW f, NEW g, NEW x,
         IsFiniteSet(Units(f)), At(f, x) \in Nat, At(g, x) \in Nat,
         DOMAIN f \ {x} = DOMAIN g \ {x}, \A y \in DOMAIN f \ {x} : f[y] = g[y]
  PROVE  /\ IsFiniteSet(Units(g)) /\ Total(f) \in Nat /\ Total(g) \in Nat
         /\ At(f, x) <= Total(f)
         /\ Total(g) = Total(f) - At(f, x) + At(g, x)
<1> DEFINE A == Column(f, x)
           B == Column(g, x)
           U == Units(f)
<1>1. \A u : u \in A <=> x \in DOMAIN f /\ \E b \in 1 .. f[x] : u = Unit(x, b)
  <2>1. \A b : ~(b \in 1 .. 0)
    BY SMT
  <2> QED BY <2>1 DEF Column, At
<1>2. \A u : u \in B <=> x \in DOMAIN g /\ \E b \in 1 .. g[x] : u = Unit(x, b)
  <2>1. \A b : ~(b \in 1 .. 0)
    BY SMT
  <2> QED BY <2>1 DEF Column, At
<1>0. /\ \A u : u \in Units(f) <=> \E y \in DOMAIN f : \E b \in 1 .. f[y] : u = Unit(y, b)
      /\ \A u : u \in Units(g) <=> \E y \in DOMAIN g : \E b \in 1 .. g[y] : u = Unit(y, b)
  BY UnitIs
<1>3. A \subseteq U
  BY <1>0, <1>1
<1>4. Units(g) = (U \ A) \cup B
  <2>1. ASSUME NEW u \in Units(g) PROVE u \in (U \ A) \cup B
    <3>1. PICK y \in DOMAIN g : \E b \in 1 .. g[y] : u = Unit(y, b)
      BY <1>0, <2>1
    <3>2. CASE y = x
      BY <1>2, <3>1, <3>2
    <3>3. CASE y # x
      <4>1. y \in DOMAIN f /\ f[y] = g[y]
        BY <3>3
      <4>2. u \in U
        BY <1>0, <3>1, <4>1
      <4>3. u \notin A
        BY <1>1, <3>1, <3>3, UnitsDiffer
      <4> QED BY <4>2, <4>3
    <3> QED BY <3>2, <3>3
  <2>2. ASSUME NEW u \in U, u \notin A PROVE u \in Units(g)
    <3>1. PICK y \in DOMAIN f : \E b \in 1 .. f[y] : u = Unit(y, b)
      BY <1>0, <2>2
    <3>2. y # x
      BY <1>1, <2>2, <3>1
    <3>3. y \in DOMAIN g /\ f[y] = g[y]
      BY <3>2
    <3> QED BY <1>0, <3>1, <3>3
  <2>3. B \subseteq Units(g)
    BY <1>0, <1>2
  <2> HIDE DEF A, B, U
  <2> QED BY <2>1, <2>2, <2>3
<1>5. (U \ A) \cap B = {}
  <2>1. ASSUME NEW u \in U, u \notin A, u \in B PROVE FALSE
    <3>1. PICK y \in DOMAIN f : \E b \in 1 .. f[y] : u = Unit(y, b)
      BY <1>0, <2>1
    <3>2. x = y
      BY <1>2, <2>1, <3>1, UnitsDiffer
    <3> QED BY <1>1, <2>1, <3>1, <3>2
  <2> QED BY <2>1
<1>6. /\ IsFiniteSet(A) /\ Cardinality(A) = At(f, x)
      /\ IsFiniteSet(B) /\ Cardinality(B) = At(g, x)
  BY ColumnCount
<1> HIDE DEF A, B
<1>7. /\ IsFiniteSet(U \ A) /\ Cardinality(U \ A) = Cardinality(U) - Cardinality(U \cap A)
      /\ Cardinality(A) <= Cardinality(U)
  BY <1>3, FS_Difference, FS_Subset
<1>8. U \cap A = A
  BY <1>3
<1>9. /\ IsFiniteSet((U \ A) \cup B)
      /\ Cardinality((U \ A) \cup B) = Cardinality(U \ A) + Cardinality(B) - Cardinality((U \ A) \cap B)
  BY <1>6, <1>7, FS_Union
<1>10. Cardinality((U \ A) \cap B) = 0
  BY <1>5, FS_EmptySet
<1>11. Cardinality(U) \in Nat /\ IsFiniteSet(Units(g)) /\ Cardinality(Units(g)) \in Nat
  BY <1>4, <1>9, FS_CardinalityType
<1>12. Cardinality(Units(g)) = Cardinality(U) - At(f, x) + At(g, x)
  <2>1. Cardinality(Units(g)) = Cardinality(U \ A) + Cardinality(B) - 0
    BY <1>4, <1>9, <1>10
  <2>2. Cardinality(U \ A) = Cardinality(U) - At(f, x)
    BY <1>6, <1>7, <1>8
  <2> HIDE DEF U
  <2> QED BY <1>6, <1>11, <2>1, <2>2, SMT
<1>13. At(f, x) <= Cardinality(U)
  BY <1>6, <1>7
<1> QED BY <1>11, <1>12, <1>13 DEF Total

(* Nothing sums up to nothing.                                             *)
LEMMA TotalZero ==
  ASSUME NEW f, \A x \in DOMAIN f : f[x] = 0
  PROVE  IsFiniteSet(Units(f)) /\ Total(f) = 0
<1>1. ASSUME NEW u \in Units(f) PROVE FALSE
  <2>1. PICK x \in DOMAIN f : \E b \in 1 .. f[x] : u = Unit(x, b)
    BY UnitIs, SMT
  <2>2. \E b \in 1 .. 0 : TRUE
    BY <2>1
  <2> QED BY <2>2, SMT
<1>2. Units(f) = {}
  BY <1>1
<1> QED BY <1>2, FS_EmptySet DEF Total

(* A sum is not zero only if some value is not.                            *)
LEMMA TotalPositive ==
  ASSUME NEW f, Total(f) # 0
  PROVE  \E x \in DOMAIN f : f[x] # 0
BY TotalZero

(* One more item.                                                          *)
LEMMA TotalAppend ==
  ASSUME NEW l \in Seq(Nat), IsFiniteSet(Units(l)), NEW n \in Nat
  PROVE  /\ IsFiniteSet(Units(Append(l, n))) /\ Total(l) \in Nat
         /\ Total(Append(l, n)) = Total(l) + n
<1> DEFINE g == Append(l, n)
           x == Len(l) + 1
<1>1. /\ Len(l) \in Nat /\ DOMAIN l = 1 .. Len(l) /\ DOMAIN g = 1 .. Len(l) + 1
      /\ g[Len(l) + 1] = n /\ \A i \in 1 .. Len(l) : g[i] = l[i]
  BY SMT
<1> HIDE DEF g
<1>2. /\ x \notin DOMAIN l /\ x \in DOMAIN g /\ DOMAIN l \ {x} = DOMAIN g \ {x}
      /\ \A y \in DOMAIN l \ {x} : l[y] = g[y]
  BY <1>1, SMT
<1>3. At(l, x) = 0 /\ At(g, x) = n
  BY <1>1, <1>2 DEF At
<1>4. 0 \in Nat
  BY SMT
<1> HIDE DEF x
<1>5. /\ IsFiniteSet(Units(g)) /\ Total(l) \in Nat /\ Total(g) = Total(l) - 0 + n
  BY <1>2, <1>3, <1>4, TotalChange
<1>6. Total(g) = Total(l) + n
  BY <1>5, SMT
<1> QED BY <1>5, <1>6 DEF g

(* The first item is gone and the others move up.                          *)
LEMMA TotalTail ==
  ASSUME NEW l \in Seq(Nat), l # <<>>, IsFiniteSet(Units(l))
  PROVE  /\ IsFiniteSet(Units(Tail(l))) /\ Total(l) \in Nat /\ Total(Tail(l)) \in Nat
         /\ Head(l) <= Total(l) /\ Total(Tail(l)) = Total(l) - Head(l)
<1> DEFINE n == Len(l)
           d == [i \in 2 .. n |-> l[i]]
           t == Tail(l)
<1>1. /\ n \in Nat /\ n > 0 /\ DOMAIN l = 1 .. n /\ \A i \in 1 .. n : l[i] \in Nat
      /\ Head(l) = l[1] /\ DOMAIN t = 1 .. n - 1 /\ \A i \in 1 .. n - 1 : t[i] = l[i + 1]
  BY SMT
<1>2. DOMAIN d = 2 .. n /\ \A i \in 2 .. n : d[i] = l[i]
  OBVIOUS
<1> HIDE DEF n, d, t
<1>3. /\ 1 \in DOMAIN l /\ 1 \notin DOMAIN d /\ DOMAIN l \ {1} = DOMAIN d \ {1}
      /\ \A y \in DOMAIN l \ {1} : l[y] = d[y]
  BY <1>1, <1>2, SMT
<1>4. At(l, 1) = Head(l) /\ Head(l) \in Nat /\ At(d, 1) = 0 /\ 0 \in Nat
  BY <1>1, <1>3, SMT DEF At
<1>5. /\ IsFiniteSet(Units(d)) /\ Total(l) \in Nat /\ Total(d) \in Nat
      /\ At(l, 1) <= Total(l) /\ Total(d) = Total(l) - At(l, 1) + At(d, 1)
  <2>1. At(l, 1) \in Nat /\ At(d, 1) \in Nat
    BY <1>4
  <2> QED BY <1>3, <2>1, TotalChange
<1> DEFINE g == [u \in Units(d) |-> Unit(u[1] - 1, u[2])]
<1>6. \A u : u \in Units(d) <=> \E i \in 2 .. n : \E b \in 1 .. l[i] : u = Unit(i, b)
  <2>1. \A u : u \in Units(d) <=> \E i \in DOMAIN d : \E b \in 1 .. d[i] : u = Unit(i, b)
    BY UnitIs
  <2> QED BY <1>2, <2>1
<1>7. \A u : u \in Units(t) <=> \E i \in 1 .. n - 1 : \E b \in 1 .. l[i + 1] : u = Unit(i, b)
  <2>1. \A u : u \in Units(t) <=> \E i \in DOMAIN t : \E b \in 1 .. t[i] : u = Unit(i, b)
    BY UnitIs
  <2>2. DOMAIN t = 1 .. n - 1 /\ \A i \in 1 .. n - 1 : t[i] = l[i + 1]
    BY <1>1
  <2> QED BY <2>1, <2>2
<1>8. ASSUME NEW i \in 2 .. n, NEW b \in 1 .. l[i] PROVE g[Unit(i, b)] = Unit(i - 1, b)
  <2>1. Unit(i, b) \in Units(d)
    BY <1>6
  <2>2. Unit(i, b)[1] = i /\ Unit(i, b)[2] = b
    BY DEF Unit
  <2> QED BY <2>1, <2>2
<1> HIDE DEF g
<1>9. g \in [Units(d) -> Units(t)]
  <2>1. ASSUME NEW u \in Units(d) PROVE g[u] \in Units(t)
    <3>1. PICK i \in 2 .. n : \E b \in 1 .. l[i] : u = Unit(i, b)
      BY <1>6
    <3>2. PICK b \in 1 .. l[i] : u = Unit(i, b)
      BY <3>1
    <3>3. i - 1 \in 1 .. n - 1 /\ (i - 1) + 1 = i
      BY <1>1, SMT
    <3>4. g[u] = Unit(i - 1, b)
      BY <1>8, <3>2
    <3>5. b \in 1 .. l[(i - 1) + 1]
      BY <3>3
    <3> HIDE <3>1
    <3> QED BY <1>7, <3>3, <3>4, <3>5
  <2> QED BY <2>1 DEF g
<1>10. \A u, v \in Units(d) : g[u] = g[v] => u = v
  <2> SUFFICES ASSUME NEW u \in Units(d), NEW v \in Units(d), g[u] = g[v] PROVE u = v
    OBVIOUS
  <2>1. PICK i \in 2 .. n : \E b \in 1 .. l[i] : u = Unit(i, b)
    BY <1>6
  <2>2. PICK b \in 1 .. l[i] : u = Unit(i, b)
    BY <2>1
  <2>3. PICK j \in 2 .. n : \E c \in 1 .. l[j] : v = Unit(j, c)
    BY <1>6
  <2>4. PICK c \in 1 .. l[j] : v = Unit(j, c)
    BY <2>3
  <2>5. Unit(i - 1, b) = Unit(j - 1, c)
    BY <1>8, <2>2, <2>4
  <2>6. i - 1 = j - 1 /\ b = c
    BY <2>5, SMT DEF Unit
  <2>7. i = j
    BY <1>1, <2>6, SMT
  <2> QED BY <2>2, <2>4, <2>6, <2>7
<1>11. \A u \in Units(t) : \E v \in Units(d) : g[v] = u
  <2> SUFFICES ASSUME NEW u \in Units(t) PROVE \E v \in Units(d) : g[v] = u
    OBVIOUS
  <2>1. PICK i \in 1 .. n - 1 : \E b \in 1 .. l[i + 1] : u = Unit(i, b)
    BY <1>7
  <2>2. PICK b \in 1 .. l[i + 1] : u = Unit(i, b)
    BY <2>1
  <2>3. PICK j \in 2 .. n : j = i + 1 /\ j - 1 = i
    <3>1. i + 1 \in 2 .. n /\ (i + 1) - 1 = i
      BY <1>1, SMT
    <3> QED BY <3>1
  <2>4. b \in 1 .. l[j]
    BY <2>3
  <2>5. g[Unit(j, b)] = u
    BY <1>8, <2>2, <2>3, <2>4
  <2>6. Unit(j, b) \in Units(d)
    BY <1>6, <2>4
  <2> QED BY <2>5, <2>6
<1>12. IsFiniteSet(Units(t)) /\ Total(t) = Total(d)
  BY <1>5, <1>9, <1>10, <1>11, SameCount DEF Total
<1>13. Total(t) = Total(l) - Head(l) /\ Total(t) \in Nat /\ Head(l) <= Total(l)
  BY <1>4, <1>5, <1>12, SMT
<1> QED BY <1>5, <1>12, <1>13 DEF t

-----------------------------------------------------------------------------
(* The books of the queue.                                                 *)

Lengths(lane) == [p \in Peer |-> Len(lane[p])]

(* What QueueExact says of one class: its lanes, rotation and counters.    *)
ClassOk(c, lane, active, used, items, bytes) ==
  /\ lane \in [Peer -> Seq(Size)] /\ active \in Seq(Peer) /\ used \in [Peer -> Nat]
  /\ IsInjective(active) /\ Range(active) = {p \in Peer : lane[p] # <<>>}
  /\ \A p \in Peer :
       IsFiniteSet(Units(lane[p])) /\ used[p] = Total(lane[p]) /\ used[p] <= MaxBytesPerPeer[c]
  /\ IsFiniteSet(Units(Lengths(lane))) /\ items = Total(Lengths(lane)) /\ items \in Nat
  /\ IsFiniteSet(Units(used)) /\ bytes = Total(used) /\ bytes \in Nat /\ bytes <= MaxBytesGlobal[c]

BooksOk(q) ==
  /\ q.lane \in [Class -> [Peer -> Seq(Size)]] /\ q.active \in [Class -> Seq(Peer)]
  /\ q.used \in [Class -> [Peer -> Nat]]
  /\ q.items \in [Class -> Nat] /\ q.bytes \in [Class -> Nat]
  /\ \A c \in Class : ClassOk(c, q.lane[c], q.active[c], q.used[c], q.items[c], q.bytes[c])
  /\ q.peers = {p \in Peer : \E c \in Class : q.lane[c][p] # <<>>}

(* The limits are positive numbers, and the sizes numbers.                 *)
LEMMA QueueLimits ==
  /\ \A c \in Class : MaxBytesPerPeer[c] \in Nat /\ MaxBytesGlobal[c] \in Nat
  /\ Size \subseteq Nat /\ Seq(Size) \subseteq Seq(Nat)
<1>1. Size \subseteq Nat
  BY QueueAssumption
<1>2. ASSUME NEW s \in Seq(Size) PROVE s \in Seq(Nat)
  <2>1. Len(s) \in Nat /\ s \in [1 .. Len(s) -> Size]
    BY SMT
  <2>2. s \in [1 .. Len(s) -> Nat]
    BY <1>1, <2>1
  <2> QED BY <2>1, <2>2, SMT
<1>3. \A c \in Class : MaxBytesPerPeer[c] \in Nat \ {0} /\ MaxBytesGlobal[c] \in Nat \ {0}
  BY QueueAssumption
<1> QED BY <1>1, <1>2, <1>3

(* One peer's value changes: the sum changes by as much.                   *)
LEMMA PeerChange ==
  ASSUME NEW f \in [Peer -> Nat], IsFiniteSet(Units(f)), NEW p \in Peer, NEW v \in Nat,
         NEW g, g = [f EXCEPT ![p] = v]
  PROVE  /\ IsFiniteSet(Units(g)) /\ Total(g) = Total(f) - f[p] + v
         /\ f[p] <= Total(f) /\ Total(g) \in Nat /\ Total(f) \in Nat
<1>1. /\ DOMAIN f = Peer /\ DOMAIN g = Peer /\ g[p] = v /\ f[p] \in Nat
      /\ \A y \in Peer \ {p} : f[y] = g[y]
  OBVIOUS
<1>2. At(f, p) = f[p] /\ At(g, p) = v
  BY <1>1 DEF At
<1>3. /\ IsFiniteSet(Units(g)) /\ At(f, p) <= Total(f) /\ Total(g) = Total(f) - At(f, p) + At(g, p)
      /\ Total(g) \in Nat /\ Total(f) \in Nat
  <2>1. At(f, p) \in Nat /\ At(g, p) \in Nat
    BY <1>1, <1>2
  <2> QED BY <1>1, <2>1, TotalChange
<1> QED BY <1>2, <1>3

(* The lengths of the lanes, when one lane changes.                        *)
LEMMA LengthsChange ==
  ASSUME NEW lane \in [Peer -> Seq(Size)], NEW p \in Peer, NEW s \in Seq(Size)
  PROVE  /\ Lengths([lane EXCEPT ![p] = s]) = [Lengths(lane) EXCEPT ![p] = Len(s)]
         /\ Lengths(lane) \in [Peer -> Nat] /\ Len(s) \in Nat /\ Lengths(lane)[p] = Len(lane[p])
<1>1. \A o \in Peer : lane[o] \in Seq(Size)
  OBVIOUS
<1>2. Len(s) \in Nat /\ \A o \in Peer : Len(lane[o]) \in Nat
  BY <1>1, SMT
<1> QED BY <1>2 DEF Lengths

(* So the number of datagrams changes by as much as that lane.             *)
LEMMA LengthsTotal ==
  ASSUME NEW lane \in [Peer -> Seq(Size)], IsFiniteSet(Units(Lengths(lane))),
         NEW p \in Peer, NEW s \in Seq(Size), NEW after, after = [lane EXCEPT ![p] = s]
  PROVE  /\ IsFiniteSet(Units(Lengths(after)))
         /\ Total(Lengths(after)) = Total(Lengths(lane)) - Len(lane[p]) + Len(s)
         /\ Len(lane[p]) <= Total(Lengths(lane))
<1> DEFINE f == Lengths(lane)
           g == Lengths(after)
           k == Len(s)
<1>1. g = [f EXCEPT ![p] = k] /\ f \in [Peer -> Nat] /\ k \in Nat /\ f[p] = Len(lane[p])
  BY LengthsChange
<1>2. IsFiniteSet(Units(f))
  OBVIOUS
<1> HIDE DEF f, g, k
<1>3. IsFiniteSet(Units(g)) /\ Total(g) = Total(f) - f[p] + k /\ f[p] <= Total(f)
  BY <1>1, <1>2, PeerChange
<1> QED BY <1>1, <1>3 DEF f, g, k

(* enqueue, in the class of the datagram.                                  *)
LEMMA EnqueueClass ==
  ASSUME NEW c \in Class, NEW lane, NEW active, NEW used, NEW items, NEW bytes,
         ClassOk(c, lane, active, used, items, bytes),
         NEW p \in Peer, NEW n \in Size,
         ~(n > MaxBytesPerPeer[c] - used[p]), ~(n > MaxBytesGlobal[c] - bytes)
  PROVE  ClassOk(c, [lane EXCEPT ![p] = Append(@, n)],
                    IF lane[p] = <<>> THEN Append(active, p) ELSE active,
                    [used EXCEPT ![p] = @ + n], items + 1, bytes + n)
<1> DEFINE s == Append(lane[p], n)
           v == used[p] + n
           after == [lane EXCEPT ![p] = s]
           spent == [used EXCEPT ![p] = v]
           turn == IF lane[p] = <<>> THEN Append(active, p) ELSE active
<1>1. /\ lane \in [Peer -> Seq(Size)] /\ active \in Seq(Peer) /\ used \in [Peer -> Nat]
      /\ IsInjective(active) /\ Range(active) = {o \in Peer : lane[o] # <<>>}
      /\ \A o \in Peer :
           IsFiniteSet(Units(lane[o])) /\ used[o] = Total(lane[o]) /\ used[o] <= MaxBytesPerPeer[c]
      /\ items \in Nat /\ bytes \in Nat
  BY DEF ClassOk
<1>2. /\ lane[p] \in Seq(Size) /\ s \in Seq(Size) /\ s # <<>> /\ Len(s) = Len(lane[p]) + 1
      /\ Len(lane[p]) \in Nat
  <2>1. lane[p] \in Seq(Size)
    BY <1>1
  <2>2. s \in Seq(Size) /\ Len(s) = Len(lane[p]) + 1 /\ Len(lane[p]) \in Nat /\ Len(<<>>) = 0
    BY <2>1, SMT
  <2>3. s # <<>>
    BY <2>2, SMT
  <2> QED BY <2>1, <2>2, <2>3
<1>3. n \in Nat /\ used[p] \in Nat /\ MaxBytesPerPeer[c] \in Nat /\ MaxBytesGlobal[c] \in Nat
      /\ lane[p] \in Seq(Nat)
  BY <1>1, <1>2, QueueLimits
<1>4. v \in Nat /\ v <= MaxBytesPerPeer[c] /\ bytes + n \in Nat /\ bytes + n <= MaxBytesGlobal[c]
      /\ items + 1 \in Nat
  <2>1. items \in Nat /\ bytes \in Nat
    BY <1>1
  <2> QED BY <1>3, <2>1, SMT
<1>5. IsFiniteSet(Units(s)) /\ v = Total(s)
  <2>1. lane[p] \in Seq(Nat) /\ n \in Nat /\ IsFiniteSet(Units(lane[p])) /\ used[p] = Total(lane[p])
    BY <1>1, <1>3
  <2>2. IsFiniteSet(Units(s)) /\ Total(s) = Total(lane[p]) + n
    BY <2>1, TotalAppend
  <2> QED BY <2>1, <2>2
<1> HIDE DEF s, v
<1>7. after \in [Peer -> Seq(Size)] /\ spent \in [Peer -> Nat]
      /\ \A o \in Peer :
           IsFiniteSet(Units(after[o])) /\ spent[o] = Total(after[o]) /\ spent[o] <= MaxBytesPerPeer[c]
  BY <1>1, <1>2, <1>4, <1>5
<1>8. after[p] = s /\ \A o \in Peer \ {p} : after[o] = lane[o]
  BY <1>1
<1>12. after = [lane EXCEPT ![p] = s] /\ spent = [used EXCEPT ![p] = v]
  OBVIOUS
<1> HIDE DEF after, spent
<1>6. /\ IsFiniteSet(Units(Lengths(after))) /\ IsFiniteSet(Units(spent))
      /\ Total(Lengths(after)) = items - Len(lane[p]) + Len(s)
      /\ Total(spent) = bytes - used[p] + v
  <2>1. lane \in [Peer -> Seq(Size)] /\ s \in Seq(Size) /\ IsFiniteSet(Units(Lengths(lane)))
        /\ items = Total(Lengths(lane)) /\ IsFiniteSet(Units(used)) /\ bytes = Total(used)
    BY <1>1, <1>2 DEF ClassOk
  <2>2. after = [lane EXCEPT ![p] = s]
    BY <1>12
  <2>3. /\ IsFiniteSet(Units(Lengths(after)))
        /\ Total(Lengths(after)) = Total(Lengths(lane)) - Len(lane[p]) + Len(s)
    BY <2>1, <2>2, LengthsTotal
  <2>4. IsFiniteSet(Units(spent)) /\ Total(spent) = Total(used) - used[p] + v
    <3>1. used \in [Peer -> Nat] /\ IsFiniteSet(Units(used)) /\ v \in Nat
      BY <1>1, <1>4, <2>1
    <3>2. spent = [used EXCEPT ![p] = v]
      BY <1>12
    <3> QED BY <3>1, <3>2, PeerChange
  <2> QED BY <2>1, <2>3, <2>4
<1>9. items + 1 = Total(Lengths(after)) /\ bytes + n = Total(spent)
  BY <1>1, <1>2, <1>3, <1>6, SMT DEF v
<1>10. turn \in Seq(Peer) /\ IsInjective(turn) /\ Range(turn) = {o \in Peer : after[o] # <<>>}
  <2>1. CASE lane[p] = <<>>
    <3>1. turn = Append(active, p) /\ turn \in Seq(Peer)
      BY <1>1, <2>1, SMT
    <3>2. /\ DOMAIN turn = 1 .. Len(active) + 1 /\ turn[Len(active) + 1] = p
          /\ \A i \in 1 .. Len(active) : turn[i] = active[i]
          /\ Len(active) \in Nat /\ DOMAIN active = 1 .. Len(active)
      BY <1>1, <3>1, SMT
    <3>3. \A i \in DOMAIN active : active[i] # p
      BY <1>1, <2>1 DEF Range
    <3> HIDE DEF turn
    <3>4. DOMAIN turn = DOMAIN active \cup {Len(active) + 1}
      BY <3>2, SMT
    <3>5. IsInjective(turn)
      BY <1>1, <3>2, <3>3, <3>4 DEF IsInjective
    <3>6. Range(turn) = Range(active) \cup {p}
      BY <3>2, <3>4, SMT DEF Range
    <3> QED BY <1>1, <1>2, <1>8, <3>1, <3>5, <3>6
  <2>2. CASE lane[p] # <<>>
    <3>1. turn = active
      BY <2>2
    <3> QED BY <1>1, <1>2, <1>8, <2>2, <3>1
  <2> QED BY <2>1, <2>2
<1> HIDE DEF turn
<1>11. ClassOk(c, after, turn, spent, items + 1, bytes + n)
  BY <1>4, <1>6, <1>7, <1>9, <1>10 DEF ClassOk
<1> QED BY <1>11 DEF after, turn, spent, s, v

(* The rotation when its head is served.                                   *)
LEMMA RotateShape ==
  ASSUME NEW active \in Seq(Peer), active # <<>>, IsInjective(active), NEW more \in BOOLEAN
  PROVE  LET turn == Rotate(active, more)
         IN  /\ turn \in Seq(Peer) /\ IsInjective(turn)
             /\ Range(turn) = IF more THEN Range(active) ELSE Range(active) \ {Head(active)}
<1> DEFINE t == Tail(active)
           h == Head(active)
           n == Len(active)
<1>1. /\ n \in Nat /\ n > 0 /\ DOMAIN active = 1 .. n /\ h = active[1] /\ h \in Peer
      /\ t \in Seq(Peer) /\ Len(t) = n - 1 /\ DOMAIN t = 1 .. n - 1
      /\ \A i \in 1 .. n - 1 : t[i] = active[i + 1]
  BY SMT
<1>2. \A i, j \in 1 .. n : active[i] = active[j] => i = j
  BY <1>1 DEF IsInjective
<1> HIDE DEF t, h, n
<1>3. CASE ~more
  <2>1. Rotate(active, more) = t
    BY <1>3 DEF Rotate, t
  <2>2. \A i, j \in 1 .. n - 1 : t[i] = t[j] => i = j
    BY <1>1, <1>2, SMT
  <2>3. IsInjective(t)
    BY <1>1, <2>2 DEF IsInjective
  <2>4. Range(t) = Range(active) \ {h}
    <3>1. \A i \in 1 .. n - 1 : i + 1 \in 1 .. n /\ i + 1 # 1
      BY <1>1, SMT
    <3>2. \A i \in 1 .. n : i # 1 => \E j \in 1 .. n - 1 : i = j + 1
      <4> SUFFICES ASSUME NEW i \in 1 .. n, i # 1 PROVE \E j \in 1 .. n - 1 : i = j + 1
        OBVIOUS
      <4>1. i - 1 \in 1 .. n - 1 /\ i = (i - 1) + 1
        BY <1>1, SMT
      <4> QED BY <4>1
    <3>3. 1 \in 1 .. n
      BY <1>1, SMT
    <3>4. \A i \in 1 .. n - 1 : t[i] \in Range(active) /\ t[i] # h
      BY <1>1, <1>2, <3>1, <3>3 DEF Range
    <3>5. ASSUME NEW i \in 1 .. n, active[i] # h PROVE active[i] \in Range(t)
      <4>1. i # 1
        BY <1>1, <3>5
      <4>2. PICK j \in 1 .. n - 1 : i = j + 1
        BY <3>2, <4>1
      <4>3. active[i] = t[j] /\ j \in DOMAIN t
        BY <1>1, <4>2
      <4> QED BY <4>3 DEF Range
    <3>6. ASSUME NEW x PROVE x \in Range(t) <=> \E i \in 1 .. n - 1 : x = t[i]
      BY <1>1 DEF Range
    <3>7. ASSUME NEW x PROVE x \in Range(active) <=> \E i \in 1 .. n : x = active[i]
      BY <1>1 DEF Range
    <3> QED BY <3>4, <3>5, <3>6, <3>7
  <2> QED BY <1>1, <1>3, <2>1, <2>3, <2>4 DEF h
<1>4. CASE more
  <2> DEFINE r == Append(t, h)
  <2>1. Rotate(active, more) = r
    BY <1>4 DEF Rotate, t, h
  <2>2. /\ r \in Seq(Peer) /\ DOMAIN r = 1 .. n /\ r[n] = h
        /\ \A i \in 1 .. n - 1 : r[i] = active[i + 1]
    BY <1>1, SMT
  <2> HIDE DEF r
  <2>3. \A i, j \in 1 .. n : r[i] = r[j] => i = j
    BY <1>1, <1>2, <2>2, SMT
  <2>4. IsInjective(r)
    BY <2>2, <2>3 DEF IsInjective
  <2>5. Range(r) = Range(active)
    <3>1. ASSUME NEW i \in 1 .. n PROVE r[i] \in Range(active)
      <4>1. 1 \in 1 .. n /\ (i = n \/ (i \in 1 .. n - 1 /\ i + 1 \in 1 .. n))
        BY <1>1, SMT
      <4>2. r[i] = active[1] \/ r[i] = active[i + 1]
        BY <1>1, <2>2, <4>1
      <4> QED BY <1>1, <2>2, <4>1, <4>2 DEF Range
    <3>2. ASSUME NEW i \in 1 .. n PROVE active[i] \in Range(r)
      <4>1. CASE i = 1
        <5>1. n \in 1 .. n
          BY <1>1, SMT
        <5> QED BY <1>1, <2>2, <4>1, <5>1 DEF Range
      <4>2. CASE i # 1
        <5>1. PICK j \in 1 .. n - 1 : i = j + 1
          <6>1. i - 1 \in 1 .. n - 1 /\ i = (i - 1) + 1
            BY <1>1, <4>2, SMT
          <6> QED BY <6>1
        <5>2. r[j] = active[i] /\ j \in 1 .. n
          BY <1>1, <2>2, <5>1, SMT
        <5> QED BY <2>2, <5>2 DEF Range
      <4> QED BY <4>1, <4>2
    <3> QED BY <1>1, <2>2, <3>1, <3>2 DEF Range
  <2> QED BY <1>4, <2>1, <2>2, <2>4, <2>5
<1> QED BY <1>3, <1>4

(* The head of a rotation has a datagram.                                  *)
LEMMA HeadHasOne ==
  ASSUME NEW c \in Class, NEW lane, NEW active, NEW used, NEW items, NEW bytes,
         ClassOk(c, lane, active, used, items, bytes), active # <<>>
  PROVE  Head(active) \in Peer /\ lane[Head(active)] # <<>>
<1>1. active \in Seq(Peer) /\ Range(active) = {o \in Peer : lane[o] # <<>>}
  BY DEF ClassOk
<1>2. 1 \in DOMAIN active /\ Head(active) = active[1]
  BY <1>1, SMT
<1>3. Head(active) \in Range(active)
  BY <1>2 DEF Range
<1> QED BY <1>1, <1>3

(* pop, in the class it selects.                                           *)
LEMMA PopClassOk ==
  ASSUME NEW c \in Class, NEW lane, NEW active, NEW used, NEW items, NEW bytes,
         ClassOk(c, lane, active, used, items, bytes),
         active # <<>>, NEW p \in Peer, lane[p] # <<>>, Head(active) = p
  PROVE  ClassOk(c, [lane EXCEPT ![p] = Tail(@)], Rotate(active, Tail(lane[p]) # <<>>),
                    [used EXCEPT ![p] = @ - Head(lane[p])], items - 1, bytes - Head(lane[p]))
<1> DEFINE l == lane[p]
           n == Head(l)
           s == Tail(l)
           v == used[p] - n
           after == [lane EXCEPT ![p] = s]
           spent == [used EXCEPT ![p] = v]
           turn == Rotate(active, s # <<>>)
<1>1. lane \in [Peer -> Seq(Size)] /\ active \in Seq(Peer) /\ used \in [Peer -> Nat]
  BY DEF ClassOk
<1>2. IsInjective(active) /\ Range(active) = {o \in Peer : lane[o] # <<>>}
  BY DEF ClassOk
<1>3. \A o \in Peer :
        IsFiniteSet(Units(lane[o])) /\ used[o] = Total(lane[o]) /\ used[o] <= MaxBytesPerPeer[c]
  BY DEF ClassOk
<1>4. /\ IsFiniteSet(Units(Lengths(lane))) /\ items = Total(Lengths(lane)) /\ items \in Nat
      /\ IsFiniteSet(Units(used)) /\ bytes = Total(used) /\ bytes \in Nat /\ bytes <= MaxBytesGlobal[c]
  BY DEF ClassOk
<1>6. p \in Peer /\ l # <<>>
  OBVIOUS
<1>7. l \in Seq(Size) /\ l \in Seq(Nat) /\ used[p] \in Nat
  BY <1>1, <1>6, QueueLimits
<1>8. /\ n \in Nat /\ s \in Seq(Size) /\ Len(l) \in Nat /\ Len(l) > 0 /\ Len(s) = Len(l) - 1
  <2> HIDE DEF l
  <2> QED BY <1>6, <1>7, SMT
<1>9. /\ IsFiniteSet(Units(s)) /\ Total(s) \in Nat /\ n <= Total(l) /\ Total(s) = Total(l) - n
  <2>1. IsFiniteSet(Units(l))
    BY <1>3, <1>6
  <2> QED BY <1>6, <1>7, <2>1, TotalTail
<1>10. used[p] = Total(l) /\ used[p] <= MaxBytesPerPeer[c] /\ MaxBytesPerPeer[c] \in Nat
       /\ MaxBytesGlobal[c] \in Nat
  BY <1>3, <1>6, QueueLimits
<1>11. v \in Nat /\ v = Total(s) /\ v <= MaxBytesPerPeer[c]
  <2> HIDE DEF l, n, s
  <2> QED BY <1>7, <1>8, <1>9, <1>10, SMT
<1> HIDE DEF s, v
<1>12. after \in [Peer -> Seq(Size)] /\ spent \in [Peer -> Nat]
  BY <1>1, <1>8, <1>11
<1>13. \A o \in Peer :
         IsFiniteSet(Units(after[o])) /\ spent[o] = Total(after[o]) /\ spent[o] <= MaxBytesPerPeer[c]
  BY <1>1, <1>3, <1>9, <1>11
<1>14. after[p] = s /\ \A o \in Peer \ {p} : after[o] = lane[o]
  BY <1>1, <1>6
<1>15. after = [lane EXCEPT ![p] = s] /\ spent = [used EXCEPT ![p] = v]
  OBVIOUS
<1> HIDE DEF after, spent
<1>16. /\ IsFiniteSet(Units(Lengths(after)))
       /\ Total(Lengths(after)) = items - Len(l) + Len(s) /\ Len(l) <= items
  <2>1. lane \in [Peer -> Seq(Size)] /\ s \in Seq(Size) /\ IsFiniteSet(Units(Lengths(lane)))
        /\ items = Total(Lengths(lane))
    BY <1>1, <1>4, <1>8
  <2>2. after = [lane EXCEPT ![p] = s]
    BY <1>15
  <2> QED BY <2>1, <2>2, LengthsTotal
<1>17. IsFiniteSet(Units(spent)) /\ Total(spent) = bytes - used[p] + v /\ used[p] <= bytes
  <2>1. used \in [Peer -> Nat] /\ IsFiniteSet(Units(used)) /\ v \in Nat /\ bytes = Total(used)
    BY <1>1, <1>4, <1>11
  <2>2. spent = [used EXCEPT ![p] = v]
    BY <1>15
  <2> QED BY <1>6, <2>1, <2>2, PeerChange
<1>18. /\ items - 1 = Total(Lengths(after)) /\ items - 1 \in Nat
       /\ bytes - n = Total(spent) /\ bytes - n \in Nat /\ bytes - n <= MaxBytesGlobal[c]
  <2> HIDE DEF l, n
  <2>1. v = used[p] - n
    BY DEF v
  <2>2. n <= used[p] /\ n \in Nat /\ used[p] \in Nat /\ used[p] <= bytes
    BY <1>7, <1>8, <1>9, <1>10, <1>17
  <2>3. items \in Nat /\ bytes \in Nat /\ bytes <= MaxBytesGlobal[c] /\ MaxBytesGlobal[c] \in Nat
    BY <1>4, <1>10
  <2>4. Total(Lengths(after)) = items - Len(l) + Len(s) /\ Total(spent) = bytes - used[p] + v
    BY <1>16, <1>17
  <2>5. Total(Lengths(after)) = items - 1 /\ items - 1 \in Nat
    <3>1. Len(l) <= items /\ Len(l) \in Nat /\ Len(l) > 0 /\ Len(s) = Len(l) - 1
      BY <1>8, <1>16
    <3> QED BY <2>3, <2>4, <3>1, SMT
  <2>6. Total(spent) = bytes - n
    BY <2>1, <2>2, <2>3, <2>4, SMT
  <2>7. bytes - n \in Nat /\ bytes - n <= MaxBytesGlobal[c]
    BY <2>2, <2>3, SMT
  <2> QED BY <2>5, <2>6, <2>7
<1>19. /\ turn \in Seq(Peer) /\ IsInjective(turn)
       /\ Range(turn) = IF s # <<>> THEN Range(active) ELSE Range(active) \ {p}
  BY <1>1, <1>2, RotateShape
<1> HIDE DEF turn
<1>20. Range(turn) = {o \in Peer : after[o] # <<>>}
  BY <1>2, <1>6, <1>14, <1>19
<1>21. ClassOk(c, after, turn, spent, items - 1, bytes - n)
  BY <1>12, <1>13, <1>16, <1>17, <1>18, <1>19, <1>20, <1>4 DEF ClassOk
<1> QED BY <1>6, <1>21 DEF after, turn, spent, s, v

(* The books of an empty queue.                                            *)
LEMMA EmptyBooks == BooksOk(EmptyQueue)
<1> DEFINE q == EmptyQueue
           e == [p \in Peer |-> <<>>]
           z == [p \in Peer |-> 0]
<1>1. /\ q.lane = [c \in Class |-> e] /\ q.active = [c \in Class |-> <<>>]
      /\ q.used = [c \in Class |-> z] /\ q.items = [c \in Class |-> 0] /\ q.bytes = [c \in Class |-> 0]
      /\ q.peers = {}
  BY DEF EmptyQueue, NoLanes
<1>2. <<>> \in Seq(Size) /\ <<>> \in Seq(Peer) /\ 0 \in Nat /\ DOMAIN <<>> = {} /\ Len(<<>>) = 0
  <2>1. <<>> \in Seq(Size) /\ <<>> \in Seq(Peer) /\ 0 \in Nat /\ Len(<<>>) = 0
    BY SMT
  <2>2. DOMAIN <<>> = {}
    BY SMT
  <2> QED BY <2>1, <2>2
<1>3. IsFiniteSet(Units(<<>>)) /\ Total(<<>>) = 0
  BY <1>2, TotalZero
<1>4. Lengths(e) = z
  <2>1. \A p \in Peer : Len(e[p]) = 0
    BY <1>2
  <2> QED BY <2>1 DEF Lengths
<1>5. IsFiniteSet(Units(z)) /\ Total(z) = 0
  BY TotalZero
<1>6. IsInjective(<<>>) /\ Range(<<>>) = {}
  BY <1>2 DEF IsInjective, Range
<1>7. ASSUME NEW c \in Class PROVE ClassOk(c, e, <<>>, z, 0, 0)
  <2>1. 0 <= MaxBytesPerPeer[c] /\ 0 <= MaxBytesGlobal[c]
    BY QueueLimits, SMT
  <2>2. e \in [Peer -> Seq(Size)] /\ z \in [Peer -> Nat] /\ \A p \in Peer : e[p] = <<>> /\ z[p] = 0
    BY <1>2
  <2> HIDE DEF e, z
  <2>3. {p \in Peer : e[p] # <<>>} = {}
    BY <2>2
  <2>4. \A p \in Peer :
          IsFiniteSet(Units(e[p])) /\ z[p] = Total(e[p]) /\ z[p] <= MaxBytesPerPeer[c]
    BY <1>3, <2>1, <2>2
  <2>5. IsFiniteSet(Units(Lengths(e))) /\ 0 = Total(Lengths(e)) /\ IsFiniteSet(Units(z)) /\ 0 = Total(z)
    BY <1>4, <1>5
  <2> QED BY <1>2, <1>6, <2>1, <2>2, <2>3, <2>4, <2>5 DEF ClassOk
<1> HIDE DEF q
<1>8. \A c \in Class : ClassOk(c, q.lane[c], q.active[c], q.used[c], q.items[c], q.bytes[c])
  BY <1>1, <1>7
<1>9. e \in [Peer -> Seq(Size)] /\ z \in [Peer -> Nat] /\ \A p \in Peer : e[p] = <<>>
  BY <1>2
<1> HIDE DEF e, z
<1>10. /\ q.lane \in [Class -> [Peer -> Seq(Size)]] /\ q.active \in [Class -> Seq(Peer)]
       /\ q.used \in [Class -> [Peer -> Nat]]
       /\ q.items \in [Class -> Nat] /\ q.bytes \in [Class -> Nat]
  BY <1>1, <1>2, <1>9
<1>11. q.peers = {p \in Peer : \E c \in Class : q.lane[c][p] # <<>>}
  <2>1. \A p \in Peer, c \in Class : q.lane[c][p] = <<>>
    BY <1>1, <1>9
  <2>2. q.peers = {}
    BY <1>1
  <2> QED BY <2>1, <2>2
<1> QED BY <1>8, <1>10, <1>11 DEF BooksOk, q

(* A datagram has been appended.                                           *)
LEMMA AppendNotEmpty ==
  ASSUME NEW s \in Seq(Size), NEW n \in Size
  PROVE  Append(s, n) # <<>>
<1>1. Len(Append(s, n)) = Len(s) + 1 /\ Len(s) \in Nat /\ Len(<<>>) = 0
  BY SMT
<1> QED BY <1>1, SMT

(* enqueue keeps the books.                                                *)
LEMMA EnqueueBooks ==
  ASSUME NEW q, BooksOk(q), NEW c \in Class, NEW p \in Peer, NEW n \in Size,
         EnqueueResult(q, c, p, n) = "Queued"
  PROVE  BooksOk(Enqueue(q, c, p, n))
<1> DEFINE r == Enqueue(q, c, p, n)
           turn == IF q.lane[c][p] = <<>> THEN Append(q.active[c], p) ELSE q.active[c]
<1>1. /\ r.lane = [q.lane EXCEPT ![c][p] = Append(@, n)]
      /\ r.active = [q.active EXCEPT ![c] = IF q.lane[c][p] = <<>> THEN Append(@, p) ELSE @]
      /\ r.used = [q.used EXCEPT ![c][p] = @ + n]
      /\ r.items = [q.items EXCEPT ![c] = @ + 1] /\ r.bytes = [q.bytes EXCEPT ![c] = @ + n]
      /\ r.peers = q.peers \cup {p}
  BY DEF Enqueue
<1>2. /\ q.lane \in [Class -> [Peer -> Seq(Size)]] /\ q.active \in [Class -> Seq(Peer)]
      /\ q.used \in [Class -> [Peer -> Nat]]
      /\ q.items \in [Class -> Nat] /\ q.bytes \in [Class -> Nat]
  BY DEF BooksOk
<1>3. \A d \in Class : ClassOk(d, q.lane[d], q.active[d], q.used[d], q.items[d], q.bytes[d])
  BY DEF BooksOk
<1>4. ~(n > MaxBytesPerPeer[c] - q.used[c][p]) /\ ~(n > MaxBytesGlobal[c] - q.bytes[c])
  BY SMT DEF EnqueueResult
<1> HIDE DEF r
<1>5. /\ r.lane[c] = [q.lane[c] EXCEPT ![p] = Append(@, n)] /\ r.active[c] = turn
      /\ r.used[c] = [q.used[c] EXCEPT ![p] = @ + n]
      /\ r.items[c] = q.items[c] + 1 /\ r.bytes[c] = q.bytes[c] + n
  BY <1>1, <1>2
<1>6. \A d \in Class \ {c} :
        /\ r.lane[d] = q.lane[d] /\ r.active[d] = q.active[d] /\ r.used[d] = q.used[d]
        /\ r.items[d] = q.items[d] /\ r.bytes[d] = q.bytes[d]
  BY <1>1, <1>2
<1>7. ClassOk(c, r.lane[c], r.active[c], r.used[c], r.items[c], r.bytes[c])
  <2> DEFINE l == q.lane[c]
             a == q.active[c]
             u == q.used[c]
             i == q.items[c]
             b == q.bytes[c]
  <2>1. ClassOk(c, l, a, u, i, b) /\ ~(n > MaxBytesPerPeer[c] - u[p]) /\ ~(n > MaxBytesGlobal[c] - b)
    BY <1>3, <1>4
  <2> HIDE DEF l, a, u, i, b
  <2>2. ClassOk(c, [l EXCEPT ![p] = Append(@, n)], IF l[p] = <<>> THEN Append(a, p) ELSE a,
                   [u EXCEPT ![p] = @ + n], i + 1, b + n)
    BY <2>1, EnqueueClass
  <2> QED BY <1>5, <2>2 DEF l, a, u, i, b
<1>8. \A d \in Class : ClassOk(d, r.lane[d], r.active[d], r.used[d], r.items[d], r.bytes[d])
  BY <1>3, <1>6, <1>7
<1>9. /\ DOMAIN r.lane = Class /\ DOMAIN r.active = Class /\ DOMAIN r.used = Class
      /\ DOMAIN r.items = Class /\ DOMAIN r.bytes = Class
  BY <1>1, <1>2
<1>10. \A d \in Class : /\ r.lane[d] \in [Peer -> Seq(Size)] /\ r.active[d] \in Seq(Peer)
                        /\ r.used[d] \in [Peer -> Nat] /\ r.items[d] \in Nat /\ r.bytes[d] \in Nat
  BY <1>8 DEF ClassOk
<1>11. /\ r.lane \in [Class -> [Peer -> Seq(Size)]] /\ r.active \in [Class -> Seq(Peer)]
       /\ r.used \in [Class -> [Peer -> Nat]]
       /\ r.items \in [Class -> Nat] /\ r.bytes \in [Class -> Nat]
  <2>1. /\ r.lane = [d \in Class |-> r.lane[d]] /\ r.active = [d \in Class |-> r.active[d]]
        /\ r.used = [d \in Class |-> r.used[d]]
        /\ r.items = [d \in Class |-> r.items[d]] /\ r.bytes = [d \in Class |-> r.bytes[d]]
    BY <1>1, <1>2
  <2> QED BY <1>10, <2>1
<1>12. r.peers = {o \in Peer : \E d \in Class : r.lane[d][o] # <<>>}
  <2>1. r.lane[c][p] # <<>> /\ \A o \in Peer \ {p} : r.lane[c][o] = q.lane[c][o]
    <3>1. Append(q.lane[c][p], n) # <<>>
      <4>1. q.lane[c] \in [Peer -> Seq(Size)]
        BY <1>2
      <4>2. q.lane[c][p] \in Seq(Size)
        BY <4>1
      <4> QED BY <4>2, AppendNotEmpty
    <3>2. q.lane[c] \in [Peer -> Seq(Size)] /\ r.lane[c] = [q.lane[c] EXCEPT ![p] = Append(@, n)]
      BY <1>2, <1>5
    <3> QED BY <3>1, <3>2
  <2>2. \A o \in Peer, d \in Class : ~(o = p /\ d = c) => r.lane[d][o] = q.lane[d][o]
    BY <1>6, <2>1
  <2>3. q.peers = {o \in Peer : \E d \in Class : q.lane[d][o] # <<>>}
    BY DEF BooksOk
  <2>4. r.peers = q.peers \cup {p}
    BY <1>1
  <2>5. ASSUME NEW o \in Peer
        PROVE  (\E d \in Class : r.lane[d][o] # <<>>) <=> o = p \/ \E d \in Class : q.lane[d][o] # <<>>
    BY <2>1, <2>2
  <2> QED BY <2>3, <2>4, <2>5
<1> QED BY <1>8, <1>11, <1>12 DEF BooksOk, r

(* pop() finds a datagram whenever the counters say that there is one.     *)
LEMMA PopFinds ==
  ASSUME NEW q, BooksOk(q), QueueSize(q) > 0
  PROVE  Pops(q)
<1> DEFINE c == PopClass(q)
<1>1. "control" \in Class /\ "data" \in Class /\ c \in Class
  BY DEF Class, PopClass
<1>2. \A d \in Class : ClassOk(d, q.lane[d], q.active[d], q.used[d], q.items[d], q.bytes[d])
  BY DEF BooksOk
<1>3. ASSUME NEW d \in Class, q.items[d] # 0 PROVE q.active[d] # <<>>
  <2>1. /\ q.lane[d] \in [Peer -> Seq(Size)] /\ q.items[d] = Total(Lengths(q.lane[d]))
        /\ Range(q.active[d]) = {p \in Peer : q.lane[d][p] # <<>>}
    BY <1>2 DEF ClassOk
  <2>2. PICK p \in DOMAIN Lengths(q.lane[d]) : Lengths(q.lane[d])[p] # 0
    BY <1>3, <2>1, TotalPositive
  <2>3. p \in Peer /\ Len(q.lane[d][p]) # 0
    BY <2>2 DEF Lengths
  <2>4. q.lane[d][p] # <<>>
    BY <2>3, SMT
  <2>5. p \in Range(q.active[d])
    BY <2>1, <2>3, <2>4
  <2>6. \E i \in DOMAIN q.active[d] : TRUE
    BY <2>5 DEF Range
  <2>7. DOMAIN <<>> = {}
    BY SMT
  <2> QED BY <2>6, <2>7
<1>4. q.items["control"] \in Nat /\ q.items["data"] \in Nat
  BY <1>1, <1>2 DEF ClassOk
<1>5. q.items["control"] # 0 \/ q.items["data"] # 0
  BY <1>4, SMT DEF QueueSize
<1>6. q.active[c] # <<>>
  BY <1>1, <1>3, <1>5 DEF PopClass
<1>7. PopPeer(q) \in Peer /\ q.lane[c][PopPeer(q)] # <<>>
  <2> DEFINE l == q.lane[c]
             a == q.active[c]
  <2>1. ClassOk(c, l, a, q.used[c], q.items[c], q.bytes[c])
    BY <1>1, <1>2
  <2> HIDE DEF l, a, c
  <2>2. Head(a) \in Peer /\ l[Head(a)] # <<>>
    BY <1>1, <1>6, <2>1, HeadHasOne DEF a
  <2> QED BY <2>2 DEF PopPeer, l, a, c
<1>8. PopPeer(q) \in q.peers
  <2>1. q.peers = {p \in Peer : \E d \in Class : q.lane[d][p] # <<>>}
    BY DEF BooksOk
  <2> QED BY <1>1, <1>7, <2>1
<1> QED BY <1>6, <1>7, <1>8 DEF Pops

(* pop() keeps the books.                                                  *)
LEMMA PopBooks ==
  ASSUME NEW q, BooksOk(q), Pops(q)
  PROVE  BooksOk(PopState(q))
<1> DEFINE c == PopClass(q)
           p == PopPeer(q)
           n == Head(q.lane[c][p])
           r == PopState(q)
<1>1. /\ r.lane = [q.lane EXCEPT ![c][p] = Tail(@)]
      /\ r.active = [q.active EXCEPT ![c] = Rotate(@, r.lane[c][p] # <<>>)]
      /\ r.used = [q.used EXCEPT ![c][p] = @ - n]
      /\ r.items = [q.items EXCEPT ![c] = @ - 1] /\ r.bytes = [q.bytes EXCEPT ![c] = @ - n]
      /\ r.peers = IF \A d \in Class : r.lane[d][p] = <<>> THEN q.peers \ {p} ELSE q.peers
  BY DEF PopState
<1>2. /\ q.lane \in [Class -> [Peer -> Seq(Size)]] /\ q.active \in [Class -> Seq(Peer)]
      /\ q.used \in [Class -> [Peer -> Nat]]
      /\ q.items \in [Class -> Nat] /\ q.bytes \in [Class -> Nat]
  BY DEF BooksOk
<1>3. \A d \in Class : ClassOk(d, q.lane[d], q.active[d], q.used[d], q.items[d], q.bytes[d])
  BY DEF BooksOk
<1>4. q.peers = {o \in Peer : \E d \in Class : q.lane[d][o] # <<>>}
  BY DEF BooksOk
<1>5. c \in Class
  BY DEF Class, PopClass
<1>6. q.active[c] # <<>> /\ p \in Peer /\ q.lane[c][p] # <<>> /\ p = Head(q.active[c])
  BY <1>4 DEF Pops, PopPeer
<1> HIDE DEF r, c, p
<1>7. /\ r.lane[c] = [q.lane[c] EXCEPT ![p] = Tail(@)]
      /\ r.used[c] = [q.used[c] EXCEPT ![p] = @ - n]
      /\ r.items[c] = q.items[c] - 1 /\ r.bytes[c] = q.bytes[c] - n
      /\ r.active[c] = Rotate(q.active[c], r.lane[c][p] # <<>>)
  BY <1>1, <1>2, <1>5
<1>8. \A d \in Class \ {c} :
        /\ r.lane[d] = q.lane[d] /\ r.active[d] = q.active[d] /\ r.used[d] = q.used[d]
        /\ r.items[d] = q.items[d] /\ r.bytes[d] = q.bytes[d]
  BY <1>1, <1>2
<1>9. r.lane[c][p] = Tail(q.lane[c][p]) /\ \A o \in Peer \ {p} : r.lane[c][o] = q.lane[c][o]
  <2>1. q.lane[c] \in [Peer -> Seq(Size)] /\ r.lane[c] = [q.lane[c] EXCEPT ![p] = Tail(@)]
    BY <1>2, <1>5, <1>7
  <2> QED BY <1>6, <2>1
<1>10. ClassOk(c, r.lane[c], r.active[c], r.used[c], r.items[c], r.bytes[c])
  <2> DEFINE l == q.lane[c]
             a == q.active[c]
             u == q.used[c]
             i == q.items[c]
             b == q.bytes[c]
  <2>1. ClassOk(c, l, a, u, i, b) /\ a # <<>> /\ p \in Peer /\ l[p] # <<>> /\ Head(a) = p
    BY <1>3, <1>5, <1>6
  <2> HIDE DEF l, a, u, i, b
  <2>2. ClassOk(c, [l EXCEPT ![p] = Tail(@)], Rotate(a, Tail(l[p]) # <<>>),
                   [u EXCEPT ![p] = @ - Head(l[p])], i - 1, b - Head(l[p]))
    BY <1>5, <2>1, PopClassOk
  <2> QED BY <1>7, <1>9, <2>2 DEF l, a, u, i, b
<1>11. \A d \in Class : ClassOk(d, r.lane[d], r.active[d], r.used[d], r.items[d], r.bytes[d])
  BY <1>3, <1>8, <1>10
<1>12. \A d \in Class : /\ r.lane[d] \in [Peer -> Seq(Size)] /\ r.active[d] \in Seq(Peer)
                        /\ r.used[d] \in [Peer -> Nat] /\ r.items[d] \in Nat /\ r.bytes[d] \in Nat
  BY <1>11 DEF ClassOk
<1>13. /\ r.lane \in [Class -> [Peer -> Seq(Size)]] /\ r.active \in [Class -> Seq(Peer)]
       /\ r.used \in [Class -> [Peer -> Nat]]
       /\ r.items \in [Class -> Nat] /\ r.bytes \in [Class -> Nat]
  <2>1. /\ r.lane = [d \in Class |-> r.lane[d]] /\ r.active = [d \in Class |-> r.active[d]]
        /\ r.used = [d \in Class |-> r.used[d]]
        /\ r.items = [d \in Class |-> r.items[d]] /\ r.bytes = [d \in Class |-> r.bytes[d]]
    BY <1>1, <1>2
  <2> QED BY <1>12, <2>1
<1>14. r.peers = {o \in Peer : \E d \in Class : r.lane[d][o] # <<>>}
  <2>1. \A o \in Peer \ {p}, d \in Class : r.lane[d][o] = q.lane[d][o]
    BY <1>8, <1>9
  <2>2. p \in q.peers
    BY <1>4, <1>5, <1>6
  <2>3. r.peers = IF \A d \in Class : r.lane[d][p] = <<>> THEN q.peers \ {p} ELSE q.peers
    BY <1>1
  <2>4. ASSUME NEW o \in Peer \ {p}
        PROVE  (\E d \in Class : r.lane[d][o] # <<>>) <=> \E d \in Class : q.lane[d][o] # <<>>
    BY <2>1
  <2> QED BY <1>4, <1>6, <2>2, <2>3, <2>4
<1> QED BY <1>11, <1>13, <1>14 DEF BooksOk, r

-----------------------------------------------------------------------------
(* The transport.                                                          *)

(* A peer with a datagram in a class is in the rotation of that class, so  *)
(* that an empty rotation means that the class has nothing to send.        *)
Rotates(lane, active) ==
  \A c \in Class, p \in Peer :
    lane[c][p] # <<>> => \E i \in DOMAIN active[c] : active[c][i] = p

LaneInv(q) ==
  /\ q.lane \in [Class -> [Peer -> Seq(Size)]]
  /\ q.active \in [Class -> Seq(Peer)]
  /\ Rotates(q.lane, q.active)

HandInv ==
  /\ send_running \in BOOLEAN
  /\ sender = "sending" <=> hand # NoDatagram

(* A thread lives only while the socket is open, and none does where bind  *)
(* starts one or close is past its join.                                   *)
ThreadInv ==
  /\ sender # "none" \/ receiver # "none" => sock
  /\ owner = "bound" => sender = "none" /\ receiver = "none" /\ sock
  /\ owner = "exchange" => sock /\ receiver = "none"
  /\ owner = "close_socket" => sender = "none"
  /\ owner \in {"close_stop", "close_notify", "close_join", "close_socket"} =>
       receiver = "none"
  /\ receiver # "none" => running \/ owner \in {"join_recv", "close_recv"}

(* The types of what is not the queue.                                     *)
PlainType ==
  /\ sock \in BOOLEAN /\ send_running \in BOOLEAN /\ running \in BOOLEAN
  /\ sender \in {"none", "check", "blocked", "sending", "exited"}
  /\ hand \in Datagram \cup {NoDatagram}
  /\ notes \in 0 .. Callers
  /\ receiver \in {"none", "top", "recvfrom", "callback", "exited"}
  /\ owner \in {"idle", "bound", "exchange", "join_recv", "close_recv", "close_stop",
               "close_notify", "close_join", "close_socket"}

TransportInv == BooksOk(queue) /\ LaneInv(queue) /\ HandInv /\ ThreadInv /\ PlainType

-----------------------------------------------------------------------------
(* A peer that has a datagram is in the rotation of its class.             *)
LEMMA BooksRotate ==
  ASSUME NEW q, BooksOk(q)
  PROVE  LaneInv(q)
<1>1. q.lane \in [Class -> [Peer -> Seq(Size)]] /\ q.active \in [Class -> Seq(Peer)]
  BY DEF BooksOk
<1>2. ASSUME NEW c \in Class, NEW p \in Peer, q.lane[c][p] # <<>>
      PROVE  \E i \in DOMAIN q.active[c] : q.active[c][i] = p
  <2>1. Range(q.active[c]) = {o \in Peer : q.lane[c][o] # <<>>}
    BY DEF BooksOk, ClassOk
  <2>2. p \in Range(q.active[c])
    BY <1>2, <2>1
  <2> QED BY <2>2 DEF Range
<1> QED BY <1>1, <1>2 DEF LaneInv, Rotates

(* What pop() selects is a peer with a datagram in that class.             *)
LEMMA PopSelects ==
  ASSUME NEW q, LaneInv(q), Pops(q)
  PROVE  /\ PopClass(q) \in Class /\ PopPeer(q) \in Peer
         /\ q.active[PopClass(q)] \in Seq(Peer) /\ q.active[PopClass(q)] # <<>>
         /\ q.lane[PopClass(q)][PopPeer(q)] \in Seq(Size)
         /\ q.lane[PopClass(q)][PopPeer(q)] # <<>>
<1>1. PopClass(q) \in Class
  BY DEF PopClass, Class
<1>2. q.active[PopClass(q)] \in Seq(Peer) /\ q.active[PopClass(q)] # <<>>
  BY <1>1 DEF LaneInv, Pops
<1>3. PopPeer(q) \in Peer
  BY <1>2, SMT DEF PopPeer
<1> QED BY <1>1, <1>2, <1>3 DEF LaneInv, Pops

(* A datagram is not NoDatagram.                                           *)
LEMMA PoppedIsDatagram ==
  ASSUME NEW q
  PROVE  Popped(q) # NoDatagram
<1>1. Popped(q).class = PopClass(q)
  BY DEF Popped
<1>2. PopClass(q) # "none"
  BY DEF PopClass
<1> QED BY <1>1, <1>2, SMT DEF NoDatagram

-----------------------------------------------------------------------------
(* Before bind there is no thread and no datagram.                         *)
LEMMA InitTransportInv == Init => TransportInv
<1>1. 0 \in 0 .. Callers
  BY CallersAssumption, SMT
<1>2. BooksOk(EmptyQueue) /\ LaneInv(EmptyQueue)
  BY EmptyBooks, BooksRotate
<1> QED BY <1>1, <1>2 DEF Init, TransportInv, HandInv, ThreadInv, PlainType

(* Every step of every thread keeps the books.                             *)
LEMMA BooksKept == ASSUME BooksOk(queue), [Next]_vars PROVE BooksOk(queue')
<1>1. CASE queue' = queue
  BY <1>1
<1>2. CASE queue' = EmptyQueue
  BY <1>2, EmptyBooks
<1>3. ASSUME NEW c \in Class, NEW p \in Peer, NEW n \in Size, Send(c, p, n)
      PROVE  BooksOk(queue')
  <2>1. queue' = Enqueue(queue, c, p, n) /\ EnqueueResult(queue, c, p, n) = "Queued"
    BY <1>3 DEF Send
  <2>2. BooksOk(Enqueue(queue, c, p, n))
    BY <2>1, EnqueueBooks
  <2> QED BY <2>1, <2>2
<1>4. CASE SendLoopPop
  <2>1. BooksOk(PopState(queue))
    BY <1>4, PopBooks DEF SendLoopPop
  <2> QED BY <1>4, <2>1 DEF SendLoopPop
<1>5. CASE Owner
  <2>1. queue' = queue \/ queue' = EmptyQueue
    BY <1>5 DEF Owner, Closing, BindSocket, BindRun, Exchange, ExchangeEnds, StartReceive,
         StopReceive, JoinReceive, CloseStop, CloseNotify, CloseJoin, CloseSocket, sending
  <2> QED BY <1>1, <1>2, <2>1
<1>6. CASE ReceiveLoop \/ Notify \/ SendLoopWait \/ SendLoopExit \/ SendLoopTransmit \/ UNCHANGED vars
  <2>1. queue' = queue
    BY <1>6 DEF ReceiveLoop, ReceiveTop, Poll, CallbackReturns, Notify, SendLoopWait,
         SendLoopExit, SendLoopTransmit, sending, vars
  <2> QED BY <1>1, <2>1
<1> QED BY <1>3, <1>4, <1>5, <1>6 DEF Next, SendLoop

(* The owner's steps keep them.                                            *)
LEMMA OwnerTypes == ASSUME PlainType, Owner PROVE PlainType'
<1> USE DEF PlainType, sending, receiving
<1>1. CASE BindSocket      BY <1>1 DEF BindSocket
<1>2. CASE BindRun         BY <1>2 DEF BindRun
<1>3. CASE Exchange        BY <1>3 DEF Exchange
<1>4. CASE ExchangeEnds    BY <1>4 DEF ExchangeEnds
<1>5. CASE StartReceive    BY <1>5 DEF StartReceive
<1>6. CASE StopReceive     BY <1>6 DEF StopReceive
<1>7. CASE JoinReceive     BY <1>7 DEF JoinReceive
<1>8. CASE CloseStop       BY <1>8 DEF CloseStop
<1>9. CASE CloseNotify     BY <1>9 DEF CloseNotify, Woken
<1>10. CASE CloseJoin      BY <1>10 DEF CloseJoin
<1>11. CASE CloseSocket    BY <1>11 DEF CloseSocket
<1> QED
  BY <1>1, <1>2, <1>3, <1>4, <1>5, <1>6, <1>7, <1>8, <1>9, <1>10, <1>11 DEF Owner, Closing

(* And so do those of the other threads.                                   *)
LEMMA OthersTypes ==
  ASSUME PlainType, LaneInv(queue),
         \/ SendLoop \/ ReceiveLoop \/ Notify
         \/ \E c \in Class, p \in Peer, n \in Size : Send(c, p, n)
  PROVE  PlainType'
<1> USE DEF PlainType, sending, receiving
<1>1. CASE SendLoopWait      BY <1>1 DEF SendLoopWait
<1>2. CASE SendLoopExit      BY <1>2 DEF SendLoopExit
<1>3. CASE SendLoopPop
  <2> DEFINE c == PopClass(queue)
             p == PopPeer(queue)
  <2>1. c \in Class /\ p \in Peer /\ queue.lane[c][p] \in Seq(Size) /\ queue.lane[c][p] # <<>>
    BY <1>3, PopSelects DEF SendLoopPop
  <2>2. Head(queue.lane[c][p]) \in Size
    BY <2>1, SMT
  <2>3. hand' = [class |-> c, peer |-> p, size |-> Head(queue.lane[c][p])]
    BY <1>3 DEF SendLoopPop, Popped
  <2> HIDE DEF c, p
  <2>4. hand' \in Datagram
    BY <2>1, <2>2, <2>3 DEF Datagram
  <2> QED BY <1>3, <2>4 DEF SendLoopPop
<1>4. CASE SendLoopTransmit  BY <1>4 DEF SendLoopTransmit
<1>5. CASE ReceiveTop        BY <1>5 DEF ReceiveTop
<1>6. CASE Poll              BY <1>6 DEF Poll
<1>7. CASE CallbackReturns   BY <1>7 DEF CallbackReturns
<1>8. CASE Notify
  <2>1. notes' \in 0 .. Callers
    BY <1>8, CallersAssumption, SMT DEF Notify
  <2> QED BY <1>8, <2>1 DEF Notify, Woken
<1>9. CASE \E c \in Class, p \in Peer, n \in Size : Send(c, p, n)
  <2>1. notes' \in 0 .. Callers
    BY <1>9, CallersAssumption, SMT DEF Send
  <2> QED BY <1>9, <2>1 DEF Send
<1> QED
  BY <1>1, <1>2, <1>3, <1>4, <1>5, <1>6, <1>7, <1>8, <1>9 DEF SendLoop, ReceiveLoop

(* The owner's steps: bind starts the send thread where there is none.     *)
LEMMA OwnerKeeps == ASSUME HandInv, ThreadInv, Owner PROVE HandInv' /\ ThreadInv'
<1> USE DEF HandInv, ThreadInv, sending, receiving
<1>1. CASE BindSocket      BY <1>1 DEF BindSocket
<1>2. CASE BindRun         BY <1>2 DEF BindRun
<1>3. CASE Exchange        BY <1>3 DEF Exchange
<1>4. CASE ExchangeEnds    BY <1>4 DEF ExchangeEnds
<1>5. CASE StartReceive    BY <1>5 DEF StartReceive
<1>6. CASE StopReceive     BY <1>6 DEF StopReceive
<1>7. CASE JoinReceive     BY <1>7 DEF JoinReceive
<1>8. CASE CloseStop       BY <1>8 DEF CloseStop
<1>9. CASE CloseNotify     BY <1>9 DEF CloseNotify, Woken
<1>10. CASE CloseJoin      BY <1>10 DEF CloseJoin
<1>11. CASE CloseSocket    BY <1>11 DEF CloseSocket
<1> QED
  BY <1>1, <1>2, <1>3, <1>4, <1>5, <1>6, <1>7, <1>8, <1>9, <1>10, <1>11 DEF Owner, Closing

(* The steps of the send thread, the receive thread and the callers.       *)
LEMMA OthersKeep ==
  ASSUME HandInv, ThreadInv,
         \/ SendLoop \/ ReceiveLoop \/ Notify
         \/ \E c \in Class, p \in Peer, n \in Size : Send(c, p, n)
  PROVE  HandInv' /\ ThreadInv'
<1> USE DEF HandInv, ThreadInv, sending, receiving
<1>1. CASE SendLoopWait      BY <1>1 DEF SendLoopWait
<1>2. CASE SendLoopExit      BY <1>2 DEF SendLoopExit
<1>3. CASE SendLoopPop
  <2>1. hand' # NoDatagram
    BY <1>3, PoppedIsDatagram DEF SendLoopPop
  <2> QED BY <1>3, <2>1 DEF SendLoopPop
<1>4. CASE SendLoopTransmit  BY <1>4 DEF SendLoopTransmit
<1>5. CASE ReceiveTop        BY <1>5 DEF ReceiveTop
<1>6. CASE Poll              BY <1>6 DEF Poll
<1>7. CASE CallbackReturns   BY <1>7 DEF CallbackReturns
<1>8. CASE Notify            BY <1>8 DEF Notify, Woken
<1>9. CASE \E c \in Class, p \in Peer, n \in Size : Send(c, p, n)
  BY <1>9, SMT DEF Send
<1> QED
  BY <1>1, <1>2, <1>3, <1>4, <1>5, <1>6, <1>7, <1>8, <1>9 DEF SendLoop, ReceiveLoop

(* Every step keeps the invariant.                                         *)
LEMMA NextTransportInv == TransportInv /\ [Next]_vars => TransportInv'
<1> SUFFICES ASSUME TransportInv, [Next]_vars PROVE TransportInv'
  OBVIOUS
<1>1. BooksOk(queue') /\ LaneInv(queue')
  BY BooksKept, BooksRotate DEF TransportInv
<1>2. HandInv' /\ ThreadInv' /\ PlainType'
  <2>1. CASE Owner
    BY <2>1, OwnerKeeps, OwnerTypes DEF TransportInv
  <2>2. CASE \/ SendLoop \/ ReceiveLoop \/ Notify
             \/ \E c \in Class, p \in Peer, n \in Size : Send(c, p, n)
    BY <2>2, OthersKeep, OthersTypes DEF TransportInv
  <2>3. CASE UNCHANGED vars
    BY <2>3 DEF TransportInv, HandInv, ThreadInv, PlainType, vars
  <2> QED BY <2>1, <2>2, <2>3 DEF Next
<1> QED BY <1>1, <1>2 DEF TransportInv

(* So it holds for ever.                                                   *)
LEMMA AlwaysTransportInv == Spec => []TransportInv
<1> QED BY InitTransportInv, NextTransportInv, PTL DEF Spec

(* sendto, recvfrom and exchange find the socket open: close ends it after *)
(* both joins and bind starts threads only on a new one; exchange has the  *)
(* socket to itself.                                                       *)
THEOREM SocketOpenWhenUsed == Spec => []SocketUse
<1>1. TransportInv => SocketUse
  BY DEF TransportInv, ThreadInv, SocketUse
<1> QED BY <1>1, AlwaysTransportInv, PTL

(* What QueueExact says, from the books.                                   *)
LEMMA BooksExact == ASSUME BooksOk(queue), PlainType PROVE QueueExact
<1>1. \A c \in Class :
        ClassOk(c, queue.lane[c], queue.active[c], queue.used[c], queue.items[c], queue.bytes[c])
  BY DEF BooksOk
<1>2. queue.peers = {p \in Peer : \E c \in Class : queue.lane[c][p] # <<>>}
  BY DEF BooksOk
<1>3. queue.peers \in SUBSET Peer
  BY <1>2
<1>4. TypeOK
  BY <1>3 DEF BooksOk, PlainType, TypeOK
<1>5. ASSUME NEW c \in Class
      PROVE  /\ IsInjective(queue.active[c])
             /\ Range(queue.active[c]) = {p \in Peer : queue.lane[c][p] # <<>>}
             /\ \A p \in Peer :
                  /\ queue.used[c][p] = Total(queue.lane[c][p])
                  /\ queue.used[c][p] <= MaxBytesPerPeer[c]
             /\ queue.items[c] = Total([p \in Peer |-> Len(queue.lane[c][p])])
             /\ queue.bytes[c] = Total(queue.used[c])
             /\ queue.bytes[c] <= MaxBytesGlobal[c]
  BY <1>1 DEF ClassOk, Lengths
<1> QED BY <1>2, <1>4, <1>5 DEF QueueExact

(* The bookkeeping of the queue is exact, however the callers, the send    *)
(* thread and the owner interleave: each counter is the sum it stands for, *)
(* each rotation has the peers with a datagram once, and no sum passes its *)
(* limit.                                                                  *)
THEOREM QueueBooksExact == Spec => []QueueExact
<1>1. TransportInv => QueueExact
  BY BooksExact DEF TransportInv
<1> QED BY <1>1, AlwaysTransportInv, PTL

(* The send thread never wakes up for nothing: where size() is positive,   *)
(* pop() selects a peer that is known and has a datagram in that class.    *)
THEOREM PopAlwaysFinds == Spec => [](QueueSize(queue) > 0 => Pops(queue))
<1>1. TransportInv => (QueueSize(queue) > 0 => Pops(queue))
  BY PopFinds DEF TransportInv
<1> QED BY <1>1, AlwaysTransportInv, PTL

-----------------------------------------------------------------------------
(* A step that neither fills the hand nor touches the rotations.           *)
LEMMA TurnStutters ==
  ASSUME NEW c \in Class, queue' = queue, hand' = hand \/ hand' = NoDatagram
  PROVE  Turn(c)
BY DEF Turn

(* A pop serves the peer at the head of a rotation, and what is left of the*)
(* rotation has moved up by one.                                           *)
LEMMA TurnTaken ==
  ASSUME TransportInv, [Next]_vars, NEW c \in Class
  PROVE  Turn(c)
<1> DEFINE a == queue.active[c]
<1>0. a \in Seq(Peer) /\ queue.active \in [Class -> Seq(Peer)]
  BY DEF TransportInv, LaneInv
<1>1. CASE SendLoopPop
  <2> DEFINE d == PopClass(queue)
  <2>1. /\ d \in Class /\ queue.active[d] # <<>>
        /\ hand = NoDatagram /\ hand' # NoDatagram /\ hand'.class = d
    BY <1>1, PopSelects, PoppedIsDatagram DEF SendLoopPop, TransportInv, HandInv, Popped
  <2>2. PICK more \in BOOLEAN : queue'.active = [queue.active EXCEPT ![d] = Rotate(@, more)]
    BY <1>1 DEF SendLoopPop, PopState
  <2> HIDE DEF d
  <2>3. CASE c # d
    BY <1>0, <2>1, <2>2, <2>3 DEF Turn
  <2>4. CASE c = d
    <3>1. queue'.active[c] = Rotate(a, more)
      BY <1>0, <2>1, <2>2, <2>4
    <3>2. ASSUME NEW i \in DOMAIN a, i > 1
          PROVE  Rotate(a, more)[i - 1] = a[i]
      <4>1. Tail(a) \in Seq(Peer) /\ i - 1 \in DOMAIN Tail(a) /\ Tail(a)[i - 1] = a[i]
        BY <1>0, <2>1, <2>4, <3>2, SMT
      <4>2. Append(Tail(a), Head(a))[i - 1] = a[i]
        BY <1>0, <2>1, <2>4, <4>1, SMT
      <4> QED BY <4>1, <4>2 DEF Rotate
    <3> QED BY <2>1, <2>4, <3>1, <3>2, SMT DEF Turn
  <2> QED BY <2>3, <2>4
<1>2. CASE BindRun \/ CloseStop
  <2>1. queue'.active[c] = <<>>
    BY <1>2, SMT DEF BindRun, CloseStop, EmptyQueue
  <2> QED BY <2>1 DEF Turn
<1>3. ASSUME NEW d \in Class, NEW p \in Peer, NEW n \in Size, Send(d, p, n)
      PROVE  Turn(c)
  <2>1. hand' = hand
    BY <1>3 DEF Send
  <2>2. queue'.active[c] = a \/ queue'.active[c] = Append(a, p)
    BY <1>0, <1>3 DEF Send, Enqueue
  <2>3. \A i \in DOMAIN a : queue'.active[c][i] = a[i]
    BY <1>0, <2>2, SMT
  <2> QED BY <2>1, <2>3 DEF Turn
<1>4. CASE \/ BindSocket \/ Exchange \/ ExchangeEnds \/ StartReceive \/ StopReceive
           \/ JoinReceive \/ CloseNotify \/ CloseJoin \/ CloseSocket
  BY <1>4, TurnStutters DEF BindSocket, Exchange, ExchangeEnds, StartReceive, StopReceive,
       JoinReceive, CloseNotify, CloseJoin, CloseSocket, sending
<1>5. CASE \/ SendLoopWait \/ SendLoopExit \/ SendLoopTransmit \/ ReceiveLoop \/ Notify
           \/ UNCHANGED vars
  BY <1>5, TurnStutters DEF SendLoopWait, SendLoopExit, SendLoopTransmit, ReceiveLoop,
       ReceiveTop, Poll, CallbackReturns, Notify, sending, vars
<1> QED BY <1>1, <1>2, <1>3, <1>4, <1>5 DEF Next, Owner, Closing, SendLoop

(* Peers of a class take turns: while a peer waits, only a service of its  *)
(* class moves it, one place up, so that it is served after as many as     *)
(* were before it.                                                         *)
THEOREM PeersTakeTurns == Spec => RoundRobin
<1>1. TransportInv /\ [Next]_vars => [\A c \in Class : Turn(c)]_vars
  BY TurnTaken
<1> QED BY <1>1, AlwaysTransportInv, PTL DEF Spec, RoundRobin

-----------------------------------------------------------------------------
(* A datagram is taken from the lane that pop() selects; if it is of the   *)
(* data class, the rotation of control is empty and so are its lanes.      *)
LEMMA PopTakes ==
  ASSUME TransportInv, SendLoopPop
  PROVE  Abstract!Take(PopClass(queue), PopPeer(queue))
<1> DEFINE c == PopClass(queue)
           p == PopPeer(queue)
<1>1. /\ c \in Class /\ p \in Peer /\ queue.lane[c][p] # <<>>
  BY PopSelects DEF SendLoopPop, TransportInv
<1>2. send_running /\ hand = NoDatagram
  BY DEF SendLoopPop, TransportInv, HandInv
<1>3. c # "control" => \A o \in Peer : queue.lane["control"][o] = <<>>
  <2> SUFFICES ASSUME c # "control", NEW o \in Peer
               PROVE  queue.lane["control"][o] = <<>>
    OBVIOUS
  <2>1. queue.active["control"] = <<>>
    BY DEF PopClass
  <2> QED BY <2>1, SMT DEF TransportInv, LaneInv, Rotates, Class
<1>4. hand' = [class |-> c, peer |-> p, size |-> Head(queue.lane[c][p])]
  BY DEF SendLoopPop, Popped
<1>5. queue'.lane = [queue.lane EXCEPT ![c][p] = Tail(@)]
  BY DEF SendLoopPop, PopState
<1>6. send_running' = send_running
  BY DEF SendLoopPop
<1> HIDE DEF c, p
<1> QED BY <1>1, <1>2, <1>3, <1>4, <1>5, <1>6 DEF Abstract!Take, c, p

(* A step that leaves the lanes, the datagram in hand and the flag alone.  *)
LEMMA Stutters ==
  ASSUME UNCHANGED <<queue, hand, send_running>>
  PROVE  UNCHANGED Abstract!qvars
BY DEF Abstract!qvars

(* Each step of the transport is a step of the abstract queue or changes   *)
(* nothing that it shows.                                                  *)
LEMMA StepImplements == ASSUME TransportInv, [Next]_vars PROVE [Abstract!QNext]_(Abstract!qvars)
<1>1. CASE SendLoopPop
  <2>1. PopClass(queue) \in Class /\ PopPeer(queue) \in Peer
    BY <1>1, PopSelects DEF SendLoopPop, TransportInv
  <2> QED BY <1>1, <2>1, PopTakes DEF Abstract!QNext
<1>2. CASE SendLoopTransmit
  <2>1. Abstract!Emit
    BY <1>2 DEF SendLoopTransmit, TransportInv, HandInv, Abstract!Emit
  <2> QED BY <2>1 DEF Abstract!QNext
<1>3. CASE BindRun \/ CloseStop
  <2>1. queue' = EmptyQueue /\ hand' = hand
    BY <1>3 DEF BindRun, CloseStop
  <2>2. send_running' \in BOOLEAN
    BY <1>3 DEF BindRun, CloseStop
  <2>3. Abstract!Reset
    BY <2>1, <2>2 DEF EmptyQueue, NoLanes, Abstract!Reset, Abstract!Empty
  <2> QED BY <2>3 DEF Abstract!QNext
<1>4. ASSUME NEW c \in Class, NEW p \in Peer, NEW n \in Size, Send(c, p, n)
      PROVE  Abstract!QNext
  <2>1. Abstract!Accept(c, p, n)
    BY <1>4 DEF Send, Enqueue, Abstract!Accept
  <2> QED BY <2>1 DEF Abstract!QNext
<1>5. CASE \/ BindSocket \/ Exchange \/ ExchangeEnds \/ StartReceive \/ StopReceive
           \/ JoinReceive \/ CloseNotify \/ CloseJoin \/ CloseSocket
  BY <1>5, Stutters DEF BindSocket, Exchange, ExchangeEnds, StartReceive, StopReceive,
       JoinReceive, CloseNotify, CloseJoin, CloseSocket, sending
<1>6. CASE \/ SendLoopWait \/ SendLoopExit \/ ReceiveLoop \/ Notify \/ UNCHANGED vars
  BY <1>6, Stutters DEF SendLoopWait, SendLoopExit, ReceiveLoop, ReceiveTop, Poll,
       CallbackReturns, Notify, sending, vars
<1> QED
  BY <1>1, <1>2, <1>3, <1>4, <1>5, <1>6 DEF Next, Owner, Closing, SendLoop

(* The transport implements one FIFO for each peer and class, control      *)
(* first: what send() accepted leaves in that order or is forgotten by     *)
(* close, however the callers, the send thread and the owner interleave.   *)
THEOREM TransportImplementsQueue == Spec => Implements
<1>1. Init => Abstract!QInit
  BY SMT DEF Init, EmptyQueue, NoLanes, Abstract!QInit, Abstract!Empty
<1>2. TransportInv /\ [Next]_vars => [Abstract!QNext]_(Abstract!qvars)
  BY StepImplements
<1> QED BY <1>1, <1>2, AlwaysTransportInv, PTL DEF Spec, Implements, Abstract!QSpec

-----------------------------------------------------------------------------
(* The downloads.                                                          *)

Senders == {h.from : h \in Offers}
Length(k) == Len(Offered(k).content)

(* A transfer that is not held, or one whose header was accepted: it is    *)
(* done only when it has every chunk.                                      *)
TransferOk(k, t) ==
  \/ t = NoTransfer
  \/ /\ t \in [got : SUBSET Chunks(Offered(k)), done : BOOLEAN, age : 0 .. IdleTimeout]
     /\ t.done => t.got = Chunks(Offered(k))
     /\ ChunkCount(Length(k), Offered(k).chunk) # 0

(* A .part file never grows beyond the file that was announced, also when  *)
(* its transfer is gone.                                                   *)
PartOk(k, b) == b = None \/ (b \in Seq(Nat) /\ Len(b) <= Length(k) /\ Length(k) <= MaxFileSize)

PublishedOk(n, b) ==
  \/ b = None
  \/ \E h \in Offers : h.name = n /\ h.content = b /\ Len(b) <= MaxFileSize

Sizes(K) == [k \in K |-> Length(k)]

(* The transfers K are within the limits.                                  *)
Fit(K, active, reserved) ==
  /\ IsFiniteSet(K) /\ Cardinality(K) <= active
  /\ IsFiniteSet(Units(Sizes(K))) /\ Total(Sizes(K)) <= reserved

From(K, p) == {k \in K : k[1] = p}

RoomOk(K) ==
  /\ Fit(K, MaxActiveGlobal, MaxReservedGlobal)
  /\ \A p \in Senders : Fit(From(K, p), MaxActivePeer, MaxReservedPeer)

DownInv ==
  /\ DOMAIN incoming = TransferKey /\ \A k \in TransferKey : TransferOk(k, incoming[k])
  /\ DOMAIN parts = TransferKey /\ \A k \in TransferKey : PartOk(k, parts[k])
  /\ DOMAIN published = {h.name : h \in Offers}
  /\ \A n \in DOMAIN published : PublishedOk(n, published[n])
  /\ expired \subseteq TransferKey
  /\ RoomOk(Unfinished)

(* The limits are positive numbers.                                        *)
LEMMA FileLimits ==
  /\ MinChunk \in Nat /\ MinChunk > 0 /\ MaxChunk \in Nat /\ MaxFileSize \in Nat
  /\ MaxActivePeer \in Nat /\ MaxActiveGlobal \in Nat
  /\ MaxReservedPeer \in Nat /\ MaxReservedGlobal \in Nat /\ IdleTimeout \in Nat
<1>1. {MinChunk, MaxChunk, MaxFileSize, MaxActivePeer, MaxActiveGlobal, MaxReservedPeer,
       MaxReservedGlobal, IdleTimeout} \subseteq Nat \ {0}
  BY IncomingAssumption
<1> QED BY <1>1, SMT

(* A key names one offer.                                                  *)
LEMMA OfferedIs ==
  ASSUME NEW h \in Offers
  PROVE  Of(h) \in TransferKey /\ Offered(Of(h)) = h
<1>1. Of(h) \in TransferKey
  BY DEF TransferKey
<1>2. Offered(Of(h)) \in Offers /\ Of(Offered(Of(h))) = Of(h)
  BY DEF Offered
<1> DEFINE g == Offered(Of(h))
<1>3. g.from = h.from /\ g.id = h.id
  <2> HIDE DEF g
  <2>1. <<g.from, g.id>> = <<h.from, h.id>>
    BY <1>2 DEF Of, g
  <2> QED BY <2>1
<1>4. g = h
  BY <1>2, <1>3, IncomingAssumption
<1> QED BY <1>1, <1>4

LEMMA OfferOk ==
  ASSUME NEW k \in TransferKey
  PROVE  /\ Offered(k) \in Offers /\ Of(Offered(k)) = k /\ k[1] \in Senders
         /\ Offered(k).content \in Seq(Nat) /\ Offered(k).chunk \in Nat /\ Length(k) \in Nat
<1>1. PICK h \in Offers : k = Of(h)
  BY DEF TransferKey
<1>2. Offered(k) = h
  BY <1>1, OfferedIs
<1>3. h.content \in Seq(Nat) /\ h.chunk \in Nat
  BY IncomingAssumption
<1>4. Len(h.content) \in Nat
  BY <1>3, SMT
<1>5. k[1] = h.from
  BY <1>1 DEF Of
<1> QED BY <1>1, <1>2, <1>3, <1>4, <1>5 DEF Length, Senders

(* The larger of two numbers.                                              *)
LEMMA MaxTwo ==
  ASSUME NEW a \in Int, NEW b \in Int
  PROVE  Max({a, b}) \in {a, b} /\ Max({a, b}) >= a /\ Max({a, b}) >= b
<1>1. \E x \in {a, b} : \A y \in {a, b} : x >= y
  <2>1. CASE a >= b
    BY <2>1, SMT
  <2>2. CASE ~(a >= b)
    BY <2>2, SMT
  <2> QED BY <2>1, <2>2
<1>2. Max({a, b}) \in {a, b} /\ \A y \in {a, b} : Max({a, b}) >= y
  BY <1>1 DEF Max
<1> QED BY <1>2

(* The smaller of two numbers.                                             *)
LEMMA MinTwo ==
  ASSUME NEW a \in Int, NEW b \in Int
  PROVE  Min({a, b}) \in {a, b} /\ Min({a, b}) <= a /\ Min({a, b}) <= b
<1>1. \E x \in {a, b} : \A y \in {a, b} : x <= y
  <2>1. CASE a <= b
    BY <2>1, SMT
  <2>2. CASE ~(a <= b)
    BY <2>2, SMT
  <2> QED BY <2>1, <2>2
<1>2. Min({a, b}) \in {a, b} /\ \A y \in {a, b} : Min({a, b}) <= y
  BY <1>1 DEF Min
<1> QED BY <1>2

(* Offsets are numbers.                                                    *)
LEMMA Products == \A i, c \in Nat : i * c \in Nat /\ (i + 1) * c \in Nat
BY SMT

(* Every chunk but the last is whole.                                      *)
LEMMA WholeChunks ==
  ASSUME NEW size \in Nat, NEW c \in Nat \ {0}, NEW i \in Nat, i + 1 <= (size - 1) \div c, size # 0
  PROVE  (i + 1) * c <= size
<1> DEFINE d == (size - 1) \div c
<1>1. d \in Int /\ d * c <= size - 1
  BY SMT
<1> HIDE DEF d
<1>2. d \in Nat /\ i + 1 <= d
  BY <1>1, SMT DEF d
<1>3. PICK e \in Nat : d = i + 1 + e
  <2>1. d - (i + 1) \in Nat /\ d = i + 1 + (d - (i + 1))
    BY <1>2, SMT
  <2> QED BY <2>1
<1>4. d * c = (i + 1) * c + e * c /\ e * c >= 0 /\ (i + 1) * c \in Int
  BY <1>3, SMT
<1> QED BY <1>1, <1>4, SMT

(* A chunk lies inside the file.                                           *)
LEMMA ChunkInside ==
  ASSUME NEW h, Len(h.content) \in Nat, h.chunk \in Nat,
         ChunkCount(Len(h.content), h.chunk) # 0, NEW i \in Chunks(h)
  PROVE  /\ i \in Nat /\ i * h.chunk \in Nat /\ i * h.chunk + ChunkLength(h, i) <= Len(h.content)
         /\ Len(h.content) <= MaxFileSize
<1> DEFINE size == Len(h.content)
           c == h.chunk
           n == ChunkCount(size, c)
<1>1. size \in Nat /\ c \in Nat \ {0} /\ size <= MaxFileSize
      /\ n = IF size = 0 THEN 1 ELSE 1 + (size - 1) \div c
  BY FileLimits, SMT DEF ChunkCount
<1>2. i \in 0 .. n - 1 /\ ChunkLength(h, i) = IF i + 1 = n THEN size - i * c ELSE c
  BY DEF Chunks, ChunkLength
<1> HIDE DEF size, c, n
<1>3. n \in Int
  BY <1>1, SMT
<1>4. i \in Nat /\ i <= n - 1
  BY <1>2, <1>3, SMT
<1>5. i * c \in Nat
  BY <1>1, <1>4, SMT
<1>6. CASE i + 1 = n
  <2> DEFINE q == i * c
  <2>1. q \in Nat /\ ChunkLength(h, i) = size - q
    BY <1>2, <1>5, <1>6
  <2>2. q + (size - q) <= size
    <3> HIDE DEF q
    <3> QED BY <1>1, <2>1, SMT
  <2> QED BY <1>1, <1>4, <2>1, <2>2 DEF size, c
<1>7. CASE i + 1 # n
  <2>1. size # 0 /\ i + 1 <= (size - 1) \div c
    BY <1>1, <1>3, <1>4, <1>7, SMT
  <2>2. (i + 1) * c <= size
    BY <1>1, <1>4, <2>1, WholeChunks
  <2>3. (i + 1) * c = i * c + c
    BY <1>1, <1>4, SMT
  <2> QED BY <1>1, <1>2, <1>4, <1>5, <1>7, <2>2, <2>3 DEF size, c
<1> QED BY <1>6, <1>7

(* What a sender reads for a chunk are bytes.                              *)
LEMMA ReadsBytes ==
  ASSUME NEW h, h.content \in Seq(Nat), h.chunk \in Nat, NEW i \in Nat, NEW data \in Reads(h, i)
  PROVE  data \in Seq(Nat)
<1> DEFINE m == i * h.chunk + 1
           n == Min({(i + 1) * h.chunk, Len(h.content)})
           bytes == SubSeq(h.content, m, n)
<1>1. m \in Int /\ m >= 1 /\ (i + 1) * h.chunk \in Int /\ Len(h.content) \in Int
  <2>1. i * h.chunk \in Nat /\ (i + 1) * h.chunk \in Nat /\ Len(h.content) \in Nat
    BY Products, LenProperties
  <2> DEFINE q == i * h.chunk
             r == (i + 1) * h.chunk
  <2> HIDE DEF q, r
  <2>2. q + 1 \in Int /\ q + 1 >= 1 /\ r \in Int /\ Len(h.content) \in Int
    BY <2>1, SMT DEF q, r
  <2> QED BY <2>2 DEF q, r
<1>2. n \in Int /\ n <= Len(h.content)
  BY <1>1, MinTwo
<1>3. data = bytes \/ data = [j \in DOMAIN bytes |-> Other]
  BY DEF Reads
<1> HIDE DEF m, n
<1>4. \A j \in m .. n : h.content[j] \in Nat
  BY <1>1, <1>2, SMT
<1>5. bytes \in Seq(Nat)
  BY <1>1, <1>2, <1>4, SubSeqProperties
<1> HIDE DEF bytes
<1>6. [j \in DOMAIN bytes |-> Other] \in Seq(Nat)
  <2>1. Len(bytes) \in Nat /\ DOMAIN bytes = 1 .. Len(bytes) /\ Other \in Nat
    BY <1>5, SMT DEF Other
  <2> QED BY <2>1, SMT
<1> QED BY <1>3, <1>5, <1>6

(* The file after a write: as long as it was, or up to the end of what was *)
(* written.                                                                *)
LEMMA WrittenBytes ==
  ASSUME NEW bytes \in Seq(Nat), NEW data \in Seq(Nat), NEW offset \in Nat, NEW size \in Nat,
         Len(bytes) <= size, offset + Len(data) <= size
  PROVE  Written(bytes, offset, data) \in Seq(Nat) /\ Len(Written(bytes, offset, data)) <= size
<1> DEFINE last == IF data = <<>> THEN 0 ELSE offset + Len(data)
           m == Max({Len(bytes), last})
           w == Written(bytes, offset, data)
<1>1. Len(bytes) \in Nat /\ Len(data) \in Nat
  BY SMT
<1>2. last \in Int /\ last <= size
  BY <1>1, SMT
<1>3. m \in {Len(bytes), last} /\ m >= Len(bytes)
  <2>1. Len(bytes) \in Int
    BY <1>1, SMT
  <2> HIDE DEF last
  <2> QED BY <1>2, <2>1, MaxTwo
<1>4. w = [j \in 1 .. m |-> IF j - offset \in DOMAIN data THEN data[j - offset]
                            ELSE IF j <= Len(bytes) THEN bytes[j] ELSE Hole]
  BY DEF Written
<1> HIDE DEF m, w, last
<1>5. m \in Nat /\ m <= size
  BY <1>1, <1>2, <1>3, SMT
<1>6. ASSUME NEW j \in 1 .. m PROVE w[j] \in Nat
  <2>1. CASE j - offset \in DOMAIN data
    <3>1. data[j - offset] \in Nat
      BY <2>1, SMT
    <3> QED BY <1>4, <2>1, <3>1
  <2>2. CASE j - offset \notin DOMAIN data /\ j <= Len(bytes)
    <3>1. bytes[j] \in Nat
      BY <1>1, <1>5, <2>2, SMT
    <3> QED BY <1>4, <2>2, <3>1
  <2>3. CASE j - offset \notin DOMAIN data /\ ~(j <= Len(bytes))
    <3>1. Hole \in Nat
      BY DEF Hole
    <3> QED BY <1>4, <2>3, <3>1
  <2> QED BY <2>1, <2>2, <2>3
<1>7. w \in [1 .. m -> Nat]
  BY <1>4, <1>6
<1>8. w \in Seq(Nat) /\ Len(w) = m
  BY <1>5, <1>7, SMT
<1> QED BY <1>5, <1>8 DEF w

-----------------------------------------------------------------------------
(* Fewer transfers reserve no more.                                        *)
LEMMA FitSubset ==
  ASSUME NEW K, NEW L, L \subseteq K, NEW a \in Nat, NEW r \in Nat, Fit(K, a, r)
  PROVE  Fit(L, a, r)
<1>1. IsFiniteSet(L) /\ Cardinality(L) <= Cardinality(K) /\ Cardinality(K) \in Nat /\ Cardinality(L) \in Nat
  BY FS_Subset, FS_CardinalityType DEF Fit
<1>2. Units(Sizes(L)) \subseteq Units(Sizes(K))
  <2> SUFFICES ASSUME NEW u \in Units(Sizes(L)) PROVE u \in Units(Sizes(K))
    OBVIOUS
  <2> DEFINE f == Sizes(L)
             g == Sizes(K)
  <2>1. \A x \in DOMAIN f : x \in DOMAIN g /\ g[x] = f[x]
    BY DEF Sizes
  <2> HIDE DEF f, g
  <2>2. u \in Units(f)
    BY DEF f
  <2>3. PICK x \in DOMAIN f : \E b \in 1 .. f[x] : u = Unit(x, b)
    BY <2>2, UnitIs, SMT
  <2>4. \E b \in 1 .. g[x] : u = Unit(x, b)
    BY <2>1, <2>3
  <2>5. u \in Units(g)
    BY <2>1, <2>4, UnitIs
  <2> QED BY <2>5 DEF g
<1>3. /\ IsFiniteSet(Units(Sizes(L))) /\ Cardinality(Units(Sizes(L))) <= Cardinality(Units(Sizes(K)))
      /\ Cardinality(Units(Sizes(L))) \in Nat /\ Cardinality(Units(Sizes(K))) \in Nat
  BY <1>2, FS_Subset, FS_CardinalityType DEF Fit
<1>4. Cardinality(K) <= a /\ Cardinality(Units(Sizes(K))) <= r
  BY DEF Fit, Total
<1>5. Cardinality(L) <= a /\ Cardinality(Units(Sizes(L))) <= r
  BY <1>1, <1>3, <1>4, SMT
<1> QED BY <1>1, <1>3, <1>5 DEF Fit, Total

(* One transfer more: what admission has left room for.                    *)
LEMMA FitOneMore ==
  ASSUME NEW K \in SUBSET TransferKey, NEW k \in TransferKey, k \notin K,
         NEW a \in Nat, NEW r \in Nat, Fit(K, a, r),
         Cardinality(K) < a, Total(Sizes(K)) <= r - Length(k)
  PROVE  Fit(K \cup {k}, a, r)
<1> DEFINE f == Sizes(K)
           g == Sizes(K \cup {k})
<1>1. IsFiniteSet(K) /\ Cardinality(K) \in Nat
  BY FS_CardinalityType DEF Fit
<1>2. IsFiniteSet(K \cup {k}) /\ Cardinality(K \cup {k}) = Cardinality(K) + 1
  BY <1>1, FS_AddElement
<1>3. Cardinality(K \cup {k}) <= a
  BY <1>1, <1>2, SMT
<1>4. Length(k) \in Nat
  BY OfferOk
<1>5. /\ DOMAIN f \ {k} = DOMAIN g \ {k} /\ \A y \in DOMAIN f \ {k} : f[y] = g[y]
      /\ k \notin DOMAIN f /\ k \in DOMAIN g /\ g[k] = Length(k)
  BY DEF Sizes
<1>6. IsFiniteSet(Units(f)) /\ Total(f) <= r - Length(k)
  BY DEF Fit
<1> HIDE DEF f, g
<1>7. At(f, k) = 0 /\ At(g, k) = Length(k)
  BY <1>5 DEF At
<1>8. At(f, k) \in Nat /\ At(g, k) \in Nat
  BY <1>4, <1>7, SMT
<1>9. /\ IsFiniteSet(Units(g)) /\ Total(f) \in Nat /\ Total(g) = Total(f) - At(f, k) + At(g, k)
  BY <1>5, <1>6, <1>8, TotalChange
<1>10. Total(g) <= r
  BY <1>4, <1>6, <1>7, <1>9, SMT
<1> QED BY <1>2, <1>3, <1>9, <1>10 DEF Fit, g

(* Transfers that come to an end leave room.                               *)
LEMMA RoomSubset ==
  ASSUME NEW K, NEW L, L \subseteq K, RoomOk(K)
  PROVE  RoomOk(L)
<1>1. Fit(L, MaxActiveGlobal, MaxReservedGlobal)
  <2>1. Fit(K, MaxActiveGlobal, MaxReservedGlobal)
    BY DEF RoomOk
  <2> QED BY <2>1, FitSubset, FileLimits
<1>2. ASSUME NEW p \in Senders PROVE Fit(From(L, p), MaxActivePeer, MaxReservedPeer)
  <2>1. From(L, p) \subseteq From(K, p)
    BY DEF From
  <2>2. Fit(From(K, p), MaxActivePeer, MaxReservedPeer)
    BY DEF RoomOk
  <2> QED BY <2>1, <2>2, FitSubset, FileLimits
<1> QED BY <1>1, <1>2 DEF RoomOk

(* file_transfer_admission_allowed leaves room for the transfer.           *)
LEMMA RoomOneMore ==
  ASSUME NEW K \in SUBSET TransferKey, NEW k \in TransferKey, k \notin K, RoomOk(K),
         AdmissionAllowed(From(K, k[1]), K, Length(k))
  PROVE  RoomOk(K \cup {k})
<1>1. /\ Cardinality(K) < MaxActiveGlobal /\ Total(Sizes(K)) <= MaxReservedGlobal - Length(k)
      /\ Cardinality(From(K, k[1])) < MaxActivePeer
      /\ Total(Sizes(From(K, k[1]))) <= MaxReservedPeer - Length(k)
  BY DEF AdmissionAllowed, Reserved, Sizes, Length
<1>2. Fit(K \cup {k}, MaxActiveGlobal, MaxReservedGlobal)
  <2>1. Fit(K, MaxActiveGlobal, MaxReservedGlobal)
    BY DEF RoomOk
  <2> QED BY <1>1, <2>1, FitOneMore, FileLimits
<1>3. ASSUME NEW p \in Senders PROVE Fit(From(K \cup {k}, p), MaxActivePeer, MaxReservedPeer)
  <2>1. Fit(From(K, p), MaxActivePeer, MaxReservedPeer)
    BY DEF RoomOk
  <2>2. CASE p = k[1]
    <3>1. From(K \cup {k}, p) = From(K, p) \cup {k}
      BY <2>2 DEF From
    <3>2. From(K, p) \in SUBSET TransferKey /\ k \notin From(K, p)
      BY DEF From
    <3>3. Fit(From(K, p) \cup {k}, MaxActivePeer, MaxReservedPeer)
      BY <1>1, <2>1, <2>2, <3>2, FitOneMore, FileLimits
    <3> QED BY <3>1, <3>3
  <2>3. CASE p # k[1]
    <3>1. From(K \cup {k}, p) = From(K, p)
      BY <2>3 DEF From
    <3> QED BY <2>1, <3>1
  <2> QED BY <2>2, <2>3
<1> QED BY <1>2, <1>3 DEF RoomOk

-----------------------------------------------------------------------------
(* A transfer that is held and not finished.                               *)
Live(t) == t # NoTransfer /\ ~t.done

(* One transfer is replaced by another one that is in order.               *)
LEMMA OneTransfer ==
  ASSUME DownInv, NEW k \in TransferKey, NEW t, incoming' = [incoming EXCEPT ![k] = t],
         TransferOk(k, t), Live(t) => Live(incoming[k])
  PROVE  /\ DOMAIN incoming' = TransferKey /\ \A j \in TransferKey : TransferOk(j, incoming'[j])
         /\ RoomOk(Unfinished')
<1>1. DOMAIN incoming = TransferKey /\ \A j \in TransferKey : TransferOk(j, incoming[j])
  BY DEF DownInv
<1>2. DOMAIN incoming' = TransferKey /\ \A j \in TransferKey : incoming'[j] = IF j = k THEN t ELSE incoming[j]
  BY <1>1
<1>3. \A j \in TransferKey : TransferOk(j, incoming'[j])
  BY <1>1, <1>2
<1>4. Unfinished = {j \in TransferKey : Live(incoming[j])} /\ Unfinished' = {j \in TransferKey : Live(incoming'[j])}
  BY DEF Unfinished, Held, Live
<1>5. \A j \in TransferKey : Live(incoming'[j]) => Live(incoming[j])
  BY <1>2
<1>6. Unfinished' \subseteq Unfinished
  BY <1>4, <1>5
<1>7. RoomOk(Unfinished)
  BY DEF DownInv
<1> QED BY <1>2, <1>3, <1>6, <1>7, RoomSubset

(* One .part file is replaced.                                             *)
LEMMA OnePart ==
  ASSUME DownInv, NEW k \in TransferKey, NEW b, PartOk(k, b), parts' = [parts EXCEPT ![k] = b]
  PROVE  DOMAIN parts' = TransferKey /\ \A j \in TransferKey : PartOk(j, parts'[j])
<1>1. DOMAIN parts = TransferKey /\ \A j \in TransferKey : PartOk(j, parts[j])
  BY DEF DownInv
<1>2. DOMAIN parts' = TransferKey /\ \A j \in TransferKey : parts'[j] = IF j = k THEN b ELSE parts[j]
  BY <1>1
<1> QED BY <1>1, <1>2

(* A transfer that is held is not the one that stands for none, and its    *)
(* header was valid.                                                       *)
LEMMA HeldTransfer ==
  ASSUME DownInv, NEW k \in TransferKey, Held(k)
  PROVE  /\ incoming[k] \in [got : SUBSET Chunks(Offered(k)), done : BOOLEAN, age : 0 .. IdleTimeout]
         /\ incoming[k].done => incoming[k].got = Chunks(Offered(k))
         /\ ChunkCount(Length(k), Offered(k).chunk) # 0
BY DEF DownInv, TransferOk, Held

(* A file may be as long as the limit only.                                *)
LEMMA CountedSize ==
  ASSUME NEW size \in Nat, NEW c \in Nat, ChunkCount(size, c) # 0
  PROVE  size <= MaxFileSize
BY FileLimits, SMT DEF ChunkCount

(* What the chunks of a transfer have in common with none.                 *)
LEMMA NotNone ==
  ASSUME NEW k \in TransferKey, ChunkCount(Length(k), Offered(k).chunk) # 0, NEW g \in SUBSET Chunks(Offered(k)),
         NEW d \in BOOLEAN, NEW a \in 0 .. IdleTimeout, d => g = Chunks(Offered(k))
  PROVE  /\ TransferOk(k, [got |-> g, done |-> d, age |-> a])
         /\ Live([got |-> g, done |-> d, age |-> a]) <=> ~d
<1>1. Chunks(Offered(k)) \subseteq Nat
  <2>1. Offered(k).chunk \in Nat /\ Length(k) \in Nat
    BY OfferOk
  <2> QED BY SMT DEF Chunks
<1>2. g # {-1}
  <2>1. -1 \notin Nat
    BY SMT
  <2> QED BY <1>1, <2>1
<1> DEFINE t == [got |-> g, done |-> d, age |-> a]
<1>3. t.got = g /\ t.done = d /\ NoTransfer.got = {-1}
  BY DEF NoTransfer
<1>4. t \in [got : SUBSET Chunks(Offered(k)), done : BOOLEAN, age : 0 .. IdleTimeout]
  OBVIOUS
<1> HIDE DEF t
<1>5. t # NoTransfer
  BY <1>2, <1>3
<1> QED BY <1>3, <1>4, <1>5 DEF TransferOk, Live, t

-----------------------------------------------------------------------------
(* A frame or a tick that only sets the age of a transfer.                 *)
LEMMA RefreshOk ==
  ASSUME DownInv, NEW k \in TransferKey, Held(k), Refresh(k)
  PROVE  /\ DOMAIN incoming' = TransferKey /\ \A j \in TransferKey : TransferOk(j, incoming'[j])
         /\ RoomOk(Unfinished')
<1> DEFINE old == incoming[k]
           t == [got |-> old.got, done |-> old.done, age |-> 0]
<1>1. /\ old \in [got : SUBSET Chunks(Offered(k)), done : BOOLEAN, age : 0 .. IdleTimeout]
      /\ old.done => old.got = Chunks(Offered(k))
      /\ ChunkCount(Length(k), Offered(k).chunk) # 0
  BY HeldTransfer
<1>2. 0 \in 0 .. IdleTimeout
  BY FileLimits, SMT
<1>3. old.got \in SUBSET Chunks(Offered(k)) /\ old.done \in BOOLEAN
  BY <1>1
<1>4. TransferOk(k, t) /\ (Live(t) <=> ~old.done)
  BY <1>1, <1>2, <1>3, NotNone
<1>5. incoming' = [incoming EXCEPT ![k] = t]
  <2>1. [old EXCEPT !.age = 0] = t
    BY <1>1, SMT
  <2>2. incoming' = [incoming EXCEPT ![k] = [old EXCEPT !.age = 0]]
    BY DEF Refresh
  <2> QED BY <2>1, <2>2
<1>6. Live(t) => Live(incoming[k])
  BY <1>4 DEF Live, Held
<1> HIDE DEF t
<1> QED BY <1>4, <1>5, <1>6, OneTransfer

(* handle_file_header_frame.                                               *)
LEMMA HeaderOk ==
  ASSUME DownInv, NEW h \in Offers, TakeHeader(h)
  PROVE  DownInv'
<1> DEFINE k == Of(h)
<1>1. k \in TransferKey /\ Offered(k) = h
  BY OfferedIs
<1>2. ChunkCount(Length(k), Offered(k).chunk) # 0
  BY <1>1 DEF TakeHeader, Length
<1>3. UNCHANGED <<published, expired>>
  BY DEF TakeHeader
<1>4. \/ Held(k) /\ Refresh(k) /\ UNCHANGED parts
      \/ /\ ~Held(k)
         /\ AdmissionAllowed({j \in Unfinished : j[1] = h.from}, Unfinished, Len(h.content))
         /\ parts' = [parts EXCEPT ![k] = <<>>]
         /\ incoming' = [incoming EXCEPT ![k] = [got |-> {}, done |-> FALSE, age |-> 0]]
  BY DEF TakeHeader
<1>5. k[1] = h.from
  BY DEF Of
<1> HIDE DEF k
<1>6. CASE Held(k) /\ Refresh(k) /\ UNCHANGED parts
  <2>1. /\ DOMAIN incoming' = TransferKey /\ \A j \in TransferKey : TransferOk(j, incoming'[j])
        /\ RoomOk(Unfinished')
    BY <1>1, <1>6, RefreshOk
  <2> QED BY <1>3, <1>6, <2>1 DEF DownInv
<1>7. CASE ~(Held(k) /\ Refresh(k) /\ UNCHANGED parts)
  <2> DEFINE t == [got |-> {}, done |-> FALSE, age |-> 0]
  <2>1. /\ ~Held(k)
        /\ AdmissionAllowed(From(Unfinished, k[1]), Unfinished, Length(k))
        /\ parts' = [parts EXCEPT ![k] = <<>>]
        /\ incoming' = [incoming EXCEPT ![k] = t]
    BY <1>1, <1>4, <1>5, <1>7 DEF From, Length
  <2>2. TransferOk(k, t) /\ Live(t)
    <3>1. 0 \in 0 .. IdleTimeout /\ {} \in SUBSET Chunks(Offered(k)) /\ FALSE \in BOOLEAN
      BY FileLimits, SMT
    <3> QED BY <1>1, <1>2, <3>1, NotNone
  <2> HIDE DEF t
  <2>3. DOMAIN incoming = TransferKey /\ \A j \in TransferKey : TransferOk(j, incoming[j])
    BY DEF DownInv
  <2>4. DOMAIN incoming' = TransferKey /\ \A j \in TransferKey : incoming'[j] = IF j = k THEN t ELSE incoming[j]
    BY <2>1, <2>3
  <2>5. \A j \in TransferKey : TransferOk(j, incoming'[j])
    BY <2>2, <2>3, <2>4
  <2>6. /\ Unfinished = {j \in TransferKey : Live(incoming[j])}
        /\ Unfinished' = {j \in TransferKey : Live(incoming'[j])}
    BY DEF Unfinished, Held, Live
  <2>7. k \notin Unfinished /\ Unfinished \in SUBSET TransferKey
    BY <2>1, <2>6 DEF Live, Held
  <2>8. Unfinished' = Unfinished \cup {k}
    BY <1>1, <2>2, <2>4, <2>6
  <2>9. RoomOk(Unfinished \cup {k})
    <3>1. RoomOk(Unfinished)
      BY DEF DownInv
    <3> QED BY <1>1, <2>1, <2>7, <3>1, RoomOneMore
  <2>10. PartOk(k, <<>>)
    <3>1. Length(k) \in Nat /\ Offered(k).chunk \in Nat
      BY <1>1, OfferOk
    <3>2. Length(k) <= MaxFileSize
      BY <1>2, <3>1, CountedSize
    <3>3. <<>> \in Seq(Nat) /\ Len(<<>>) <= Length(k)
      BY <3>1, SMT
    <3> QED BY <3>2, <3>3 DEF PartOk
  <2>11. DOMAIN parts' = TransferKey /\ \A j \in TransferKey : PartOk(j, parts'[j])
    BY <1>1, <2>1, <2>10, OnePart
  <2>12. RoomOk(Unfinished')
    BY <2>8, <2>9
  <2> QED BY <1>3, <2>4, <2>5, <2>11, <2>12 DEF DownInv
<1> QED BY <1>6, <1>7

(* The chunk is recorded, and the file published with the last one.        *)
LEMMA StoreOk ==
  ASSUME DownInv, NEW k \in TransferKey, Held(k), NEW i \in Chunks(Offered(k)), i \notin incoming[k].got,
         NEW bytes, PartOk(k, bytes), StoreChunk(k, i, bytes), UNCHANGED expired
  PROVE  DownInv'
<1> DEFINE got == incoming[k].got \cup {i}
           name == Offered(k).name
           all == Chunks(Offered(k))
<1>1. /\ incoming[k] \in [got : SUBSET all, done : BOOLEAN, age : 0 .. IdleTimeout]
      /\ incoming[k].done => incoming[k].got = all
      /\ ChunkCount(Length(k), Offered(k).chunk) # 0
  BY HeldTransfer
<1>2. got \in SUBSET all /\ got \ {i} \in SUBSET all /\ 0 \in 0 .. IdleTimeout
  BY <1>1, FileLimits, SMT
<1>3. Live(incoming[k])
  BY <1>1 DEF Held, Live
<1>4. /\ DOMAIN published = {h.name : h \in Offers} /\ expired \subseteq TransferKey
      /\ \A n \in DOMAIN published : PublishedOk(n, published[n])
  BY DEF DownInv
<1>5. ASSUME NEW g \in SUBSET all, NEW d \in BOOLEAN, d => g = all,
             incoming' = [incoming EXCEPT ![k] = [got |-> g, done |-> d, age |-> 0]]
      PROVE  /\ DOMAIN incoming' = TransferKey /\ \A j \in TransferKey : TransferOk(j, incoming'[j])
             /\ RoomOk(Unfinished')
  <2> DEFINE t == [got |-> g, done |-> d, age |-> 0]
  <2>1. TransferOk(k, t)
    BY <1>1, <1>2, <1>5, NotNone
  <2> HIDE DEF t
  <2>2. incoming' = [incoming EXCEPT ![k] = t]
    BY <1>5 DEF t
  <2> QED BY <1>3, <2>1, <2>2, OneTransfer
<1>6. ASSUME NEW g \in SUBSET all,
             incoming' = [incoming EXCEPT ![k] = [got |-> g, done |-> FALSE, age |-> 0]],
             parts' = [parts EXCEPT ![k] = bytes], UNCHANGED published
      PROVE  DownInv'
  <2>1. /\ DOMAIN incoming' = TransferKey /\ \A j \in TransferKey : TransferOk(j, incoming'[j])
        /\ RoomOk(Unfinished')
    BY <1>5, <1>6
  <2>2. DOMAIN parts' = TransferKey /\ \A j \in TransferKey : PartOk(j, parts'[j])
    BY <1>6, OnePart
  <2> QED BY <1>4, <1>6, <2>1, <2>2 DEF DownInv
<1>7. ASSUME got = all, Verified(k, bytes),
             incoming' = [incoming EXCEPT ![k] = [got |-> got, done |-> TRUE, age |-> 0]],
             parts' = [parts EXCEPT ![k] = None], published' = [published EXCEPT ![name] = bytes]
      PROVE  DownInv'
  <2>1. /\ DOMAIN incoming' = TransferKey /\ \A j \in TransferKey : TransferOk(j, incoming'[j])
        /\ RoomOk(Unfinished')
    BY <1>2, <1>5, <1>7
  <2>2. PartOk(k, None)
    BY DEF PartOk
  <2>3. DOMAIN parts' = TransferKey /\ \A j \in TransferKey : PartOk(j, parts'[j])
    BY <1>7, <2>2, OnePart
  <2>4. bytes = Offered(k).content
    <3>1. Digest(bytes) = Digest(Offered(k).content)
      BY <1>7 DEF Verified
    <3> QED BY <3>1, SMT DEF Digest
  <2>5. Offered(k) \in Offers /\ Length(k) \in Nat /\ Offered(k).chunk \in Nat
    BY OfferOk
  <2>6. Len(bytes) <= MaxFileSize
    BY <1>1, <2>4, <2>5, CountedSize DEF Length
  <2>7. PublishedOk(name, bytes)
    BY <2>4, <2>5, <2>6 DEF PublishedOk
  <2> HIDE DEF name
  <2>8. DOMAIN published' = DOMAIN published /\ \A n \in DOMAIN published : PublishedOk(n, published'[n])
    BY <1>4, <1>7, <2>7
  <2> QED BY <1>4, <2>1, <2>3, <2>8 DEF DownInv
<1>8. \/ /\ incoming' = [incoming EXCEPT ![k] = [got |-> got, done |-> FALSE, age |-> 0]]
         /\ parts' = [parts EXCEPT ![k] = bytes] /\ UNCHANGED published
      \/ /\ got = all /\ Verified(k, bytes)
         /\ incoming' = [incoming EXCEPT ![k] = [got |-> got, done |-> TRUE, age |-> 0]]
         /\ parts' = [parts EXCEPT ![k] = None]
         /\ published' = [published EXCEPT ![name] = bytes]
      \/ /\ incoming' = [incoming EXCEPT ![k] = [got |-> got \ {i}, done |-> FALSE, age |-> 0]]
         /\ parts' = [parts EXCEPT ![k] = bytes] /\ UNCHANGED published
  BY DEF StoreChunk
<1> HIDE DEF got, name, all
<1> QED BY <1>2, <1>6, <1>7, <1>8

(* handle_file_chunk_frame.                                                *)
LEMMA ChunkOk ==
  ASSUME DownInv, NEW k \in TransferKey, NEW i \in Chunks(Offered(k)), NEW data \in Reads(Offered(k), i),
         TakeChunk(k, i, data)
  PROVE  DownInv'
<1> DEFINE h == Offered(k)
<1>1. Held(k) /\ Len(data) = ChunkLength(h, i) /\ UNCHANGED expired
  BY DEF TakeChunk
<1>2. CASE Refresh(k) /\ UNCHANGED <<parts, published>>
  <2>1. /\ DOMAIN incoming' = TransferKey /\ \A j \in TransferKey : TransferOk(j, incoming'[j])
        /\ RoomOk(Unfinished')
    BY <1>1, RefreshOk, <1>2
  <2> QED BY <1>1, <1>2, <2>1 DEF DownInv
<1>3. ASSUME i \notin incoming[k].got, parts[k] # None,
             NEW bytes \in {Written(parts[k], i * h.chunk, data), parts[k]}, StoreChunk(k, i, bytes)
      PROVE  DownInv'
  <2>1. /\ h.content \in Seq(Nat) /\ h.chunk \in Nat /\ Length(k) \in Nat
        /\ Length(k) = Len(h.content)
    BY OfferOk DEF Length
  <2>2. ChunkCount(Length(k), h.chunk) # 0
    BY <1>1, HeldTransfer
  <2>3. PartOk(k, parts[k])
    BY DEF DownInv
  <2>4. parts[k] \in Seq(Nat) /\ Len(parts[k]) <= Length(k) /\ Length(k) <= MaxFileSize
    BY <1>3, <2>3 DEF PartOk
  <2> HIDE DEF h
  <2>5. /\ i \in Nat /\ i * h.chunk \in Nat /\ i * h.chunk + ChunkLength(h, i) <= Len(h.content)
    BY <2>1, <2>2, ChunkInside DEF h
  <2>6. data \in Seq(Nat)
    BY <2>1, <2>5, ReadsBytes DEF h
  <2>7. i * h.chunk + Len(data) <= Length(k)
    BY <1>1, <2>1, <2>5
  <2> DEFINE w == Written(parts[k], i * h.chunk, data)
  <2>8. w \in Seq(Nat) /\ Len(w) <= Length(k)
    BY <2>1, <2>4, <2>5, <2>6, <2>7, WrittenBytes
  <2> HIDE DEF w
  <2>9. PartOk(k, w)
    BY <2>4, <2>8 DEF PartOk
  <2>10. PartOk(k, bytes)
    BY <1>3, <2>3, <2>9 DEF w
  <2> QED BY <1>1, <1>3, <2>10, StoreOk
<1> QED BY <1>2, <1>3 DEF TakeChunk

(* handle_file_cancel_frame.                                               *)
LEMMA CancelOk == ASSUME DownInv, NEW k \in TransferKey, TakeCancel(k) PROVE DownInv'
<1>1. incoming' = [incoming EXCEPT ![k] = NoTransfer] /\ UNCHANGED <<published, expired>>
  BY DEF TakeCancel
<1>2. TransferOk(k, NoTransfer) /\ ~Live(NoTransfer) /\ PartOk(k, None)
  BY DEF TransferOk, Live, PartOk
<1>3. /\ DOMAIN incoming' = TransferKey /\ \A j \in TransferKey : TransferOk(j, incoming'[j])
      /\ RoomOk(Unfinished')
  BY <1>1, <1>2, OneTransfer
<1>4. parts' = parts \/ parts' = [parts EXCEPT ![k] = None]
  BY DEF TakeCancel
<1>5. DOMAIN parts' = TransferKey /\ \A j \in TransferKey : PartOk(j, parts'[j])
  <2>1. CASE parts' = parts
    BY <2>1 DEF DownInv
  <2>2. CASE parts' = [parts EXCEPT ![k] = None]
    BY <1>2, <2>2, OnePart
  <2> QED BY <1>4, <2>1, <2>2
<1> QED BY <1>1, <1>3, <1>5 DEF DownInv

(* The deletion of a .part file, also of one that belongs to the successor *)
(* of the transfer that expired.                                           *)
LEMMA DeleteOk == ASSUME DownInv, NEW k \in TransferKey, DeletePart(k) PROVE DownInv'
<1>1. PartOk(k, None)
  BY DEF PartOk
<1>2. DOMAIN parts' = TransferKey /\ \A j \in TransferKey : PartOk(j, parts'[j])
  BY <1>1, OnePart DEF DeletePart
<1>3. UNCHANGED <<incoming, published>> /\ expired' \subseteq TransferKey
  BY DEF DeletePart, DownInv
<1>4. Unfinished' = Unfinished
  BY <1>3 DEF Unfinished, Held
<1> QED BY <1>2, <1>3, <1>4 DEF DownInv

(* All transfers change at once, and none comes to life.                   *)
LEMMA AllTransfers ==
  ASSUME DownInv, NEW f, incoming' = [k \in TransferKey |-> f[k]], UNCHANGED <<parts, published>>,
         expired' \subseteq TransferKey,
         \A k \in TransferKey : TransferOk(k, f[k]) /\ (Live(f[k]) => Live(incoming[k]))
  PROVE  DownInv'
<1>1. DOMAIN incoming' = TransferKey /\ \A k \in TransferKey : incoming'[k] = f[k]
  OBVIOUS
<1>2. Unfinished = {k \in TransferKey : Live(incoming[k])} /\ Unfinished' = {k \in TransferKey : Live(incoming'[k])}
  BY DEF Unfinished, Held, Live
<1>3. Unfinished' \subseteq Unfinished
  BY <1>1, <1>2
<1>4. RoomOk(Unfinished')
  BY <1>3, RoomSubset DEF DownInv
<1>5. \A k \in TransferKey : TransferOk(k, incoming'[k])
  BY <1>1
<1> QED BY <1>1, <1>4, <1>5 DEF DownInv

(* The lock section of expire_file_transfers.                              *)
LEMMA ExpireOk == ASSUME DownInv, ExpireTransfers PROVE DownInv'
<1> DEFINE f == [k \in TransferKey |-> IF Idle(k) THEN NoTransfer ELSE incoming[k]]
<1>1. ASSUME NEW k \in TransferKey
      PROVE  TransferOk(k, f[k]) /\ (Live(f[k]) => Live(incoming[k]))
  <2>1. f[k] = NoTransfer \/ f[k] = incoming[k]
    OBVIOUS
  <2>2. TransferOk(k, NoTransfer) /\ ~Live(NoTransfer) /\ TransferOk(k, incoming[k])
    BY DEF TransferOk, Live, DownInv
  <2> HIDE DEF f
  <2> QED BY <2>1, <2>2
<1>2. incoming' = [k \in TransferKey |-> f[k]] /\ UNCHANGED <<parts, published>>
  BY DEF ExpireTransfers
<1>3. expired' \subseteq TransferKey
  BY DEF ExpireTransfers, Unfinished
<1> HIDE DEF f
<1> QED BY <1>1, <1>2, <1>3, AllTransfers

(* A second passes.                                                        *)
LEMMA InTickOk == ASSUME DownInv, InTick PROVE DownInv'
<1> DEFINE f == [k \in TransferKey |-> IF Held(k) /\ incoming[k].age < IdleTimeout
                                         THEN [incoming[k] EXCEPT !.age = @ + 1] ELSE incoming[k]]
<1>1. ASSUME NEW k \in TransferKey
      PROVE  TransferOk(k, f[k]) /\ (Live(f[k]) => Live(incoming[k]))
  <2>1. CASE Held(k) /\ incoming[k].age < IdleTimeout
    <3> DEFINE old == incoming[k]
               t == [got |-> old.got, done |-> old.done, age |-> old.age + 1]
    <3>1. /\ old \in [got : SUBSET Chunks(Offered(k)), done : BOOLEAN, age : 0 .. IdleTimeout]
          /\ old.done => old.got = Chunks(Offered(k))
          /\ ChunkCount(Length(k), Offered(k).chunk) # 0
      BY <2>1, HeldTransfer
    <3>2. old.age \in 0 .. IdleTimeout /\ old.got \in SUBSET Chunks(Offered(k)) /\ old.done \in BOOLEAN
      BY <3>1
    <3>3. old.age + 1 \in 0 .. IdleTimeout
      BY <2>1, <3>2, FileLimits, SMT
    <3>4. TransferOk(k, t) /\ (Live(t) <=> ~old.done)
      BY <3>1, <3>2, <3>3, NotNone
    <3>5. f[k] = [old EXCEPT !.age = @ + 1]
      BY <2>1
    <3>6. [old EXCEPT !.age = @ + 1] = t
      BY <3>1, SMT
    <3>7. Live(old) <=> ~old.done
      BY <2>1 DEF Live, Held
    <3> HIDE DEF f, t
    <3> QED BY <3>4, <3>5, <3>6, <3>7
  <2>2. CASE ~(Held(k) /\ incoming[k].age < IdleTimeout)
    <3>1. f[k] = incoming[k]
      BY <2>2
    <3>2. TransferOk(k, incoming[k])
      BY DEF DownInv
    <3> QED BY <3>1, <3>2
  <2> QED BY <2>1, <2>2
<1>2. incoming' = [k \in TransferKey |-> f[k]] /\ UNCHANGED <<parts, published, expired>>
  BY DEF InTick
<1>3. expired' \subseteq TransferKey
  BY <1>2 DEF DownInv
<1> HIDE DEF f
<1> QED BY <1>1, <1>2, <1>3, AllTransfers

(* A node starts without downloads.                                        *)
LEMMA InitDownInv == InInit => DownInv
<1> SUFFICES ASSUME InInit PROVE DownInv
  OBVIOUS
<1>1. \A k \in TransferKey : incoming[k] = NoTransfer /\ parts[k] = None
  BY DEF InInit
<1>2. /\ DOMAIN incoming = TransferKey /\ DOMAIN parts = TransferKey /\ expired \subseteq TransferKey
      /\ DOMAIN published = {h.name : h \in Offers} /\ \A n \in DOMAIN published : published[n] = None
  BY DEF InInit
<1>3. Unfinished = {}
  BY <1>1 DEF Unfinished, Held
<1>4. ASSUME NEW a \in Nat, NEW r \in Nat PROVE Fit({}, a, r)
  <2>1. IsFiniteSet({}) /\ Cardinality({}) = 0
    BY FS_EmptySet
  <2>2. \A x \in DOMAIN Sizes({}) : Sizes({})[x] = 0
    BY DEF Sizes
  <2>3. IsFiniteSet(Units(Sizes({}))) /\ Total(Sizes({})) = 0
    BY <2>2, TotalZero
  <2>4. 0 <= a /\ 0 <= r
    BY SMT
  <2> QED BY <2>1, <2>3, <2>4 DEF Fit
<1>5. RoomOk({})
  <2>1. \A p \in Senders : From({}, p) = {}
    BY DEF From
  <2> QED BY <1>4, <2>1, FileLimits DEF RoomOk
<1> QED BY <1>1, <1>2, <1>3, <1>5 DEF DownInv, TransferOk, PartOk, PublishedOk

(* Every step keeps the invariant.                                         *)
LEMMA NextDownInv == DownInv /\ [InNext]_inVars => DownInv'
<1> SUFFICES ASSUME DownInv, [InNext]_inVars PROVE DownInv'
  OBVIOUS
<1>1. CASE UNCHANGED inVars
  <2>1. UNCHANGED <<incoming, parts, published, expired>>
    BY <1>1 DEF inVars
  <2>2. Unfinished' = Unfinished
    BY <2>1 DEF Unfinished, Held
  <2> QED BY <2>1, <2>2 DEF DownInv
<1> QED BY <1>1, HeaderOk, ChunkOk, CancelOk, DeleteOk, ExpireOk, InTickOk DEF InNext

(* What the invariant says of the disk.                                    *)
LEMMA DownInvSound == DownInv => DownloadsSound
<1> SUFFICES ASSUME DownInv PROVE DownloadsSound
  OBVIOUS
<1>1. ASSUME NEW k \in TransferKey
      PROVE  /\ Held(k) => incoming[k].got \subseteq Chunks(Offered(k))
             /\ incoming[k].done \in BOOLEAN /\ incoming[k].age \in 0 .. IdleTimeout
             /\ IsFile(parts[k])
  <2>1. IsFile(parts[k])
    <3>1. PartOk(k, parts[k]) /\ Length(k) \in Nat
      BY OfferOk DEF DownInv
    <3>2. ASSUME parts[k] # None PROVE parts[k] \in Seq(Nat) /\ Len(parts[k]) <= MaxFileSize
      <4>1. parts[k] \in Seq(Nat) /\ Len(parts[k]) <= Length(k) /\ Length(k) <= MaxFileSize
        BY <3>1, <3>2 DEF PartOk
      <4> QED BY <3>1, <4>1, FileLimits, SMT
    <3> QED BY <3>2 DEF IsFile
  <2>2. CASE Held(k)
    <3>1. incoming[k] \in [got : SUBSET Chunks(Offered(k)), done : BOOLEAN, age : 0 .. IdleTimeout]
      BY <2>2, HeldTransfer
    <3> QED BY <2>1, <3>1
  <2>3. CASE ~Held(k)
    <3>1. incoming[k] = NoTransfer /\ NoTransfer.done = FALSE /\ NoTransfer.age = 0
      BY <2>3 DEF Held, NoTransfer
    <3>2. 0 \in 0 .. IdleTimeout
      BY FileLimits, SMT
    <3> QED BY <2>1, <2>3, <3>1, <3>2
  <2> QED BY <2>2, <2>3
<1>2. ASSUME NEW n \in DOMAIN published
      PROVE  /\ IsFile(published[n])
             /\ published[n] # None => \E h \in Offers : h.name = n /\ h.content = published[n]
  <2>1. PublishedOk(n, published[n])
    BY DEF DownInv
  <2>2. \A h \in Offers : h.content \in Seq(Nat)
    BY IncomingAssumption
  <2> QED BY <2>1, <2>2 DEF PublishedOk, IsFile
<1>3. expired \subseteq TransferKey
  BY DEF DownInv
<1>4. ASSUME NEW k \in Unfinished PROVE parts[k] # None => Len(parts[k]) <= Len(Offered(k).content)
  <2>1. PartOk(k, parts[k])
    BY DEF DownInv, Unfinished
  <2> QED BY <2>1 DEF PartOk, Length
<1>5. \A K : Reserved(K) = Total(Sizes(K))
  BY DEF Reserved, Sizes, Length
<1>6. Cardinality(Unfinished) <= MaxActiveGlobal /\ Reserved(Unfinished) <= MaxReservedGlobal
  BY <1>5 DEF DownInv, RoomOk, Fit
<1>7. ASSUME NEW k \in Unfinished
      PROVE  LET mine == {j \in Unfinished : j[1] = k[1]}
             IN  Cardinality(mine) <= MaxActivePeer /\ Reserved(mine) <= MaxReservedPeer
  <2>1. k[1] \in Senders
    BY OfferOk DEF Unfinished
  <2>2. Fit(From(Unfinished, k[1]), MaxActivePeer, MaxReservedPeer)
    BY <2>1 DEF DownInv, RoomOk
  <2> QED BY <1>5, <2>2 DEF Fit, From
<1> QED BY <1>1, <1>2, <1>3, <1>4, <1>6, <1>7
        DEF DownloadsSound, InTypeOK, PublishedWhole, ReservationsHold

(* However headers, chunks, cancellations and expiry interleave, also with *)
(* the deletion of a .part file that comes late: what is published is a    *)
(* file that somebody sent under that name, and the .part files stay       *)
(* within what admission has reserved, for every peer and in all.          *)
THEOREM DownloadsStaySound == InSpec => []DownloadsSound
BY InitDownInv, NextDownInv, DownInvSound, PTL DEF InSpec
=============================================================================
