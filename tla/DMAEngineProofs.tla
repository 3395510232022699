--------------------------- MODULE DMAEngineProofs ---------------------------
(***************************************************************************)
(* The DMA engine's books are right, and it keeps the promise of           *)
(* DMAInterface, for any number of commands, any sizes, any window, any    *)
(* latency and any bandwidth, with and without an L2 cache.                *)
(*                                                                         *)
(* TransfersAccountedFor is not inductive.  That a burst is counted for a  *)
(* request which is still there rests on where the bursts of the request   *)
(* can be in each mode; that a command is told of once rests on a request  *)
(* staying in flight exactly while bursts of it are missing, and on the    *)
(* queue of 0-byte transfers holding no request that has bursts.           *)
(***************************************************************************)
EXTENDS DMAEngine, TLAPS, SequenceTheorems, FiniteSetTheorems

Entries == [req : Cmds, left : Int]

TypeOK ==
    /\ l2 \in BOOLEAN /\ pc \in {"idle", "take"}
    /\ inflight \subseteq Cmds /\ reads \subseteq inflight
    /\ early \subseteq inflight \ reads
    /\ total_txns \in [Cmds -> Nat] /\ issued_txns \in [Cmds -> Nat]
    /\ done_txns \in [Cmds -> Nat]
    /\ pending \in Seq(Cmds) /\ in_memory \in [Cmds -> Nat]
    /\ pending_txns \in Seq(Entries) /\ current_in_flight_mem_reqs \in Int
    /\ pending_zero_done \in Seq(Entries)
    /\ incoming_txns \in Seq(Cmds) /\ scheduled_completions \in Seq(Entries)
    /\ bus_free \in Nat
    /\ completed_cmds \in [Cmds -> Nat] /\ reported \in [Cmds -> Nat]

\* Bursts are inside the L2 cache or in the fallback pipeline, never in both.
OneMemory ==
    /\ l2 => pending_txns = <<>>
    /\ ~l2 => \A c \in Cmds : in_memory[c] = 0

\* A burst waits only for a request that is in flight.
PendingLive == \A c \in Cmds : Count(pending, c) > 0 => c \in inflight

\* A request with bursts is in flight exactly while one of them is missing.
LeavesWhenDone ==
    \A c \in Cmds :
        /\ c \in inflight /\ total_txns[c] > 0 => done_txns[c] < total_txns[c]
        /\ c \notin inflight => done_txns[c] = total_txns[c]

\* How often SAController has been or is about to be told of c.
Told(c) == reported[c] + completed_cmds[c]

\* Who has been told: the writes sent in full and the requests that have left,
\* but for those never submitted.
ToldExact ==
    /\ pc = "idle" => \A c \in Cmds : completed_cmds[c] = 0
    /\ \A c \in Cmds :
        /\ c \in inflight \ early => Told(c) = 0
        /\ c \in early => Told(c) = 1 /\ issued_txns[c] = total_txns[c] /\ total_txns[c] > 0
        /\ c \notin inflight => Told(c) <= 1 /\ (Told(c) = 0 => total_txns[c] = 0)

\* The queue of 0-byte transfers.
ZeroQueue ==
    \A c \in Cmds :
        (\E i \in 1 .. Len(pending_zero_done) : pending_zero_done[i].req = c)
            => total_txns[c] = 0 /\ (c \in inflight \/ Told(c) = 1)

DInv ==
    /\ TypeOK /\ OneMemory /\ PendingLive /\ LeavesWhenDone /\ ToldExact /\ ZeroQueue
    /\ BurstsConserved /\ WindowExact

-----------------------------------------------------------------------------
(***************************************************************************)
(* Induction on the natural numbers, stated for a set.                     *)
(***************************************************************************)

\* A set of naturals that holds 0 and the successor of each of its members is Nat.
LEMMA InductiveSet ==
    ASSUME NEW S \in SUBSET Nat, 0 \in S, \A n \in S : n + 1 \in S
    PROVE  S = Nat
<1> DEFINE R == OpToRel(<, Nat)
<1> DEFINE T == Nat \ S
<1>1. IsWellFoundedOn(R, Nat)
  BY NatLessThanWellFounded, Zenon
<1>2. \A x, y \in Nat : <<y, x>> \in R <=> y < x
  BY DEF OpToRel
<1> SUFFICES ASSUME T # {} PROVE FALSE
  OBVIOUS
<1>3. T \subseteq Nat
  OBVIOUS
<1> HIDE DEF R, T
<1>4. PICK x \in T : \A y \in T : ~(<<y, x>> \in R)
  BY <1>1, <1>3, WFMin
<1>5. x # 0 /\ x - 1 \in Nat /\ x - 1 < x /\ x \in Nat
  BY <1>4 DEF T
<1>6. x - 1 \in S
  BY <1>2, <1>4, <1>5 DEF T
<1>7. x - 1 + 1 \in S
  BY <1>6
<1>8. QED
  BY <1>4, <1>5, <1>7 DEF T

(***************************************************************************)
(* Counting the bursts of a request in a queue.                            *)
(***************************************************************************)

\* A count is a natural number, positive when and only when r is in s.
LEMMA CountNat ==
    ASSUME NEW S, NEW s \in Seq(S), NEW r
    PROVE  /\ IsFiniteSet({i \in 1 .. Len(s) : s[i] = r})
           /\ Count(s, r) \in Nat /\ Count(s, r) <= Len(s)
           /\ Count(s, r) > 0 <=> \E i \in 1 .. Len(s) : s[i] = r
<1> DEFINE I == {i \in 1 .. Len(s) : s[i] = r}
<1>1. Len(s) \in Nat
  BY LenProperties
<1>2. IsFiniteSet(1 .. Len(s)) /\ Cardinality(1 .. Len(s)) = Len(s)
  BY <1>1, FS_Interval
<1>3. IsFiniteSet(I) /\ Cardinality(I) <= Len(s)
  BY <1>2, FS_Subset
<1>4. Cardinality(I) \in Nat
  BY <1>3, FS_CardinalityType
<1>5. Cardinality(I) = 0 <=> I = {}
  BY <1>3, FS_EmptySet
<1> QED
  BY <1>3, <1>4, <1>5 DEF Count

\* An empty queue holds no burst.
LEMMA CountEmpty == ASSUME NEW r PROVE Count(<<>>, r) = 0
<1>1. {i \in 1 .. Len(<<>>) : <<>>[i] = r} = {}
  OBVIOUS
<1> QED
  BY <1>1, FS_EmptySet DEF Count

\* A queue that is the two others one after the other holds the bursts of both.
LEMMA CountConcat ==
    ASSUME NEW S, NEW s \in Seq(S), NEW t \in Seq(S), NEW r
    PROVE  Count(s \o t, r) = Count(s, r) + Count(t, r)
<1> DEFINE u == s \o t
           A == {i \in 1 .. Len(s) : s[i] = r}
           B == {i \in 1 .. Len(t) : t[i] = r}
           C == {i \in Len(s) + 1 .. Len(s) + Len(t) : u[i] = r}
           f == [i \in B |-> i + Len(s)]
<1>1. /\ Len(s) \in Nat /\ Len(t) \in Nat /\ Len(u) = Len(s) + Len(t)
      /\ \A i \in 1 .. Len(u) : u[i] = IF i <= Len(s) THEN s[i] ELSE t[i - Len(s)]
  BY LenProperties, ConcatProperties
<1>2. IsFiniteSet(A) /\ IsFiniteSet(B)
  BY CountNat
<1> HIDE DEF u
<1>3. f \in Bijection(B, C)
  <2>1. \A i \in B : f[i] \in C
    BY <1>1
  <2>2. \A i, j \in B : f[i] = f[j] => i = j
    BY <1>1
  <2>3. \A k \in C : k - Len(s) \in B /\ f[k - Len(s)] = k
    BY <1>1
  <2> QED
    BY <2>1, <2>2, <2>3 DEF Bijection, Injection, Surjection, IsInjective
<1>4. IsFiniteSet(C) /\ Cardinality(C) = Cardinality(B)
  BY <1>2, <1>3, FS_Bijection DEF ExistsBijection
<1>5. {i \in 1 .. Len(u) : u[i] = r} = A \cup C /\ A \cap C = {}
  BY <1>1
<1>6. Cardinality(A \cup C) = Cardinality(A) + Cardinality(C) - Cardinality({})
  <2>1. IsFiniteSet(A) /\ IsFiniteSet(C) /\ A \cap C = {}
    BY <1>2, <1>4, <1>5
  <2> HIDE DEF A, C
  <2>2. Cardinality(A \cup C) = Cardinality(A) + Cardinality(C) - Cardinality(A \cap C)
    BY <2>1, FS_Union
  <2> QED
    BY <2>1, <2>2
<1>7. Cardinality(A) \in Nat /\ Cardinality(B) \in Nat
  BY <1>2, FS_CardinalityType
<1>8. Count(u, r) = Cardinality(A \cup C) /\ Count(s, r) = Cardinality(A)
      /\ Count(t, r) = Cardinality(B)
  BY <1>5 DEF Count
<1>9. Cardinality({}) = 0
  BY FS_EmptySet
<1> HIDE DEF A, B, C
<1>10. Count(u, r) = Count(s, r) + Count(t, r)
  BY <1>4, <1>6, <1>7, <1>8, <1>9
<1> QED
  BY <1>10 DEF u

\* One burst more.
LEMMA CountAppend ==
    ASSUME NEW S, NEW s \in Seq(S), NEW c \in S, NEW r
    PROVE  Count(Append(s, c), r) = IF c = r THEN Count(s, r) + 1 ELSE Count(s, r)
<1>1. Append(s, c) = s \o <<c>> /\ <<c>> \in Seq(S)
  BY AppendIsConcat
<1>2. Count(<<c>>, r) = IF c = r THEN 1 ELSE 0
  <2>1. {i \in 1 .. Len(<<c>>) : <<c>>[i] = r} = IF c = r THEN {1} ELSE {}
    OBVIOUS
  <2> QED
    BY <2>1, FS_Singleton, FS_EmptySet DEF Count
<1>3. Count(s \o <<c>>, r) = Count(s, r) + Count(<<c>>, r)
  BY <1>1, CountConcat
<1>4. Count(s, r) \in Nat
  BY CountNat
<1> QED
  BY <1>1, <1>2, <1>3, <1>4

\* All the bursts of one request.
LEMMA CountConstant ==
    ASSUME NEW c, NEW s \in Seq({c}), NEW r
    PROVE  Count(s, r) = IF c = r THEN Len(s) ELSE 0
<1>1. Len(s) \in Nat /\ \A i \in 1 .. Len(s) : s[i] = c
  BY LenProperties, ElementOfSeq
<1>2. {i \in 1 .. Len(s) : s[i] = r} = IF c = r THEN 1 .. Len(s) ELSE {}
  BY <1>1
<1>3. Cardinality({}) = 0 /\ Cardinality(1 .. Len(s)) = Len(s)
  <2>1. Cardinality(1 .. Len(s)) = IF 1 > Len(s) THEN 0 ELSE Len(s) - 1 + 1
    BY <1>1, FS_Interval
  <2> QED
    BY <1>1, <2>1, FS_EmptySet
<1>4. Count(s, r) = Cardinality(IF c = r THEN 1 .. Len(s) ELSE {})
  BY <1>2 DEF Count
<1> QED
  BY <1>3, <1>4

(***************************************************************************)
(* Queues ordered by time.                                                 *)
(***************************************************************************)

\* The requests of a queue, in its order.
LEMMA ReqsSeq ==
    ASSUME NEW q \in Seq(Entries)
    PROVE  /\ Reqs(q) \in Seq(Cmds) /\ Len(q) \in Nat /\ Len(Reqs(q)) = Len(q)
           /\ \A i \in 1 .. Len(q) : Reqs(q)[i] = q[i].req /\ q[i] \in Entries /\ q[i].req \in Cmds
<1>1. Len(q) \in Nat /\ \A i \in 1 .. Len(q) : q[i] \in Entries
  BY LenProperties, ElementOfSeq
<1>2. \A i \in 1 .. Len(q) : q[i].req \in Cmds
  BY <1>1 DEF Entries
<1> QED
  BY <1>1, <1>2, IsASeq DEF Reqs

\* An entry comes one cycle nearer.
LEMMA OneCycleOn ==
    ASSUME NEW x \in Entries
    PROVE  [x EXCEPT !.left = @ - 1] \in Entries /\ [x EXCEPT !.left = @ - 1].req = x.req
  BY DEF Entries

\* Where the elements of two sequences in a row are found.
LEMMA ConcatElements ==
    ASSUME NEW S, NEW s \in Seq(S), NEW t \in Seq(S)
    PROVE  /\ s \o t \in Seq(S) /\ Len(s) \in Nat /\ Len(t) \in Nat
           /\ Len(s \o t) = Len(s) + Len(t)
           /\ \A i \in 1 .. Len(s) : (s \o t)[i] = s[i]
           /\ \A i \in Len(s) + 1 .. Len(s) + Len(t) : (s \o t)[i] = t[i - Len(s)]
  BY ConcatProperties, LenProperties

\* The part due now and the rest make up the queue, burst for burst.
LEMMA QueueSplit ==
    ASSUME NEW q \in Seq(Entries)
    PROVE  /\ Due(q) \in Seq(Cmds) /\ NotDue(q) \in Seq(Entries)
           /\ Reqs(q) \in Seq(Cmds) /\ Reqs(NotDue(q)) \in Seq(Cmds)
           /\ Len(Due(q)) \in Nat /\ Len(NotDue(q)) = Len(q) - Len(Due(q))
           /\ Len(Due(q)) <= Len(q)
           /\ \A i \in 1 .. Len(Due(q)) : Due(q)[i] = q[i].req
           /\ \A i \in 1 .. Len(NotDue(q)) : NotDue(q)[i].req = q[i + Len(Due(q))].req
           /\ \A r : Count(Reqs(q), r) = Count(Due(q), r) + Count(Reqs(NotDue(q)), r)
<1> DEFINE I == {i \in 1 .. Len(q) : \A j \in 1 .. i : q[j].left <= 0}
<1>1. Len(q) \in Nat /\ \A i \in 1 .. Len(q) : q[i] \in Entries
  BY LenProperties, ElementOfSeq
<1>2. IsFiniteSet(1 .. Len(q)) /\ Cardinality(1 .. Len(q)) = Len(q)
  <2> DEFINE L == Len(q)
  <2>1. 1 \in Int /\ L \in Int /\ L \in Nat
    BY <1>1
  <2> HIDE DEF L
  <2>2. IsFiniteSet(1 .. L) /\ Cardinality(1 .. L) = IF 1 > L THEN 0 ELSE L - 1 + 1
    BY <2>1, FS_Interval
  <2>3. Cardinality(1 .. L) = L
    BY <2>1, <2>2
  <2> QED
    BY <2>2, <2>3 DEF L
<1>3. IsFiniteSet(I) /\ Cardinality(I) <= Len(q)
  BY <1>2, FS_Subset
<1>4. DueLen(q) \in 0 .. Len(q)
  BY <1>1, <1>3, FS_CardinalityType DEF DueLen
<1>5. \A i \in 1 .. Len(q) : q[i].req \in Cmds /\ q[i].left \in Int
  BY <1>1 DEF Entries
<1>6. Due(q) \in Seq(Cmds) /\ Len(Due(q)) = DueLen(q)
      /\ \A i \in 1 .. DueLen(q) : Due(q)[i] = q[i].req
  BY <1>1, <1>4, <1>5, IsASeq DEF Due
<1>7. \A i \in 1 .. Len(q) - DueLen(q) : i + DueLen(q) \in 1 .. Len(q)
  BY <1>1, <1>4
<1>8. /\ NotDue(q) \in Seq(Entries) /\ Len(NotDue(q)) = Len(q) - DueLen(q)
      /\ \A i \in 1 .. Len(q) - DueLen(q) : NotDue(q)[i].req = q[i + DueLen(q)].req
  <2>1. Len(q) - DueLen(q) \in Nat
    BY <1>1, <1>4
  <2>2. \A i \in 1 .. Len(q) - DueLen(q) :
            /\ [q[i + DueLen(q)] EXCEPT !.left = @ - 1] \in Entries
            /\ [q[i + DueLen(q)] EXCEPT !.left = @ - 1].req = q[i + DueLen(q)].req
    <3> SUFFICES ASSUME NEW i \in 1 .. Len(q) - DueLen(q)
                 PROVE  /\ [q[i + DueLen(q)] EXCEPT !.left = @ - 1] \in Entries
                        /\ [q[i + DueLen(q)] EXCEPT !.left = @ - 1].req = q[i + DueLen(q)].req
      OBVIOUS
    <3>1. q[i + DueLen(q)] \in Entries
      BY <1>1, <1>7
    <3> QED
      BY <3>1, OneCycleOn
  <2>3. NotDue(q) \in Seq(Entries)
    <3> DEFINE L == Len(q) - DueLen(q)
    <3>1. NotDue(q) \in [1 .. L -> Entries]
      BY <2>2 DEF NotDue
    <3> QED
      BY <2>1, <3>1, SeqDef
  <2>4. Len(NotDue(q)) = Len(q) - DueLen(q)
    BY <2>1 DEF NotDue
  <2> QED
    BY <2>2, <2>3, <2>4 DEF NotDue
<1>9. Reqs(q) \in Seq(Cmds) /\ Len(Reqs(q)) = Len(q)
      /\ \A i \in 1 .. Len(q) : Reqs(q)[i] = q[i].req
  BY ReqsSeq
<1>10. /\ Reqs(NotDue(q)) \in Seq(Cmds) /\ Len(Reqs(NotDue(q))) = Len(q) - DueLen(q)
       /\ \A i \in 1 .. Len(q) - DueLen(q) : Reqs(NotDue(q))[i] = q[i + DueLen(q)].req
  BY <1>8, ReqsSeq
<1>11. Reqs(q) = Due(q) \o Reqs(NotDue(q))
  <2> DEFINE d == Due(q) \o Reqs(NotDue(q))
  <2>1. /\ d \in Seq(Cmds) /\ Len(d) = Len(q)
        /\ \A i \in 1 .. DueLen(q) : d[i] = Due(q)[i]
        /\ \A i \in DueLen(q) + 1 .. Len(q) : d[i] = Reqs(NotDue(q))[i - DueLen(q)]
    BY <1>1, <1>4, <1>6, <1>10, ConcatElements
  <2> HIDE DEF d
  <2>2. ASSUME NEW i \in 1 .. Len(q)
        PROVE  d[i] = Reqs(q)[i]
    <3>1. CASE i <= DueLen(q)
      BY <1>1, <1>4, <1>6, <1>9, <2>1, <3>1
    <3>2. CASE i > DueLen(q)
      <4>1. i \in DueLen(q) + 1 .. Len(q) /\ i - DueLen(q) \in 1 .. Len(q) - DueLen(q)
            /\ i - DueLen(q) + DueLen(q) = i
        BY <1>1, <1>4, <3>2
      <4>2. d[i] = Reqs(NotDue(q))[i - DueLen(q)]
        BY <2>1, <4>1
      <4>3. Reqs(NotDue(q))[i - DueLen(q)] = q[i - DueLen(q) + DueLen(q)].req
        BY <1>10, <4>1
      <4> QED
        BY <1>9, <4>1, <4>2, <4>3
    <3> QED
      BY <1>1, <1>4, <3>1, <3>2
  <2>3. Reqs(q) = d
    BY <1>9, <2>1, <2>2, SeqEqual
  <2> QED
    BY <2>3 DEF d
<1>12. \A r : Count(Reqs(q), r) = Count(Due(q), r) + Count(Reqs(NotDue(q)), r)
  BY <1>6, <1>10, <1>11, CountConcat
<1> QED
  BY <1>4, <1>6, <1>8, <1>9, <1>10, <1>12

\* Entries put at the end of a queue.
LEMMA QueueExtend ==
    ASSUME NEW q \in Seq(Entries), NEW s \in Seq(Cmds), NEW left \in [1 .. Len(s) -> Int]
    PROVE  LET e == [i \in 1 .. Len(s) |-> [req |-> s[i], left |-> left[i]]]
           IN  /\ q \o e \in Seq(Entries) /\ Len(q \o e) = Len(q) + Len(s)
               /\ \A r : Count(Reqs(q \o e), r) = Count(Reqs(q), r) + Count(s, r)
<1> DEFINE e == [i \in 1 .. Len(s) |-> [req |-> s[i], left |-> left[i]]]
<1>1. Len(s) \in Nat /\ Len(q) \in Nat /\ \A i \in 1 .. Len(s) : s[i] \in Cmds
  BY LenProperties, ElementOfSeq
<1>2. e \in Seq(Entries) /\ Len(e) = Len(s) /\ \A i \in 1 .. Len(s) : e[i].req = s[i]
  BY <1>1, IsASeq DEF Entries
<1> HIDE DEF e
<1> DEFINE u == q \o e
<1>3. /\ u \in Seq(Entries) /\ Len(u) = Len(q) + Len(s)
      /\ \A i \in 1 .. Len(q) : u[i] = q[i]
      /\ \A i \in Len(q) + 1 .. Len(q) + Len(s) : u[i] = e[i - Len(q)]
  <2>0. e \in Seq(Entries)
    BY <1>2
  <2>1. /\ q \o e \in Seq(Entries) /\ Len(q \o e) = Len(q) + Len(e)
        /\ \A i \in 1 .. Len(q) : (q \o e)[i] = q[i]
        /\ \A i \in Len(q) + 1 .. Len(q) + Len(e) : (q \o e)[i] = e[i - Len(q)]
    BY <2>0, ConcatElements, Zenon
  <2> QED
    BY <1>2, <2>1
<1> HIDE DEF u
<1>4. Reqs(q) \in Seq(Cmds) /\ Len(Reqs(q)) = Len(q)
      /\ \A i \in 1 .. Len(q) : Reqs(q)[i] = q[i].req
  BY ReqsSeq
<1>5. Reqs(u) \in Seq(Cmds) /\ Len(Reqs(u)) = Len(u)
      /\ \A i \in 1 .. Len(u) : Reqs(u)[i] = u[i].req
  BY <1>3, ReqsSeq
<1> DEFINE d == Reqs(q) \o s
<1>6. /\ d \in Seq(Cmds) /\ Len(d) = Len(q) + Len(s)
      /\ \A i \in 1 .. Len(q) : d[i] = Reqs(q)[i]
      /\ \A i \in Len(q) + 1 .. Len(q) + Len(s) : d[i] = s[i - Len(q)]
  <2> DEFINE k == Reqs(q)
  <2>1. k \in Seq(Cmds)
    BY <1>4
  <2>2. /\ k \o s \in Seq(Cmds) /\ Len(k \o s) = Len(k) + Len(s)
        /\ \A i \in 1 .. Len(k) : (k \o s)[i] = k[i]
        /\ \A i \in Len(k) + 1 .. Len(k) + Len(s) : (k \o s)[i] = s[i - Len(k)]
    <3> HIDE DEF k
    <3> QED
      BY <2>1, ConcatElements, Zenon
  <2> QED
    BY <1>4, <2>2
<1> HIDE DEF d
<1>7. ASSUME NEW i \in 1 .. Len(u)
      PROVE  Reqs(u)[i] = d[i]
  <2>1. CASE i <= Len(q)
    <3>1. i \in 1 .. Len(q)
      BY <1>1, <1>3, <2>1
    <3>2. u[i] = q[i] /\ Reqs(u)[i] = u[i].req
      BY <1>3, <1>5, <3>1
    <3>3. d[i] = Reqs(q)[i] /\ Reqs(q)[i] = q[i].req
      BY <1>4, <1>6, <3>1
    <3> QED
      BY <3>2, <3>3
  <2>2. CASE i > Len(q)
    <3>1. i \in Len(q) + 1 .. Len(q) + Len(s) /\ i - Len(q) \in 1 .. Len(s)
      BY <1>1, <1>3, <2>2
    <3>2. u[i] = e[i - Len(q)] /\ d[i] = s[i - Len(q)] /\ e[i - Len(q)].req = s[i - Len(q)]
      BY <1>2, <1>3, <1>6, <3>1
    <3> QED
      BY <1>5, <3>2
  <2> QED
    BY <1>1, <1>3, <2>1, <2>2
<1>8. Reqs(u) = d
  BY <1>3, <1>5, <1>6, <1>7, SeqEqual
<1>9. \A r : Count(Reqs(u), r) = Count(Reqs(q), r) + Count(s, r)
  BY <1>4, <1>8, CountConcat DEF d
<1> QED
  BY <1>3, <1>9 DEF e, u

(***************************************************************************)
(* The bursts inside the memory, all requests together.                    *)
(***************************************************************************)

\* As WindowExact counts them.
Inside(f) == UNION {{c} \X (1 .. f[c]) : c \in Cmds}

\* There are finitely many.
LEMMA InsideFinite ==
    ASSUME NEW f \in [Cmds -> Nat]
    PROVE  /\ IsFiniteSet(Inside(f)) /\ Cardinality(Inside(f)) \in Nat
           /\ \A p : p \in Inside(f) <=> \E c \in Cmds : \E k \in 1 .. f[c] : p = <<c, k>>
<1> DEFINE T == {{c} \X (1 .. f[c]) : c \in Cmds}
           g == [c \in Cmds |-> {c} \X (1 .. f[c])]
<1>1. IsFiniteSet(T)
  <2>1. g \in Surjection(Cmds, T)
    BY Zenon DEF Surjection
  <2> QED
    BY <2>1, FS_Surjection, DMAAssumption DEF DMAAssumption
<1>2. ASSUME NEW c \in Cmds PROVE IsFiniteSet({c} \X (1 .. f[c]))
  <2>1. IsFiniteSet({c}) /\ IsFiniteSet(1 .. f[c])
    <3>1. f[c] \in Int /\ 1 \in Int
      OBVIOUS
    <3> QED
      BY <3>1, FS_Singleton, FS_Interval, Zenon
  <2> QED
    BY <2>1, FS_Product
<1>3. IsFiniteSet(Inside(f))
  BY <1>1, <1>2, FS_UNION DEF Inside
<1> QED
  BY <1>3, FS_CardinalityType DEF Inside

\* One burst more of c, one more in all.
LEMMA InsideOneMore ==
    ASSUME NEW f \in [Cmds -> Nat], NEW g \in [Cmds -> Nat], NEW c \in Cmds,
           \A d \in Cmds : g[d] = IF d = c THEN f[d] + 1 ELSE f[d]
    PROVE  /\ Inside(g) = Inside(f) \cup {<<c, g[c]>>} /\ <<c, g[c]>> \notin Inside(f)
           /\ Cardinality(Inside(g)) = Cardinality(Inside(f)) + 1
<1>1. \A p : p \in Inside(f) <=> \E d \in Cmds : \E k \in 1 .. f[d] : p = <<d, k>>
  BY InsideFinite
<1>2. \A p : p \in Inside(g) <=> \E d \in Cmds : \E k \in 1 .. g[d] : p = <<d, k>>
  BY InsideFinite
<1>3. g[c] = f[c] + 1 /\ f[c] \in Nat
  OBVIOUS
<1>4. \A d \in Cmds : d # c => g[d] = f[d]
  OBVIOUS
<1>5. <<c, g[c]>> \notin Inside(f)
  BY <1>1, <1>3
<1>6. \A p : p \in Inside(g) <=> p \in Inside(f) \cup {<<c, g[c]>>}
  <2>1. ASSUME NEW p, p \in Inside(g) PROVE p \in Inside(f) \cup {<<c, g[c]>>}
    <3>0. PICK d \in Cmds : \E k \in 1 .. g[d] : p = <<d, k>>
      BY <1>2, <2>1
    <3>1. PICK k \in 1 .. g[d] : p = <<d, k>>
      BY <3>0
    <3>2. CASE d # c
      BY <1>1, <1>4, <3>1, <3>2
    <3>3. CASE d = c
      <4>1. k = g[c] \/ k \in 1 .. f[c]
        BY <1>3, <3>1, <3>3
      <4> QED
        BY <1>1, <3>1, <3>3, <4>1
    <3> QED
      BY <3>2, <3>3
  <2>2. ASSUME NEW p, p \in Inside(f) PROVE p \in Inside(g)
    <3>0. PICK d \in Cmds : \E k \in 1 .. f[d] : p = <<d, k>>
      BY <1>1, <2>2
    <3>1. PICK k \in 1 .. f[d] : p = <<d, k>>
      BY <3>0
    <3>2. k \in 1 .. g[d]
      BY <1>3, <1>4, <3>1
    <3> QED
      BY <1>2, <3>1, <3>2
  <2>3. <<c, g[c]>> \in Inside(g)
    <3>1. g[c] \in 1 .. g[c]
      BY <1>3
    <3> QED
      BY <1>2, <3>1
  <2> QED
    BY <2>1, <2>2, <2>3
<1>7. Inside(g) = Inside(f) \cup {<<c, g[c]>>}
  BY <1>6
<1>8. IsFiniteSet(Inside(f))
  BY InsideFinite
<1>9. Cardinality(Inside(f) \cup {<<c, g[c]>>}) = Cardinality(Inside(f)) + 1
  BY <1>5, <1>8, FS_AddElement
<1> QED
  BY <1>5, <1>7, <1>9

\* The bursts of s more, Len(s) more in all.
LEMMA InsideGrows ==
    ASSUME NEW f \in [Cmds -> Nat], NEW s \in Seq(Cmds)
    PROVE  Cardinality(Inside([c \in Cmds |-> f[c] + Count(s, c)]))
                = Cardinality(Inside(f)) + Len(s)
<1> DEFINE g(m) == [c \in Cmds |-> f[c] + Count(SubSeq(s, 1, m), c)]
           S == {m \in Nat : m <= Len(s) =>
                    Cardinality(Inside(g(m))) = Cardinality(Inside(f)) + m}
<1>1. Len(s) \in Nat /\ Cardinality(Inside(f)) \in Nat
  BY LenProperties, InsideFinite
<1>2. \A m \in 0 .. Len(s) : SubSeq(s, 1, m) \in Seq(Cmds)
  BY <1>1, SubSeqProperties
<1>3. \A m \in 0 .. Len(s) : g(m) \in [Cmds -> Nat]
  <2>1. \A m \in 0 .. Len(s), c \in Cmds : Count(SubSeq(s, 1, m), c) \in Nat
    BY <1>2, CountNat
  <2> QED
    BY <2>1
<1>4. 0 \in S
  <2>1. SubSeq(s, 1, 0) = <<>>
    BY SubSeqEmpty
  <2>2. \A c \in Cmds : g(0)[c] = f[c]
    <3> TAKE c \in Cmds
    <3>1. Count(SubSeq(s, 1, 0), c) = 0
      BY <2>1, CountEmpty
    <3> QED
      BY <3>1
  <2>3. g(0) = f
    BY <2>2
  <2> QED
    BY <1>1, <2>3
<1>5. ASSUME NEW m \in S PROVE m + 1 \in S
  <2> SUFFICES ASSUME m + 1 <= Len(s)
               PROVE  Cardinality(Inside(g(m + 1))) = Cardinality(Inside(f)) + m + 1
    BY <1>1
  <2>1. m \in 0 .. Len(s) /\ m + 1 \in 1 .. Len(s) /\ m + 1 \in 0 .. Len(s)
    BY <1>1
  <2>2. SubSeq(s, 1, m + 1) = Append(SubSeq(s, 1, m), s[m + 1])
    <3> DEFINE a == SubSeq(s, 1, m)   b == SubSeq(s, 1, m + 1)
    <3>1. a \in Seq(Cmds) /\ Len(a) = m /\ \A i \in 1 .. m : a[i] = s[i]
      BY <1>1, <2>1, SubSeqProperties
    <3>2. b \in Seq(Cmds) /\ Len(b) = m + 1 /\ \A i \in 1 .. m + 1 : b[i] = s[i]
      BY <1>1, <2>1, SubSeqProperties
    <3>3. s[m + 1] \in Cmds
      BY <2>1, ElementOfSeq
    <3> DEFINE x == s[m + 1]
    <3> HIDE DEF a, b
    <3>4. /\ Append(a, x) \in Seq(Cmds) /\ Len(Append(a, x)) = m + 1
          /\ \A i \in 1 .. m : Append(a, x)[i] = a[i]
          /\ Append(a, x)[m + 1] = x
      BY <2>1, <3>1, <3>3, AppendProperties
    <3>5. \A i \in 1 .. m + 1 : Append(a, x)[i] = b[i]
      <4>1. \A i \in 1 .. m + 1 : i \in 1 .. m \/ i = m + 1
        BY <2>1
      <4>2. \A i \in 1 .. m : Append(a, x)[i] = b[i]
        <5>1. \A i \in 1 .. m : i \in 1 .. m + 1
          BY <2>1
        <5> QED
          BY <5>1, <3>1, <3>2, <3>4
      <4>3. Append(a, x)[m + 1] = b[m + 1]
        <5>1. m + 1 \in 1 .. m + 1
          BY <2>1
        <5> QED
          BY <5>1, <3>2, <3>4
      <4> QED
        BY <4>1, <4>2, <4>3
    <3>6. Append(a, x) = b
      BY <3>2, <3>4, <3>5, SeqEqual
    <3> QED
      BY <3>6 DEF a, b
  <2>3. s[m + 1] \in Cmds
    BY <2>1, ElementOfSeq
  <2>4. \A d \in Cmds : g(m + 1)[d] = IF d = s[m + 1] THEN g(m)[d] + 1 ELSE g(m)[d]
    <3> TAKE d \in Cmds
    <3> DEFINE a == SubSeq(s, 1, m)   x == s[m + 1]
    <3>1. a \in Seq(Cmds) /\ x \in Cmds
      BY <1>2, <2>1, <2>3
    <3>2. Count(Append(a, x), d) = IF x = d THEN Count(a, d) + 1 ELSE Count(a, d)
      <4> HIDE DEF a, x
      <4> QED
        BY <3>1, CountAppend
    <3>3. Count(a, d) \in Nat
      BY <3>1, CountNat
    <3>4. g(m + 1)[d] = f[d] + Count(Append(a, x), d) /\ g(m)[d] = f[d] + Count(a, d)
      BY <2>2
    <3> HIDE DEF a, g
    <3> QED
      BY <3>2, <3>3, <3>4
  <2>5. g(m) \in [Cmds -> Nat] /\ g(m + 1) \in [Cmds -> Nat]
    BY <1>3, <2>1
  <2>6. Cardinality(Inside(g(m + 1))) = Cardinality(Inside(g(m))) + 1
    <3> DEFINE h == g(m)   k == g(m + 1)   x == s[m + 1]
    <3>1. /\ h \in [Cmds -> Nat] /\ k \in [Cmds -> Nat] /\ x \in Cmds
          /\ \A d \in Cmds : k[d] = IF d = x THEN h[d] + 1 ELSE h[d]
      BY <2>3, <2>4, <2>5
    <3>2. Cardinality(Inside(k)) = Cardinality(Inside(h)) + 1
      <4> HIDE DEF h, k, x
      <4> QED
        BY <3>1, InsideOneMore
    <3> QED
      BY <3>2
  <2> HIDE DEF g
  <2> QED
    BY <1>1, <2>1, <2>6
<1>6. S = Nat
  <2> HIDE DEF S
  <2> SUFFICES S \subseteq Nat
    BY <1>4, <1>5, InductiveSet
  <2> QED
    BY DEF S
<1>7. SubSeq(s, 1, Len(s)) = s
  BY SubSeqFull
<1>8. Cardinality(Inside(g(Len(s)))) = Cardinality(Inside(f)) + Len(s)
  <2>1. Len(s) \in S
    BY <1>1, <1>6
  <2> QED
    BY <1>1, <2>1
<1> QED
  BY <1>7, <1>8

-----------------------------------------------------------------------------
(***************************************************************************)
(* The engine.                                                             *)
(***************************************************************************)

\* The queues of cycle(n) hold the bursts they should.
LEMMA CycleQueues ==
    ASSUME TypeOK, OneMemory, NEW n \in Nat, n <= Len(pending)
    PROVE  /\ Issued(n) \in Seq(Cmds) /\ Len(Issued(n)) = n
           /\ SubSeq(pending, n + 1, Len(pending)) \in Seq(Cmds)
           /\ \A r : Count(pending, r)
                        = Count(Issued(n), r) + Count(SubSeq(pending, n + 1, Len(pending)), r)
           /\ Pipeline(n) \in Seq(Entries) /\ Len(Pipeline(n)) = Len(pending_txns) + n
           /\ \A r : Count(Reqs(Pipeline(n)), r) = Count(Reqs(pending_txns), r) + Count(Issued(n), r)
           /\ Arrivals(n) \in Seq(Cmds) /\ Scheduled(n) \in Seq(Entries)
           /\ \A r : Count(Arrivals(n), r) =
                        Count(incoming_txns, r) + IF l2 THEN 0 ELSE Count(Due(Pipeline(n)), r)
           /\ \A r : Count(Reqs(Scheduled(n)), r)
                        = Count(Reqs(scheduled_completions), r) + Count(Arrivals(n), r)
<1>1. /\ pending \in Seq(Cmds) /\ pending_txns \in Seq(Entries) /\ incoming_txns \in Seq(Cmds)
      /\ scheduled_completions \in Seq(Entries) /\ bus_free \in Int
  BY DEF TypeOK
<1>2. BaseLatency \in Int /\ Delay \in Int
  BY DMAAssumption DEF DMAAssumption
<1>3. Len(pending) \in Nat
  BY <1>1, LenProperties
<1>4. Issued(n) \in Seq(Cmds) /\ Len(Issued(n)) = n
  BY <1>1, <1>3, SubSeqProperties DEF Issued
<1> DEFINE rest == SubSeq(pending, n + 1, Len(pending))
<1>5. rest \in Seq(Cmds)
  BY <1>1, <1>3, SubSeqProperties
<1>6. pending = Issued(n) \o rest
  <2>1. SubSeq(pending, 1, n) \o SubSeq(pending, n + 1, Len(pending)) = SubSeq(pending, 1, Len(pending))
    <3>1. 1 \in 1 .. Len(pending) + 1 /\ n \in 1 - 1 .. Len(pending) /\ Len(pending) \in n .. Len(pending)
      BY <1>3
    <3> QED
      BY <1>1, <3>1, ConcatAdjacentSubSeq
  <2>2. SubSeq(pending, 1, Len(pending)) = pending
    BY <1>1, SubSeqFull
  <2> QED
    BY <2>1, <2>2 DEF Issued
<1>7. \A r : Count(pending, r) = Count(Issued(n), r) + Count(rest, r)
  <2> HIDE DEF rest
  <2> QED
    BY <1>4, <1>5, <1>6, CountConcat
<1>8. /\ Pipeline(n) \in Seq(Entries) /\ Len(Pipeline(n)) = Len(pending_txns) + n
      /\ \A r : Count(Reqs(Pipeline(n)), r) = Count(Reqs(pending_txns), r) + Count(Issued(n), r)
  <2> DEFINE s == Issued(n)
             left == [i \in 1 .. Len(s) |-> BaseLatency]
             e == [i \in 1 .. Len(s) |-> [req |-> s[i], left |-> left[i]]]
  <2>1. s \in Seq(Cmds) /\ left \in [1 .. Len(s) -> Int]
    BY <1>2, <1>4
  <2>2. Pipeline(n) = pending_txns \o e
    BY <1>4 DEF Pipeline
  <2>3. /\ pending_txns \o e \in Seq(Entries) /\ Len(pending_txns \o e) = Len(pending_txns) + Len(s)
        /\ \A r : Count(Reqs(pending_txns \o e), r) = Count(Reqs(pending_txns), r) + Count(s, r)
    <3> HIDE DEF s, left
    <3> QED
      BY <1>1, <2>1, QueueExtend, Zenon
  <2> HIDE DEF e, left
  <2> QED
    BY <1>4, <2>2, <2>3
<1>9. /\ Arrivals(n) \in Seq(Cmds)
      /\ \A r : Count(Arrivals(n), r) =
                    Count(incoming_txns, r) + IF l2 THEN 0 ELSE Count(Due(Pipeline(n)), r)
  <2> DEFINE a == IF l2 THEN <<>> ELSE Due(Pipeline(n))
  <2>1. a \in Seq(Cmds)
    BY <1>8, QueueSplit, EmptySeq
  <2>2. \A r : Count(a, r) = IF l2 THEN 0 ELSE Count(Due(Pipeline(n)), r)
    BY CountEmpty
  <2>3. Arrivals(n) = incoming_txns \o a
    BY DEF Arrivals
  <2> HIDE DEF a
  <2>4. /\ incoming_txns \o a \in Seq(Cmds)
        /\ \A r : Count(incoming_txns \o a, r) = Count(incoming_txns, r) + Count(a, r)
    BY <1>1, <2>1, CountConcat, ConcatProperties
  <2> QED
    BY <2>2, <2>3, <2>4
<1>10. /\ Scheduled(n) \in Seq(Entries)
       /\ \A r : Count(Reqs(Scheduled(n)), r)
                    = Count(Reqs(scheduled_completions), r) + Count(Arrivals(n), r)
  <2> DEFINE s == Arrivals(n)
             left == [i \in 1 .. Len(s) |-> bus_free + i * Delay]
             e == [i \in 1 .. Len(s) |-> [req |-> s[i], left |-> left[i]]]
  <2>1. s \in Seq(Cmds) /\ left \in [1 .. Len(s) -> Int]
    <3>1. s \in Seq(Cmds)
      BY <1>9
    <3>2. \A i \in 1 .. Len(s) : bus_free + i * Delay \in Int
      BY <1>1, <1>2
    <3> QED
      BY <3>1, <3>2
  <2>2. Scheduled(n) = scheduled_completions \o e
    BY DEF Scheduled
  <2>3. /\ scheduled_completions \o e \in Seq(Entries)
        /\ \A r : Count(Reqs(scheduled_completions \o e), r)
                    = Count(Reqs(scheduled_completions), r) + Count(s, r)
    <3> HIDE DEF s, left
    <3> QED
      BY <1>1, <2>1, QueueExtend, Zenon
  <2> HIDE DEF e, left
  <2> QED
    BY <2>2, <2>3
<1> QED
  BY <1>4, <1>5, <1>7, <1>8, <1>9, <1>10

\* The bursts of c inside the memory, and between it and the scratchpad.
InMemory(c) == in_memory[c] + Count(Reqs(pending_txns), c)
OnBus(c) == Count(incoming_txns, c) + Count(Reqs(scheduled_completions), c)

\* The bursts of c before and after cycle(n), place by place.
LEMMA CycleCounts ==
    ASSUME TypeOK, OneMemory, PendingLive, BurstsConserved,
           NEW n \in 0 .. MaxInFlight, cycle(n), NEW c \in Cmds
    PROVE  /\ Count(Transferred(n), c) \in Nat /\ Count(Issued(n), c) \in Nat
           /\ Count(pending, c) \in Nat /\ Count(pending', c) \in Nat
           /\ InMemory(c) \in Nat /\ InMemory(c)' \in Nat
           /\ OnBus(c) \in Nat /\ OnBus(c)' \in Nat
           /\ Count(pending, c) = Count(Issued(n), c) + Count(pending', c)
           /\ InMemory(c) + OnBus(c) + Count(Issued(n), c)
                = InMemory(c)' + OnBus(c)' + Count(Transferred(n), c)
           /\ issued_txns'[c] = issued_txns[c] + Count(Issued(n), c)
           /\ done_txns'[c] = done_txns[c] + Count(Transferred(n), c)
           /\ Count(Issued(n), c) > 0 => c \in inflight
           /\ Count(Transferred(n), c) > 0 => c \in inflight
<1>1. n \in Nat /\ n <= Len(pending)
  BY DEF cycle, CanIssue
<1> DEFINE rest == SubSeq(pending, n + 1, Len(pending))
           I == Count(Issued(n), c)
           D == Count(Due(Pipeline(n)), c)
           X == Count(Transferred(n), c)
           m == in_memory[c]
           T == Count(Reqs(pending_txns), c)
           N == Count(incoming_txns, c)
           S == Count(Reqs(scheduled_completions), c)
           Pn == Count(rest, c)
           Tn == Count(Reqs(NotDue(Pipeline(n))), c)
           Sn == Count(Reqs(NotDue(Scheduled(n))), c)
<1>2. /\ Issued(n) \in Seq(Cmds) /\ rest \in Seq(Cmds) /\ Pipeline(n) \in Seq(Entries)
      /\ Arrivals(n) \in Seq(Cmds) /\ Scheduled(n) \in Seq(Entries)
  BY <1>1, CycleQueues
<1>3. /\ pending \in Seq(Cmds) /\ pending_txns \in Seq(Entries) /\ incoming_txns \in Seq(Cmds)
      /\ scheduled_completions \in Seq(Entries) /\ m \in Nat
  BY DEF TypeOK
<1>4. /\ I \in Nat /\ Pn \in Nat /\ N \in Nat /\ Count(pending, c) \in Nat
      /\ Count(Arrivals(n), c) \in Nat
  BY <1>2, <1>3, CountNat
<1>5. D \in Nat /\ X \in Nat /\ T \in Nat /\ S \in Nat /\ Tn \in Nat /\ Sn \in Nat
  <2>1. /\ Due(Pipeline(n)) \in Seq(Cmds) /\ Due(Scheduled(n)) \in Seq(Cmds)
        /\ Reqs(pending_txns) \in Seq(Cmds) /\ Reqs(scheduled_completions) \in Seq(Cmds)
        /\ Reqs(NotDue(Pipeline(n))) \in Seq(Cmds) /\ Reqs(NotDue(Scheduled(n))) \in Seq(Cmds)
    BY <1>2, <1>3, QueueSplit
  <2> QED
    BY <2>1, CountNat DEF Transferred
<1>6. Count(pending, c) = I + Pn
  BY <1>1, CycleQueues
<1>7. T + I = D + Tn
  <2>1. Count(Reqs(Pipeline(n)), c) = T + I
    BY <1>1, CycleQueues
  <2>2. Count(Reqs(Pipeline(n)), c) = D + Tn
    BY <1>2, QueueSplit
  <2> QED
    BY <2>1, <2>2
<1>8. S + N + (IF l2 THEN 0 ELSE D) = X + Sn
  <2>1. Count(Reqs(Scheduled(n)), c) = S + Count(Arrivals(n), c)
    BY <1>1, CycleQueues
  <2>2. Count(Reqs(Scheduled(n)), c) = X + Sn
    BY <1>2, QueueSplit DEF Transferred
  <2>3. Count(Arrivals(n), c) = N + IF l2 THEN 0 ELSE D
    BY <1>1, CycleQueues
  <2> QED
    BY <1>4, <1>5, <2>1, <2>2, <2>3
<1>9. /\ pending' = rest /\ incoming_txns' = <<>>
      /\ scheduled_completions' = NotDue(Scheduled(n))
      /\ issued_txns' = IssuedAfter(n) /\ done_txns' = DoneAfter(n)
  BY DEF cycle
<1>10. Count(pending', c) = Pn /\ Count(incoming_txns', c) = 0
       /\ Count(Reqs(scheduled_completions'), c) = Sn
  BY <1>9, CountEmpty
<1>11. /\ l2 => in_memory'[c] = m + I /\ Count(Reqs(pending_txns'), c) = T
       /\ ~l2 => in_memory'[c] = m /\ Count(Reqs(pending_txns'), c) = Tn
  BY DEF cycle
<1>12. /\ issued_txns'[c] = IF c \in inflight THEN issued_txns[c] + I ELSE issued_txns[c]
       /\ done_txns'[c] = IF c \in inflight THEN done_txns[c] + X ELSE done_txns[c]
  BY <1>9 DEF IssuedAfter, DoneAfter
<1>13. I > 0 => c \in inflight
  BY <1>4, <1>6 DEF PendingLive
<1>14. m + T + N + S > 0 => c \in inflight
  <2>1. m + T + (N + S) > 0 => c \in inflight
    BY DEF BurstsConserved
  <2>2. m \in Nat /\ T \in Nat /\ N \in Nat /\ S \in Nat
    BY <1>3, <1>4, <1>5
  <2> HIDE DEF m, T, N, S
  <2> QED
    BY <2>1, <2>2
<1>15. issued_txns[c] \in Nat /\ done_txns[c] \in Nat /\ l2 \in BOOLEAN
  BY DEF TypeOK
<1>16. Count(Reqs(pending_txns'), c) = IF l2 THEN T ELSE Tn
  BY <1>11, <1>15
<1>17. in_memory'[c] = IF l2 THEN m + I ELSE m
  BY <1>11, <1>15
<1> HIDE DEF rest, I, D, X, m, T, N, S, Pn, Tn, Sn
<1>18. m + T + N + S + I = in_memory'[c] + Count(Reqs(pending_txns'), c) + 0 + Sn + X
  BY <1>3, <1>4, <1>5, <1>7, <1>8, <1>16, <1>17
<1>19. X > 0 => c \in inflight
  BY <1>3, <1>4, <1>5, <1>7, <1>8, <1>13, <1>14
<1>20. in_memory'[c] \in Nat /\ Count(Reqs(pending_txns'), c) \in Nat
  BY <1>3, <1>4, <1>5, <1>16, <1>17
<1>21. issued_txns'[c] = issued_txns[c] + I /\ done_txns'[c] = done_txns[c] + X
  BY <1>4, <1>5, <1>12, <1>13, <1>15, <1>19
<1>22. InMemory(c) = m + T /\ OnBus(c) = N + S
  BY DEF InMemory, OnBus, m, T, N, S
<1>23. InMemory(c)' = in_memory'[c] + Count(Reqs(pending_txns'), c)
  BY DEF InMemory
<1>24. OnBus(c)' = 0 + Sn
  BY <1>10 DEF OnBus
<1>25. Count(Transferred(n), c) = X /\ Count(Issued(n), c) = I
  BY DEF I, X
<1>26. InMemory(c) \in Nat /\ OnBus(c) \in Nat /\ InMemory(c)' \in Nat /\ OnBus(c)' \in Nat
  BY <1>3, <1>4, <1>5, <1>20, <1>22, <1>23, <1>24
<1>27. InMemory(c) + OnBus(c) + I = InMemory(c)' + OnBus(c)' + X
  BY <1>3, <1>4, <1>5, <1>18, <1>20, <1>22, <1>23, <1>24
<1> QED
  BY <1>4, <1>5, <1>6, <1>10, <1>13, <1>19, <1>21, <1>25, <1>26, <1>27

\* BurstsConserved in these terms.
LEMMA Conserved ==
    BurstsConserved <=>
        \A c \in Cmds :
            /\ issued_txns[c] + Count(pending, c) = total_txns[c]
            /\ InMemory(c) + OnBus(c) + done_txns[c] = issued_txns[c]
            /\ InMemory(c) + OnBus(c) > 0 => c \in inflight
  BY DEF BurstsConserved, InMemory, OnBus

\* Who leaves and who is told of in cycle(n).
LEMMA CycleRequests ==
    ASSUME DInv, NEW n \in 0 .. MaxInFlight, cycle(n), NEW c \in Cmds
    PROVE  /\ c \in Zeroes => c \in inflight /\ total_txns[c] = 0
           /\ c \in Erased(n) <=> /\ c \in inflight /\ Count(Transferred(n), c) > 0
                                  /\ done_txns'[c] = total_txns[c]
           /\ c \in CompletedEarly(n) <=>
                    /\ c \in inflight /\ c \notin reads /\ c \notin early
                    /\ Count(Issued(n), c) > 0 /\ issued_txns'[c] = total_txns[c]
           /\ Count(Issued(n), c) > 0 \/ Count(Transferred(n), c) > 0 => total_txns[c] > 0
           /\ issued_txns'[c] <= total_txns[c] /\ done_txns'[c] <= issued_txns'[c]
           /\ c \in early => Count(Issued(n), c) = 0
<1>1. /\ total_txns[c] \in Nat /\ issued_txns[c] \in Nat /\ done_txns[c] \in Nat
      /\ inflight \subseteq Cmds
  BY DEF DInv, TypeOK
<1>2. /\ issued_txns[c] + Count(pending, c) = total_txns[c]
      /\ InMemory(c) + OnBus(c) + done_txns[c] = issued_txns[c]
  BY Conserved DEF DInv
<1>3. /\ Count(Transferred(n), c) \in Nat /\ Count(Issued(n), c) \in Nat
      /\ Count(pending, c) \in Nat /\ Count(pending', c) \in Nat
      /\ InMemory(c) \in Nat /\ InMemory(c)' \in Nat
      /\ OnBus(c) \in Nat /\ OnBus(c)' \in Nat
      /\ Count(pending, c) = Count(Issued(n), c) + Count(pending', c)
      /\ InMemory(c) + OnBus(c) + Count(Issued(n), c)
            = InMemory(c)' + OnBus(c)' + Count(Transferred(n), c)
      /\ issued_txns'[c] = issued_txns[c] + Count(Issued(n), c)
      /\ done_txns'[c] = done_txns[c] + Count(Transferred(n), c)
  BY CycleCounts DEF DInv
<1>4. /\ issued_txns'[c] <= total_txns[c] /\ done_txns'[c] <= issued_txns'[c]
      /\ Count(Issued(n), c) > 0 \/ Count(Transferred(n), c) > 0 => total_txns[c] > 0
  BY <1>1, <1>2, <1>3
<1>5. issued_txns' = IssuedAfter(n) /\ done_txns' = DoneAfter(n)
  BY DEF cycle
<1>6. c \in Erased(n) <=> /\ c \in inflight /\ Count(Transferred(n), c) > 0
                          /\ done_txns'[c] >= total_txns[c]
  BY <1>5 DEF Erased
<1>7. c \in CompletedEarly(n) <=>
            /\ c \in inflight /\ c \notin reads /\ c \notin early
            /\ Count(Issued(n), c) > 0 /\ issued_txns'[c] >= total_txns[c]
  BY <1>5 DEF CompletedEarly
<1>8. ASSUME c \in Zeroes PROVE c \in inflight /\ total_txns[c] = 0
  <2>1. c \in inflight /\ \E i \in 1 .. Len(ZeroDone) : ZeroDone[i] = c
    BY <1>8 DEF Zeroes
  <2>2. l2
    BY <2>1 DEF ZeroDone
  <2>3. PICK i \in 1 .. Len(Due(pending_zero_done)) : Due(pending_zero_done)[i] = c
    BY <2>1, <2>2 DEF ZeroDone
  <2>4. pending_zero_done \in Seq(Entries)
    BY DEF DInv, TypeOK
  <2>5. i \in 1 .. Len(pending_zero_done) /\ pending_zero_done[i].req = c
    BY <2>3, <2>4, QueueSplit, LenProperties
  <2> QED
    BY <2>1, <2>5 DEF DInv, ZeroQueue
<1>9. c \in early => Count(Issued(n), c) = 0
  <2>1. c \in early => issued_txns[c] = total_txns[c]
    BY DEF DInv, ToldExact
  <2> QED
    BY <1>1, <1>2, <1>3, <2>1
<1>10. issued_txns'[c] \in Nat /\ done_txns'[c] \in Nat
  BY <1>1, <1>3
<1> QED
  BY <1>1, <1>4, <1>6, <1>7, <1>8, <1>9, <1>10

\* cycle(n) keeps the books of each request.
LEMMA CycleTold ==
    ASSUME DInv, NEW n \in 0 .. MaxInFlight, cycle(n), NEW c \in Cmds
    PROVE  /\ c \in inflight' /\ total_txns'[c] > 0 => done_txns'[c] < total_txns'[c]
           /\ c \notin inflight' => done_txns'[c] = total_txns'[c]
           /\ c \in inflight' \ early' => Told(c)' = 0
           /\ c \in early' => /\ Told(c)' = 1 /\ issued_txns'[c] = total_txns'[c]
                              /\ total_txns'[c] > 0
           /\ c \notin inflight' => Told(c)' <= 1 /\ (Told(c)' = 0 => total_txns'[c] = 0)
           /\ c \in inflight /\ c \notin inflight' => Told(c)' = 1
           /\ c \notin inflight => c \notin inflight' /\ Told(c)' = Told(c)
           /\ completed_cmds'[c] \in Nat
<1> DEFINE X == Count(Transferred(n), c)
           I == Count(Issued(n), c)
           z == c \in Zeroes
           e == c \in Erased(n)
           w == c \in CompletedEarly(n)
           b == c \in FinishedByBus(n)
<1>1. /\ total_txns[c] \in Nat /\ issued_txns[c] \in Nat /\ done_txns[c] \in Nat
      /\ early \subseteq inflight /\ early \cap reads = {} /\ reported[c] \in Nat
  BY DEF DInv, TypeOK
<1>2. /\ total_txns' = total_txns /\ reported' = reported
      /\ c \in inflight' <=> c \in inflight /\ ~z /\ ~e
      /\ c \in early' <=> (c \in early \/ w) /\ ~z /\ ~e
      /\ completed_cmds'[c] = completed_cmds[c] + One(w) + One(z) + One(b)
  BY DEF cycle
<1>3. completed_cmds[c] = 0
  BY DEF DInv, ToldExact, cycle
<1>4. b <=> e /\ (c \in reads \/ (c \notin early /\ ~w))
  BY DEF FinishedByBus
<1>5. /\ z => c \in inflight /\ total_txns[c] = 0
      /\ e <=> c \in inflight /\ X > 0 /\ done_txns'[c] = total_txns[c]
      /\ w <=> /\ c \in inflight /\ c \notin reads /\ c \notin early
               /\ I > 0 /\ issued_txns'[c] = total_txns[c]
      /\ I > 0 \/ X > 0 => total_txns[c] > 0
      /\ issued_txns'[c] <= total_txns[c] /\ done_txns'[c] <= issued_txns'[c]
      /\ c \in early => I = 0
  BY CycleRequests
<1>6. /\ X \in Nat /\ I \in Nat
      /\ issued_txns'[c] = issued_txns[c] + I /\ done_txns'[c] = done_txns[c] + X
      /\ X > 0 => c \in inflight
  BY CycleCounts DEF DInv
<1>7. Told(c) = reported[c]
  BY <1>1, <1>3 DEF Told
<1>8. /\ c \in inflight \ early => reported[c] = 0
      /\ c \in early => reported[c] = 1 /\ issued_txns[c] = total_txns[c] /\ total_txns[c] > 0
      /\ c \notin inflight => reported[c] <= 1 /\ (reported[c] = 0 => total_txns[c] = 0)
  BY <1>7 DEF DInv, ToldExact
<1>9. /\ c \in inflight /\ total_txns[c] > 0 => done_txns[c] < total_txns[c]
      /\ c \notin inflight => done_txns[c] = total_txns[c]
  BY DEF DInv, LeavesWhenDone
<1>10. completed_cmds'[c] = One(w) + One(z) + One(b)
  BY <1>2, <1>3 DEF One
<1>11. Told(c)' = reported[c] + One(w) + One(z) + One(b)
  <2>1. Told(c)' = reported'[c] + completed_cmds'[c]
    BY DEF Told
  <2> QED
    BY <1>1, <1>2, <1>10, <2>1 DEF One
<1> HIDE DEF X, I, z, e, w, b
<1>12. /\ z => ~e /\ ~w /\ c \notin early
       /\ One(w) = (IF w THEN 1 ELSE 0) /\ One(z) = (IF z THEN 1 ELSE 0)
       /\ One(b) = (IF b THEN 1 ELSE 0)
  BY <1>5, <1>8 DEF One
<1>13. completed_cmds'[c] \in Nat
  BY <1>10, <1>12
<1>14. CASE c \notin inflight
  <2>1. ~z /\ ~e /\ ~w /\ ~b /\ c \notin early /\ X = 0
    BY <1>1, <1>4, <1>5, <1>6, <1>14
  <2>2. Told(c)' = reported[c]
    BY <1>1, <1>11, <1>12, <2>1
  <2> QED
    BY <1>1, <1>2, <1>6, <1>7, <1>8, <1>9, <1>13, <1>14, <2>1, <2>2
<1>15. CASE z
  <2>1. ~e /\ ~w /\ ~b /\ c \in inflight /\ c \notin early /\ total_txns[c] = 0
    BY <1>4, <1>5, <1>12, <1>15
  <2>2. Told(c)' = 1
    BY <1>8, <1>11, <1>12, <1>15, <2>1
  <2>3. done_txns'[c] = 0
    BY <1>1, <1>5, <1>6, <2>1
  <2>4. c \notin inflight' /\ c \notin early' /\ total_txns'[c] = 0
    BY <1>2, <1>15, <2>1
  <2> QED
    BY <1>13, <2>1, <2>2, <2>3, <2>4
<1>16. CASE e /\ ~z
  <2>1. c \in inflight /\ done_txns'[c] = total_txns[c]
    BY <1>5, <1>16
  <2>2. Told(c)' = 1
    <3>1. CASE c \in early
      <4>1. ~w /\ ~b
        BY <1>1, <1>4, <1>5, <3>1
      <4> QED
        BY <1>8, <1>11, <1>12, <1>16, <3>1, <4>1
    <3>2. CASE c \notin early
      <4>1. (w /\ ~b) \/ (~w /\ b)
        BY <1>4, <1>5, <1>16, <3>2
      <4> QED
        BY <1>8, <1>11, <1>12, <1>16, <2>1, <3>2, <4>1
    <3> QED
      BY <3>1, <3>2
  <2> QED
    BY <1>2, <1>13, <1>16, <2>1, <2>2
<1>17. CASE c \in inflight /\ ~z /\ ~e
  <2>1. ~b /\ c \in inflight'
    BY <1>2, <1>4, <1>17
  <2>2. total_txns[c] > 0 => done_txns'[c] < total_txns[c]
    BY <1>1, <1>5, <1>6, <1>9, <1>17
  <2>3. CASE c \in early
    <3>1. ~w /\ c \in early' /\ Told(c)' = 1
      BY <1>2, <1>5, <1>8, <1>11, <1>12, <1>17, <2>1, <2>3
    <3>2. issued_txns'[c] = total_txns[c] /\ total_txns[c] > 0
      BY <1>1, <1>5, <1>6, <1>8, <2>3
    <3> QED
      BY <1>2, <1>13, <1>17, <2>1, <2>2, <3>1, <3>2
  <2>4. CASE c \notin early
    <3>1. reported[c] = 0 /\ Told(c)' = (IF w THEN 1 ELSE 0) /\ (c \in early' <=> w)
      BY <1>2, <1>8, <1>11, <1>12, <1>17, <2>1, <2>4
    <3>2. w => issued_txns'[c] = total_txns[c] /\ total_txns[c] > 0
      BY <1>5
    <3> QED
      BY <1>2, <1>13, <1>17, <2>1, <2>2, <3>1, <3>2
  <2> QED
    BY <2>3, <2>4
<1> QED
  BY <1>5, <1>14, <1>15, <1>16, <1>17

\* Initially.
LEMMA InitDInv == Init => DInv
<1> SUFFICES ASSUME Init PROVE DInv
  OBVIOUS
<1>1. Sizes \subseteq Nat /\ L2Modes \subseteq BOOLEAN /\ MaxInFlight \in Nat
  BY DMAAssumption DEF DMAAssumption
<1>2. TypeOK
  BY <1>1 DEF Init, TypeOK
<1>3. Reqs(<<>>) = <<>>
  BY DEF Reqs
<1>4. \A c \in Cmds : Count(pending, c) = 0 /\ InMemory(c) = 0 /\ OnBus(c) = 0
  BY <1>3, CountEmpty DEF Init, InMemory, OnBus
<1>5. BurstsConserved
  BY <1>4, Conserved DEF Init
<1>6. WindowExact
  <2>1. UNION {{c} \X (1 .. in_memory[c]) : c \in Cmds} = {}
    BY DEF Init
  <2>2. Cardinality(UNION {{c} \X (1 .. in_memory[c]) : c \in Cmds}) = 0
    BY <2>1, FS_EmptySet
  <2>3. current_in_flight_mem_reqs = 0 /\ Len(pending_txns) = 0
    BY DEF Init
  <2> QED
    BY <1>1, <2>2, <2>3 DEF WindowExact
<1> QED
  BY <1>2, <1>4, <1>5, <1>6
     DEF Init, DInv, OneMemory, PendingLive, LeavesWhenDone, ToldExact, ZeroQueue, Told

\* take_completed moves the reports over.
LEMMA TakeDInv == ASSUME DInv, take_completed PROVE DInv'
<1>1. /\ reported \in [Cmds -> Nat] /\ completed_cmds \in [Cmds -> Nat]
      /\ reported' = [c \in Cmds |-> reported[c] + completed_cmds[c]]
      /\ completed_cmds' = [c \in Cmds |-> 0]
      /\ l2' = l2 /\ pc' = "idle"
      /\ UNCHANGED <<reqVars, memVars, pending_zero_done, busVars>>
  BY DEF DInv, TypeOK, take_completed
<1>2. \A c \in Cmds : Told(c)' = Told(c)
  BY <1>1 DEF Told
<1>3. TypeOK'
  BY <1>1 DEF DInv, TypeOK, reqVars, memVars, busVars
<1>4. OneMemory' /\ PendingLive' /\ LeavesWhenDone' /\ BurstsConserved' /\ WindowExact'
  BY <1>1 DEF DInv, OneMemory, PendingLive, LeavesWhenDone, BurstsConserved, WindowExact,
              reqVars, memVars, busVars
<1>5. ToldExact'
  <2>1. \A c \in Cmds : completed_cmds'[c] = 0
    BY <1>1
  <2> QED
    BY <1>1, <1>2, <2>1 DEF DInv, ToldExact, reqVars
<1>6. ZeroQueue'
  BY <1>1, <1>2 DEF DInv, ZeroQueue, reqVars
<1> QED
  BY <1>3, <1>4, <1>5, <1>6 DEF DInv

\* recvResponse moves one burst from the L2 cache to the bus.
LEMMA RecvResponseDInv == ASSUME DInv, NEW c \in Cmds, recvResponse(c) PROVE DInv'
<1>1. /\ in_memory \in [Cmds -> Nat] /\ in_memory[c] > 0 /\ current_in_flight_mem_reqs \in Int
      /\ incoming_txns \in Seq(Cmds)
      /\ in_memory' = [in_memory EXCEPT ![c] = @ - 1]
      /\ current_in_flight_mem_reqs' = current_in_flight_mem_reqs - 1
      /\ incoming_txns' = Append(incoming_txns, c)
      /\ UNCHANGED <<l2, pc, inflight, reads, early, total_txns, issued_txns, done_txns>>
      /\ UNCHANGED <<pending, pending_txns, pending_zero_done, scheduled_completions>>
      /\ UNCHANGED <<bus_free, completed_cmds, reported>>
  BY DEF DInv, TypeOK, recvResponse, reqVars
<1>2. /\ in_memory' \in [Cmds -> Nat] /\ incoming_txns' \in Seq(Cmds)
      /\ current_in_flight_mem_reqs' \in Int
  BY <1>1, AppendProperties
<1>3. TypeOK'
  BY <1>1, <1>2 DEF DInv, TypeOK
<1>4. \A d \in Cmds : Told(d)' = Told(d)
  BY <1>1 DEF Told
<1>5. PendingLive' /\ LeavesWhenDone' /\ ToldExact'
  BY <1>1, <1>4 DEF DInv, PendingLive, LeavesWhenDone, ToldExact
<1>6. ZeroQueue'
  BY <1>1, <1>4 DEF DInv, ZeroQueue
<1>7. OneMemory'
  <2>1. l2 \in BOOLEAN /\ (~l2 => in_memory[c] = 0)
    BY DEF DInv, TypeOK, OneMemory
  <2> QED
    BY <1>1, <2>1 DEF DInv, OneMemory
<1>8. BurstsConserved'
  <2> SUFFICES ASSUME NEW d \in Cmds
               PROVE  /\ issued_txns'[d] + Count(pending', d) = total_txns'[d]
                      /\ InMemory(d)' + OnBus(d)' + done_txns'[d] = issued_txns'[d]
                      /\ InMemory(d)' + OnBus(d)' > 0 => d \in inflight'
    BY DEF BurstsConserved, InMemory, OnBus
  <2>1. Count(incoming_txns', d) = IF c = d THEN Count(incoming_txns, d) + 1 ELSE Count(incoming_txns, d)
    BY <1>1, CountAppend
  <2>2. Count(incoming_txns, d) \in Nat /\ Count(Reqs(pending_txns), d) \in Nat
        /\ Count(Reqs(scheduled_completions), d) \in Nat /\ in_memory[d] \in Nat
    <3>1. Reqs(pending_txns) \in Seq(Cmds) /\ Reqs(scheduled_completions) \in Seq(Cmds)
      BY ReqsSeq DEF DInv, TypeOK
    <3> QED
      BY <1>1, <3>1, CountNat
  <2>3. in_memory'[d] = IF c = d THEN in_memory[d] - 1 ELSE in_memory[d]
    BY <1>1
  <2>4. InMemory(d)' = in_memory'[d] + Count(Reqs(pending_txns), d)
    BY <1>1 DEF InMemory
  <2>5. OnBus(d)' = Count(incoming_txns', d) + Count(Reqs(scheduled_completions), d)
    BY <1>1 DEF OnBus
  <2>6. InMemory(d)' + OnBus(d)' = InMemory(d) + OnBus(d)
    BY <2>1, <2>2, <2>3, <2>4, <2>5 DEF InMemory, OnBus
  <2> QED
    BY <1>1, <2>6, Conserved DEF DInv
<1>9. WindowExact'
  <2>1. \A d \in Cmds : in_memory[d] = IF d = c THEN in_memory'[d] + 1 ELSE in_memory'[d]
    BY <1>1
  <2>2. Cardinality(Inside(in_memory)) = Cardinality(Inside(in_memory')) + 1
    BY <1>1, <1>2, <2>1, InsideOneMore
  <2>3. Cardinality(Inside(in_memory')) \in Nat /\ Len(pending_txns) \in Nat
    BY <1>2, InsideFinite, LenProperties DEF DInv, TypeOK
  <2>4. current_in_flight_mem_reqs = Len(pending_txns) + Cardinality(Inside(in_memory))
        /\ current_in_flight_mem_reqs <= MaxInFlight
    BY DEF DInv, WindowExact, Inside
  <2>5. current_in_flight_mem_reqs' = Len(pending_txns') + Cardinality(Inside(in_memory'))
        /\ current_in_flight_mem_reqs' <= MaxInFlight
    BY <1>1, <2>2, <2>3, <2>4, DMAAssumption DEF DMAAssumption
  <2> QED
    BY <2>5 DEF WindowExact, Inside
<1> QED
  BY <1>3, <1>5, <1>6, <1>7, <1>8, <1>9 DEF DInv

\* submit brings in a request nobody has heard of.
LEMMA SubmitDInv ==
    ASSUME DInv, NEW c \in Cmds, NEW n \in Sizes, NEW is_read \in BOOLEAN, submit(c, n, is_read)
    PROVE  DInv'
<1>1. n \in Nat
  BY DMAAssumption DEF DMAAssumption
<1>2. /\ pc = "idle" /\ c \notin inflight /\ reported[c] = 0
      /\ inflight' = inflight \cup {c}
      /\ reads' = (IF is_read THEN reads \cup {c} ELSE reads)
      /\ total_txns' = [total_txns EXCEPT ![c] = n]
      /\ UNCHANGED <<l2, pc, early, issued_txns, done_txns, in_memory, pending_txns>>
      /\ UNCHANGED <<current_in_flight_mem_reqs, completed_cmds, reported>>
      /\ UNCHANGED <<incoming_txns, scheduled_completions, bus_free>>
  BY DEF submit, busVars
<1>3. /\ n = 0 => /\ pending_zero_done' = Append(pending_zero_done, [req |-> c, left |-> 1])
                  /\ pending' = pending
      /\ n # 0 => /\ pending' = pending \o [i \in 1 .. n |-> c]
                  /\ pending_zero_done' = pending_zero_done
  BY DEF submit
<1>4. /\ pending \in Seq(Cmds) /\ pending_zero_done \in Seq(Entries)
      /\ early \subseteq inflight \ reads /\ reads \subseteq inflight /\ inflight \subseteq Cmds
      /\ \A d \in Cmds : total_txns[d] \in Nat /\ issued_txns[d] \in Nat /\ done_txns[d] \in Nat
      /\ total_txns \in [Cmds -> Nat]
  BY DEF DInv, TypeOK
<1>5. Told(c) = 0 /\ total_txns[c] = 0
  <2>1. completed_cmds[c] = 0
    BY <1>2 DEF DInv, ToldExact
  <2>2. Told(c) = 0
    BY <1>2, <2>1 DEF Told
  <2> QED
    BY <1>2, <2>2 DEF DInv, ToldExact
<1>6. \A d \in Cmds : Told(d)' = Told(d)
  BY <1>2 DEF Told
<1>7. /\ pending' \in Seq(Cmds) /\ pending_zero_done' \in Seq(Entries)
      /\ \A d \in Cmds : Count(pending', d) = IF d = c THEN Count(pending, d) + n ELSE Count(pending, d)
  <2>1. \A d \in Cmds : Count(pending, d) \in Nat
    BY <1>4, CountNat
  <2>2. CASE n = 0
    <3>1. [req |-> c, left |-> 1] \in Entries
      BY DEF Entries
    <3>2. pending_zero_done' \in Seq(Entries)
      <4> DEFINE x == [req |-> c, left |-> 1]
      <4>1. pending_zero_done' = Append(pending_zero_done, x) /\ x \in Entries
        BY <1>3, <2>2, <3>1
      <4> HIDE DEF x
      <4> QED
        BY <1>4, <4>1, AppendProperties
    <3> QED
      BY <1>3, <1>4, <2>1, <2>2, <3>2
  <2>3. CASE n # 0
    <3> DEFINE t == [i \in 1 .. n |-> c]
    <3>1. t \in Seq({c}) /\ \A d \in Cmds : Count(t, d) = IF c = d THEN n ELSE 0
      <4>1. t \in Seq({c}) /\ Len(t) = n
        BY <1>1, IsASeq
      <4> HIDE DEF t
      <4> QED
        BY <4>1, CountConstant
    <3>2. t \in Seq(Cmds)
      BY <3>1, SeqMonotonic
    <3> HIDE DEF t
    <3>3. pending \o t \in Seq(Cmds) /\ \A d \in Cmds : Count(pending \o t, d) = Count(pending, d) + Count(t, d)
      BY <1>4, <3>2, ConcatProperties, CountConcat
    <3>4. pending' = pending \o t /\ pending_zero_done' = pending_zero_done
      BY <1>3, <2>3 DEF t
    <3> QED
      BY <1>1, <1>4, <2>1, <3>1, <3>3, <3>4
  <2> QED
    BY <2>2, <2>3
<1>8. total_txns' \in [Cmds -> Nat]
      /\ \A d \in Cmds : total_txns'[d] = IF d = c THEN n ELSE total_txns[d]
  BY <1>1, <1>2, <1>4
<1>9. TypeOK'
  <2>1. inflight' \subseteq Cmds /\ reads' \subseteq inflight' /\ early' \subseteq inflight' \ reads'
    BY <1>2, <1>4
  <2> QED
    BY <1>2, <1>7, <1>8, <2>1 DEF DInv, TypeOK
<1>10. \A d \in Cmds : /\ InMemory(d)' = InMemory(d) /\ OnBus(d)' = OnBus(d)
                       /\ InMemory(d) \in Nat /\ OnBus(d) \in Nat /\ Count(pending, d) \in Nat
  <2>1. \A d \in Cmds : InMemory(d)' = InMemory(d) /\ OnBus(d)' = OnBus(d)
    BY <1>2 DEF InMemory, OnBus
  <2>2. /\ Reqs(pending_txns) \in Seq(Cmds) /\ Reqs(scheduled_completions) \in Seq(Cmds)
        /\ incoming_txns \in Seq(Cmds) /\ \A d \in Cmds : in_memory[d] \in Nat
    BY ReqsSeq DEF DInv, TypeOK
  <2>3. ASSUME NEW d \in Cmds
        PROVE  InMemory(d) \in Nat /\ OnBus(d) \in Nat /\ Count(pending, d) \in Nat
    <3>1. /\ Count(Reqs(pending_txns), d) \in Nat /\ Count(incoming_txns, d) \in Nat
          /\ Count(Reqs(scheduled_completions), d) \in Nat /\ Count(pending, d) \in Nat
      BY <1>4, <2>2, CountNat
    <3> QED
      BY <2>2, <3>1 DEF InMemory, OnBus
  <2> QED
    BY <2>1, <2>3
<1>11. /\ issued_txns[c] = 0 /\ done_txns[c] = 0 /\ Count(pending, c) = 0
       /\ InMemory(c) = 0 /\ OnBus(c) = 0
  BY <1>4, <1>5, <1>10, Conserved DEF DInv
<1>12. BurstsConserved'
  <2> SUFFICES ASSUME NEW d \in Cmds
               PROVE  /\ issued_txns'[d] + Count(pending', d) = total_txns'[d]
                      /\ InMemory(d)' + OnBus(d)' + done_txns'[d] = issued_txns'[d]
                      /\ InMemory(d)' + OnBus(d)' > 0 => d \in inflight'
    BY DEF BurstsConserved, InMemory, OnBus
  <2>1. issued_txns'[d] + Count(pending', d) = total_txns'[d]
    <3>1. issued_txns[d] + Count(pending, d) = total_txns[d]
      BY Conserved DEF DInv
    <3> QED
      BY <1>1, <1>2, <1>7, <1>8, <1>11, <3>1
  <2>2. /\ InMemory(d) + OnBus(d) + done_txns[d] = issued_txns[d]
        /\ InMemory(d) + OnBus(d) > 0 => d \in inflight
    BY Conserved DEF DInv
  <2>3. InMemory(d)' + OnBus(d)' = InMemory(d) + OnBus(d)
    BY <1>10
  <2> QED
    BY <1>2, <2>1, <2>2, <2>3
<1>13. WindowExact' /\ OneMemory'
  BY <1>2 DEF DInv, WindowExact, OneMemory
<1>14. PendingLive'
  BY <1>2, <1>7 DEF DInv, PendingLive
<1>15. LeavesWhenDone'
  BY <1>2, <1>4, <1>8, <1>11 DEF DInv, LeavesWhenDone
<1>16. ToldExact'
  BY <1>2, <1>4, <1>5, <1>6, <1>8 DEF DInv, ToldExact
<1>17. ZeroQueue'
  <2> SUFFICES ASSUME NEW d \in Cmds,
                      \E i \in 1 .. Len(pending_zero_done') : pending_zero_done'[i].req = d
               PROVE  total_txns'[d] = 0 /\ (d \in inflight' \/ Told(d)' = 1)
    BY DEF ZeroQueue
  <2>1. CASE \E i \in 1 .. Len(pending_zero_done) : pending_zero_done[i].req = d
    <3>1. total_txns[d] = 0 /\ (d \in inflight \/ Told(d) = 1)
      BY <2>1 DEF DInv, ZeroQueue
    <3>2. d # c
      BY <1>2, <1>5, <3>1
    <3> QED
      BY <1>2, <1>6, <1>8, <3>1, <3>2
  <2>2. CASE n = 0 /\ d = c
    BY <1>2, <1>8, <2>2
  <2>3. (\E i \in 1 .. Len(pending_zero_done) : pending_zero_done[i].req = d) \/ (n = 0 /\ d = c)
    <3>1. CASE n # 0
      BY <1>3, <3>1
    <3>2. CASE n = 0
      <4>1. Len(pending_zero_done) \in Nat
        BY <1>4, LenProperties
      <4>2. PICK i \in 1 .. Len(pending_zero_done') : pending_zero_done'[i].req = d
        OBVIOUS
      <4>3. pending_zero_done'[i] = IF i <= Len(pending_zero_done) THEN pending_zero_done[i]
                                    ELSE [req |-> c, left |-> 1]
        <5> DEFINE x == [req |-> c, left |-> 1]
        <5>1. pending_zero_done' = Append(pending_zero_done, x) /\ x \in Entries
          BY <1>3, <3>2 DEF Entries
        <5>2. pending_zero_done'[i] = IF i <= Len(pending_zero_done) THEN pending_zero_done[i] ELSE x
          <6> HIDE DEF x
          <6>1. /\ Len(pending_zero_done') = Len(pending_zero_done) + 1
                /\ \A k \in 1 .. Len(pending_zero_done) : pending_zero_done'[k] = pending_zero_done[k]
                /\ pending_zero_done'[Len(pending_zero_done) + 1] = x
            BY <1>4, <5>1, AppendProperties
          <6> QED
            BY <4>1, <6>1
        <5> QED
          BY <5>2
      <4> QED
        BY <3>2, <4>1, <4>2, <4>3
    <3> QED
      BY <3>1, <3>2
  <2> QED
    BY <2>1, <2>2, <2>3
<1> QED
  BY <1>9, <1>12, <1>13, <1>14, <1>15, <1>16, <1>17 DEF DInv

\* cycle(n).
LEMMA CycleDInv == ASSUME DInv, NEW n \in 0 .. MaxInFlight, cycle(n) PROVE DInv'
<1>1. /\ n \in Nat /\ n <= Len(pending) /\ n <= MaxInFlight - current_in_flight_mem_reqs
  BY DMAAssumption DEF DMAAssumption, cycle, CanIssue, WindowRoom
<1>2. /\ pending \in Seq(Cmds) /\ pending_txns \in Seq(Entries) /\ incoming_txns \in Seq(Cmds)
      /\ scheduled_completions \in Seq(Entries) /\ pending_zero_done \in Seq(Entries)
      /\ in_memory \in [Cmds -> Nat] /\ current_in_flight_mem_reqs \in Int /\ bus_free \in Nat
      /\ inflight \subseteq Cmds /\ reads \subseteq inflight /\ early \subseteq inflight \ reads
      /\ l2 \in BOOLEAN
  BY DEF DInv, TypeOK
<1>3. /\ Issued(n) \in Seq(Cmds) /\ Len(Issued(n)) = n
      /\ SubSeq(pending, n + 1, Len(pending)) \in Seq(Cmds)
      /\ Pipeline(n) \in Seq(Entries) /\ Len(Pipeline(n)) = Len(pending_txns) + n
      /\ Arrivals(n) \in Seq(Cmds) /\ Scheduled(n) \in Seq(Entries)
  BY <1>1, CycleQueues DEF DInv
<1>4. /\ pending' = SubSeq(pending, n + 1, Len(pending))
      /\ incoming_txns' = <<>> /\ scheduled_completions' = NotDue(Scheduled(n))
      /\ bus_free' = Max(0, bus_free + Len(Arrivals(n)) * Delay - 1)
      /\ early' = (early \cup CompletedEarly(n)) \ (Zeroes \cup Erased(n))
      /\ inflight' = inflight \ (Zeroes \cup Erased(n))
      /\ reads' = reads \ (Zeroes \cup Erased(n))
      /\ pc' = "take" /\ l2' = l2 /\ total_txns' = total_txns /\ reported' = reported
      /\ DOMAIN issued_txns' = Cmds /\ DOMAIN done_txns' = Cmds /\ DOMAIN completed_cmds' = Cmds
      /\ issued_txns' = [c \in Cmds |-> issued_txns'[c]]
      /\ done_txns' = [c \in Cmds |-> done_txns'[c]]
      /\ completed_cmds' = [c \in Cmds |-> completed_cmds'[c]]
  BY DEF cycle, IssuedAfter, DoneAfter
<1>5. /\ l2 => /\ in_memory' = [c \in Cmds |-> in_memory[c] + Count(Issued(n), c)]
               /\ pending_zero_done' = NotDue(pending_zero_done)
               /\ current_in_flight_mem_reqs' = current_in_flight_mem_reqs + n
               /\ pending_txns' = pending_txns
      /\ ~l2 => /\ pending_txns' = NotDue(Pipeline(n))
                /\ current_in_flight_mem_reqs' =
                        current_in_flight_mem_reqs + n - Len(Due(Pipeline(n)))
                /\ in_memory' = in_memory /\ pending_zero_done' = pending_zero_done
  BY DEF cycle
<1>6. \A c \in Cmds : /\ issued_txns[c] \in Nat /\ done_txns[c] \in Nat
                      /\ Count(Issued(n), c) \in Nat /\ Count(Transferred(n), c) \in Nat
                      /\ issued_txns'[c] = issued_txns[c] + Count(Issued(n), c)
                      /\ done_txns'[c] = done_txns[c] + Count(Transferred(n), c)
  BY CycleCounts DEF DInv, TypeOK
<1>7. TypeOK'
  <2>1. issued_txns' \in [Cmds -> Nat] /\ done_txns' \in [Cmds -> Nat]
    <3>1. \A c \in Cmds : issued_txns'[c] \in Nat /\ done_txns'[c] \in Nat
      BY <1>6
    <3> QED
      BY <1>4, <3>1
  <2>2. completed_cmds' \in [Cmds -> Nat]
    BY <1>4, CycleTold
  <2>3. pending' \in Seq(Cmds) /\ incoming_txns' \in Seq(Cmds) /\ scheduled_completions' \in Seq(Entries)
    BY <1>3, <1>4, QueueSplit, EmptySeq
  <2>4. /\ in_memory' \in [Cmds -> Nat] /\ pending_txns' \in Seq(Entries)
        /\ pending_zero_done' \in Seq(Entries) /\ current_in_flight_mem_reqs' \in Int
    <3>1. CASE l2
      BY <1>1, <1>2, <1>5, <1>6, <3>1, QueueSplit
    <3>2. CASE ~l2
      <4>1. NotDue(Pipeline(n)) \in Seq(Entries) /\ Len(Due(Pipeline(n))) \in Nat
        BY <1>3, QueueSplit
      <4> QED
        BY <1>1, <1>2, <1>5, <3>2, <4>1
    <3> QED
      BY <3>1, <3>2
  <2>5. bus_free' \in Nat
    <3>1. Len(Arrivals(n)) \in Nat /\ Delay \in Nat
      BY <1>3, LenProperties, DMAAssumption DEF DMAAssumption
    <3>2. Len(Arrivals(n)) * Delay \in Nat
      BY <3>1
    <3> QED
      BY <1>2, <1>4, <3>2 DEF Max
  <2>6. inflight' \subseteq Cmds /\ reads' \subseteq inflight' /\ early' \subseteq inflight' \ reads'
    <3>1. CompletedEarly(n) \subseteq inflight \ reads
      BY DEF CompletedEarly
    <3> QED
      BY <1>2, <1>4, <3>1
  <2>7. l2' \in BOOLEAN /\ pc' \in {"idle", "take"} /\ total_txns' \in [Cmds -> Nat]
        /\ reported' \in [Cmds -> Nat]
    BY <1>4 DEF DInv, TypeOK
  <2> QED
    BY <2>1, <2>2, <2>3, <2>4, <2>5, <2>6, <2>7 DEF TypeOK
<1>8. OneMemory'
  <2>1. CASE l2
    BY <1>4, <1>5, <2>1 DEF DInv, OneMemory
  <2>2. CASE ~l2
    BY <1>4, <1>5, <2>2 DEF DInv, OneMemory
  <2> QED
    BY <2>1, <2>2
<1>9. LeavesWhenDone'
  BY CycleTold DEF LeavesWhenDone
<1>10. ToldExact'
  BY <1>4, CycleTold DEF ToldExact
<1>11. BurstsConserved' /\ PendingLive'
  <2> SUFFICES ASSUME NEW c \in Cmds
               PROVE  /\ issued_txns'[c] + Count(pending', c) = total_txns'[c]
                      /\ InMemory(c)' + OnBus(c)' + done_txns'[c] = issued_txns'[c]
                      /\ InMemory(c)' + OnBus(c)' > 0 => c \in inflight'
                      /\ Count(pending', c) > 0 => c \in inflight'
    BY DEF BurstsConserved, InMemory, OnBus, PendingLive
  <2>1. /\ Count(Transferred(n), c) \in Nat /\ Count(Issued(n), c) \in Nat
        /\ Count(pending, c) \in Nat /\ Count(pending', c) \in Nat
        /\ InMemory(c) \in Nat /\ InMemory(c)' \in Nat
        /\ OnBus(c) \in Nat /\ OnBus(c)' \in Nat
        /\ Count(pending, c) = Count(Issued(n), c) + Count(pending', c)
        /\ InMemory(c) + OnBus(c) + Count(Issued(n), c)
              = InMemory(c)' + OnBus(c)' + Count(Transferred(n), c)
        /\ issued_txns'[c] = issued_txns[c] + Count(Issued(n), c)
        /\ done_txns'[c] = done_txns[c] + Count(Transferred(n), c)
    BY CycleCounts DEF DInv
  <2>2. /\ issued_txns[c] + Count(pending, c) = total_txns[c]
        /\ InMemory(c) + OnBus(c) + done_txns[c] = issued_txns[c]
    BY Conserved DEF DInv
  <2>3. total_txns[c] \in Nat /\ issued_txns[c] \in Nat /\ done_txns[c] \in Nat /\ total_txns' = total_txns
    BY <1>4 DEF DInv, TypeOK
  <2>4. c \notin inflight' => done_txns'[c] = total_txns'[c]
    BY CycleTold
  <2> QED
    BY <2>1, <2>2, <2>3, <2>4
<1>12. ZeroQueue'
  <2> SUFFICES ASSUME NEW c \in Cmds,
                      \E i \in 1 .. Len(pending_zero_done') : pending_zero_done'[i].req = c
               PROVE  total_txns'[c] = 0 /\ (c \in inflight' \/ Told(c)' = 1)
    BY DEF ZeroQueue
  <2>1. \E i \in 1 .. Len(pending_zero_done) : pending_zero_done[i].req = c
    <3>1. CASE l2
      <4>1. PICK i \in 1 .. Len(NotDue(pending_zero_done)) : NotDue(pending_zero_done)[i].req = c
        BY <1>5, <3>1
      <4>2. i + Len(Due(pending_zero_done)) \in 1 .. Len(pending_zero_done)
            /\ pending_zero_done[i + Len(Due(pending_zero_done))].req = c
        <5> DEFINE q == pending_zero_done
        <5>1. /\ Len(Due(q)) \in Nat /\ Len(q) \in Nat /\ Len(Due(q)) <= Len(q)
              /\ Len(NotDue(q)) = Len(q) - Len(Due(q))
              /\ NotDue(q)[i].req = q[i + Len(Due(q))].req
          BY <1>2, <4>1, QueueSplit, LenProperties
        <5> QED
          BY <4>1, <5>1
      <4> QED
        BY <4>2
    <3>2. CASE ~l2
      BY <1>5, <3>2
    <3> QED
      BY <3>1, <3>2
  <2>2. total_txns[c] = 0 /\ (c \in inflight \/ Told(c) = 1)
    BY <2>1 DEF DInv, ZeroQueue
  <2> QED
    BY <1>4, <2>2, CycleTold
<1>13. WindowExact'
  <2>1. /\ current_in_flight_mem_reqs = Len(pending_txns) + Cardinality(Inside(in_memory))
        /\ current_in_flight_mem_reqs <= MaxInFlight
    BY DEF DInv, WindowExact, Inside
  <2>2. /\ Cardinality(Inside(in_memory)) \in Nat /\ Len(pending_txns) \in Nat /\ MaxInFlight \in Nat
    BY <1>2, InsideFinite, LenProperties, DMAAssumption DEF DMAAssumption
  <2>3. /\ current_in_flight_mem_reqs' = Len(pending_txns') + Cardinality(Inside(in_memory'))
        /\ current_in_flight_mem_reqs' <= MaxInFlight
    <3>1. CASE l2
      <4>1. Cardinality(Inside(in_memory')) = Cardinality(Inside(in_memory)) + n
        BY <1>2, <1>3, <1>5, <3>1, InsideGrows
      <4> QED
        BY <1>1, <1>2, <1>5, <2>1, <2>2, <3>1, <4>1
    <3>2. CASE ~l2
      <4>1. /\ Len(Due(Pipeline(n))) \in Nat
            /\ Len(NotDue(Pipeline(n))) = Len(Pipeline(n)) - Len(Due(Pipeline(n)))
        BY <1>3, QueueSplit
      <4>2. /\ Len(pending_txns') = Len(pending_txns) + n - Len(Due(Pipeline(n)))
            /\ Cardinality(Inside(in_memory')) = Cardinality(Inside(in_memory))
            /\ current_in_flight_mem_reqs' =
                    current_in_flight_mem_reqs + n - Len(Due(Pipeline(n)))
        BY <1>3, <1>5, <3>2, <4>1
      <4> DEFINE d == Len(Due(Pipeline(n)))   k == Cardinality(Inside(in_memory))
                 l == Len(pending_txns)       m == Cardinality(Inside(in_memory'))
                 ln == Len(pending_txns')
      <4>3. /\ d \in Nat /\ k \in Nat /\ l \in Nat /\ ln = l + n - d /\ m = k
            /\ current_in_flight_mem_reqs = l + k
            /\ current_in_flight_mem_reqs' = current_in_flight_mem_reqs + n - d
        BY <2>1, <2>2, <4>1, <4>2
      <4> HIDE DEF d, k, l, m, ln
      <4>4. current_in_flight_mem_reqs' = ln + m /\ current_in_flight_mem_reqs' <= MaxInFlight
        BY <1>1, <2>2, <4>3
      <4> QED
        BY <4>4 DEF ln, m
    <3> QED
      BY <3>1, <3>2
  <2> QED
    BY <2>3 DEF WindowExact, Inside
<1> QED
  BY <1>7, <1>8, <1>9, <1>10, <1>11, <1>12, <1>13 DEF DInv

-----------------------------------------------------------------------------
(***************************************************************************)
(* The theorems.                                                           *)
(***************************************************************************)

\* Every step keeps the books.
LEMMA NextDInv == ASSUME DInv, [Next]_vars PROVE DInv'
<1>1. CASE Next
  BY <1>1, SubmitDInv, RecvResponseDInv, CycleDInv, TakeDInv DEF Next
<1>2. CASE UNCHANGED vars
  BY <1>2 DEF vars, reqVars, memVars, busVars, DInv, TypeOK, OneMemory, PendingLive,
              LeavesWhenDone, ToldExact, Told, ZeroQueue, BurstsConserved, WindowExact
<1> QED
  BY <1>1, <1>2

\* The strengthening holds in every state of the engine.
THEOREM BooksKept == Spec => []DInv
<1>1. Init => DInv
  BY InitDInv
<1>2. DInv /\ [Next]_vars => DInv'
  BY NextDInv
<1> QED
  BY <1>1, <1>2, PTL DEF Spec

\* The strengthening implies that each command is reported once.
LEMMA DInvReportedOnce == ASSUME DInv PROVE ReportedOnce
<1> SUFFICES ASSUME NEW c \in Cmds
             PROVE  /\ Told(c) <= 1
                    /\ Told(c) = 1 /\ done_txns[c] < total_txns[c]
                            => c \in early /\ issued_txns[c] = total_txns[c]
                    /\ Told(c) = 0 /\ total_txns[c] > 0 => c \in inflight \ early
  BY DEF ReportedOnce, Told
<1>1. /\ total_txns[c] \in Nat /\ done_txns[c] \in Nat /\ early \subseteq inflight
      /\ reported[c] \in Nat /\ completed_cmds[c] \in Nat
  BY DEF DInv, TypeOK
<1>2. /\ c \in inflight \ early => Told(c) = 0
      /\ c \in early => Told(c) = 1 /\ issued_txns[c] = total_txns[c]
      /\ c \notin inflight => Told(c) <= 1 /\ (Told(c) = 0 => total_txns[c] = 0)
      /\ c \notin inflight => done_txns[c] = total_txns[c]
  BY DEF DInv, ToldExact, LeavesWhenDone
<1> QED
  BY <1>1, <1>2

\* DMAEngine's books are right for every order of the memory's answers: no
\* burst is lost or counted twice, the window is what is inside the memory and
\* never above max_in_flight_mem_reqs, and no command is reported twice or
\* (but for a write sent in full) before its last burst is back.
THEOREM EngineCorrect == Spec => []TransfersAccountedFor
<1>1. DInv => TransfersAccountedFor
  BY DInvReportedOnce DEF TransfersAccountedFor, DInv
<1> QED
  BY <1>1, BooksKept, PTL

\* A cycle of the engine is a Cycle of its interface.
LEMMA CycleRefines ==
    ASSUME DInv, NEW n \in 0 .. MaxInFlight, cycle(n)
    PROVE  LET done == CompletedEarly(n) \cup Zeroes \cup FinishedByBus(n)
               drained == Zeroes \cup Erased(n)
           IN  done \subseteq inflight /\ drained \subseteq inflight /\ Interface!Cycle(done, drained)
<1> DEFINE done == CompletedEarly(n) \cup Zeroes \cup FinishedByBus(n)
           drained == Zeroes \cup Erased(n)
<1>1. inflight \subseteq Cmds /\ early \subseteq inflight \ reads
  BY DEF DInv, TypeOK
<1>2. /\ CompletedEarly(n) \subseteq inflight \ (reads \cup early)
      /\ Zeroes \subseteq inflight /\ Erased(n) \subseteq inflight
      /\ FinishedByBus(n) \subseteq Erased(n)
      /\ \A c \in FinishedByBus(n) : c \in reads \/ c \notin early \cup CompletedEarly(n)
      /\ \A c \in Erased(n) : c \in early \/ c \in CompletedEarly(n) \/ c \in FinishedByBus(n)
  BY DEF CompletedEarly, Zeroes, Erased, FinishedByBus
<1>3. Zeroes \cap early = {}
  <2>1. ASSUME NEW c \in Cmds, c \in Zeroes, c \in early PROVE FALSE
    <3>1. total_txns[c] = 0
      BY <2>1, CycleRequests
    <3>2. total_txns[c] > 0
      BY <2>1 DEF DInv, ToldExact
    <3> QED
      BY <3>1, <3>2
  <2> QED
    BY <1>1, <1>2, <2>1
<1>4. done \subseteq inflight \ early
  BY <1>1, <1>2, <1>3
<1>5. drained \subseteq early \cup done
  BY <1>2
<1>6. done \cap reads \subseteq drained
  BY <1>2
<1>7. /\ inflight' = inflight \ drained
      /\ reads' = reads \ drained
      /\ early' = (early \cup CompletedEarly(n)) \ drained
  BY DEF cycle
<1>8. early' = (early \cup done) \ drained
  BY <1>2, <1>7
<1> QED
  BY <1>2, <1>4, <1>5, <1>6, <1>7, <1>8 DEF Interface!Cycle

\* DMAEngine implements DMAInterface, the promise SAController is modelled
\* against: an engine that counts bursts, orders them on a bus and asks a
\* cache looks to the controller like one that completes what it likes.
THEOREM EngineRefines == Spec => InterfaceSpec
<1>1. Init => Interface!Init
  BY DEF Init, Interface!Init
<1>2. DInv /\ [Next]_vars => [Interface!Next]_<<inflight, early, reads>>
  <2> SUFFICES ASSUME DInv, [Next]_vars
               PROVE  Interface!Next \/ UNCHANGED <<inflight, early, reads>>
    OBVIOUS
  <2>1. ASSUME NEW c \in Cmds, NEW n \in Sizes, NEW is_read \in BOOLEAN, submit(c, n, is_read)
        PROVE  Interface!Next
    <3>1. /\ c \in Cmds \ inflight /\ inflight' = inflight \cup {c} /\ early' = early
          /\ is_read => reads' = reads \cup {c}
          /\ ~is_read => reads' = reads
      BY <2>1 DEF submit
    <3>2. CASE is_read
      <4>1. Interface!Submit({c}, {})
        BY <3>1, <3>2 DEF Interface!Submit
      <4> QED
        BY <3>1, <4>1 DEF Interface!Next
    <3>3. CASE ~is_read
      <4>1. Interface!Submit({}, {c})
        BY <3>1, <3>3 DEF Interface!Submit
      <4> QED
        BY <3>1, <4>1 DEF Interface!Next
    <3> QED
      BY <3>2, <3>3
  <2>2. ASSUME NEW c \in Cmds, recvResponse(c)
        PROVE  UNCHANGED <<inflight, early, reads>>
    BY <2>2 DEF recvResponse, reqVars
  <2>3. ASSUME NEW n \in 0 .. MaxInFlight, cycle(n)
        PROVE  Interface!Next
    <3> DEFINE done == CompletedEarly(n) \cup Zeroes \cup FinishedByBus(n)
               drained == Zeroes \cup Erased(n)
    <3>1. done \in SUBSET inflight /\ drained \in SUBSET inflight /\ Interface!Cycle(done, drained)
      BY <2>3, CycleRefines
    <3> HIDE DEF done, drained
    <3> QED
      BY <3>1 DEF Interface!Next
  <2>4. ASSUME take_completed
        PROVE  UNCHANGED <<inflight, early, reads>>
    BY <2>4 DEF take_completed, reqVars
  <2>5. ASSUME UNCHANGED vars
        PROVE  UNCHANGED <<inflight, early, reads>>
    BY <2>5 DEF vars, reqVars
  <2> QED
    BY <2>1, <2>2, <2>3, <2>4, <2>5 DEF Next
<1> QED
  BY <1>1, <1>2, BooksKept, PTL DEF Spec, InterfaceSpec, Interface!Spec
=============================================================================
