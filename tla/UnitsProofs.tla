----------------------------- MODULE UnitsProofs ------------------------------
(***************************************************************************)
(* Proofs about the units around the core: SimpleDRAM serves every         *)
(* transaction in time; what the trace runtime counts of a chunk is what   *)
(* ran in it; the report of a simulation adds up; the clocks of processor  *)
(* and memory stay in step.  Each for every value of the constants.        *)
(***************************************************************************)
EXTENDS SimpleDRAM, Preprocess, Statistics, MultiChannel, TLAPS, SequenceTheorems,
        FiniteSetTheorems, WellFoundedInduction

\* A set of numbers has a least one.
LEMMA LeastNumber ==
    ASSUME NEW S \in SUBSET Nat, S # {}
    PROVE  \E n \in S : \A m \in S : n <= m
<1> DEFINE R == OpToRel(<, Nat)
<1>1. IsWellFoundedOn(R, Nat)
  BY NatLessThanWellFounded, Zenon
<1>2. \A x, y \in Nat : <<y, x>> \in R <=> y < x
  BY DEF OpToRel
<1> HIDE DEF R
<1>3. PICK n \in S : \A m \in S : ~(<<m, n>> \in R)
  BY <1>1, WFMin
<1>4. \A m \in S : n \in Nat /\ m \in Nat /\ ~(m < n)
  BY <1>2, <1>3
<1> QED
  BY <1>4

\* Induction, for a set of numbers.
LEMMA InductiveSet ==
    ASSUME NEW S \in SUBSET Nat, 0 \in S, \A n \in S : n + 1 \in S
    PROVE  S = Nat
<1> SUFFICES ASSUME Nat \ S # {} PROVE FALSE
  OBVIOUS
<1>1. PICK x \in Nat \ S : \A y \in Nat \ S : x <= y
  BY LeastNumber
<1>2. x # 0 /\ x - 1 \in Nat /\ ~(x <= x - 1)
  BY <1>1
<1>3. x - 1 \in S
  BY <1>1, <1>2
<1>4. (x - 1) + 1 \in S
  BY <1>3
<1> QED
  BY <1>1, <1>4

-----------------------------------------------------------------------------
(* Memory.                                                                 *)

\* The place in the epoch: 0 is the end of the last one.
Place == IF cycles = 0 THEN epoch_length ELSE cycles

\* The cycles a transaction has waited since its latency was over.
Waited(i) == pq[i].age + 1 - latency

\* Transactions are in the order of their arrival, so that one whose latency
\* is over has only such transactions before it; as many have left before it
\* as its place has moved up; and for every whole epoch it has waited, the
\* slots of one epoch went to transactions before it.
QueueType ==
    /\ pq \in Seq([isWrite : BOOLEAN, left : Nat, age : Nat, ahead : Nat])
    /\ cycles \in 0 .. epoch_length - 1
    /\ request_count \in 0 .. max_req_per_epoch
    /\ added \in 0 .. MaxPerCycle

EarlierFirst == \A i, j \in 1 .. Len(pq) : i < j => pq[i].left <= pq[j].left

MovedUp == \A i \in 1 .. Len(pq) : i - 1 <= pq[i].ahead

LatencyKept == \A i \in 1 .. Len(pq) :
    /\ pq[i].left < latency
    /\ pq[i].left > 0 => pq[i].age + pq[i].left = latency - 1
    /\ pq[i].left = 0 => pq[i].age >= latency - 1

SlotsUsed == (\E i \in 1 .. Len(pq) : Waited(i) > 0)
                => \/ cycles = 0
                   \/ request_count = max_req_per_epoch

EpochsCounted == \A i \in 1 .. Len(pq) : Waited(i) > 0 =>
    \E n \in Nat : /\ n * max_req_per_epoch <= pq[i].ahead - (i - 1)
                   /\ Waited(i) <= n * epoch_length + Place - 1

FreshEpoch == cycles = 0 => request_count = 0

QInv == /\ QueueType /\ EarlierFirst /\ MovedUp /\ LatencyKept
        /\ SlotsUsed /\ EpochsCounted /\ FreshEpoch

-----------------------------------------------------------------------------
\* Every epoch has at least one slot, whatever the bandwidth.
LEMMA OneSlot == max_req_per_epoch \in Nat \ {0}
<1> DEFINE a == 1000 * Peak_BW * epoch_length
           b == bytes_per_req * core_clockspeed
<1>1. a \in Nat /\ b \in Nat \ {0}
  <2>1. 1000 * Peak_BW \in Nat
    BY DramAssumption
  <2> QED
    BY <2>1, DramAssumption
<1>2. max_req_per_epoch = IF a \div b < 1 THEN 1 ELSE a \div b
  BY DEF max_req_per_epoch
<1> HIDE DEF a, b
<1>3. a \div b \in Int
  BY <1>1
<1> QED
  BY <1>2, <1>3

\* A factor may be replaced by a larger one.
LEMMA ProductGrows ==
    ASSUME NEW m \in Nat, NEW n \in Nat, NEW k \in Nat, m <= n
    PROVE  m * k <= n * k
<1>1. PICK d \in Nat : n = m + d
  <2>1. n - m \in Nat /\ n = m + (n - m)
    OBVIOUS
  <2> QED
    BY <2>1
<1>2. d * k \in Nat /\ m * k \in Nat
  OBVIOUS
<1>3. n * k = m * k + d * k
  BY <1>1
<1> QED
  BY <1>2, <1>3

\* A number of whole groups is at most the quotient.
LEMMA QuotientIsLargest ==
    ASSUME NEW n \in Nat, NEW a \in Nat, NEW m \in Nat \ {0}, n * m <= a
    PROVE  n <= a \div m /\ a \div m \in Nat
<1>1. a \div m \in Nat /\ a < (a \div m + 1) * m
  OBVIOUS
<1>2. SUFFICES ASSUME a \div m + 1 <= n
               PROVE  FALSE
  BY <1>1
<1>3. (a \div m + 1) * m <= n * m
  BY <1>1, <1>2, ProductGrows
<1> QED
  BY <1>1, <1>3

\* What the fields of an entry of the queue can be.
LEMMA QueueEntries ==
    ASSUME QueueType, NEW i \in 1 .. Len(pq)
    PROVE  /\ pq[i] \in [isWrite : BOOLEAN, left : Nat, age : Nat, ahead : Nat]
           /\ pq[i].left \in Nat /\ pq[i].age \in Nat /\ pq[i].ahead \in Nat
<1>1. pq[i] \in [isWrite : BOOLEAN, left : Nat, age : Nat, ahead : Nat]
  BY ElementOfSeq DEF QueueType
<1> QED
  BY <1>1

\* The loop of process() always ends somewhere, at the first transaction that
\* is not ready or when the slots of the epoch are used up.
LEMMA CompletingIs ==
    ASSUME QueueType
    PROVE  /\ Completing \in 0 .. Len(pq)
           /\ Completing <= max_req_per_epoch - request_count
           /\ \A i \in 1 .. Completing : pq[i].left = 0
           /\ Completing < Len(pq) =>
                pq[Completing + 1].left > 0 \/ request_count + Completing >= max_req_per_epoch
<1> DEFINE S == {n \in 0 .. Len(pq) : \/ n = Len(pq)
                                      \/ pq[n + 1].left > 0
                                      \/ request_count + n >= max_req_per_epoch}
<1>1. Len(pq) \in Nat /\ request_count \in Nat /\ max_req_per_epoch \in Nat
      /\ request_count <= max_req_per_epoch
  BY OneSlot DEF QueueType
<1>2. \A i \in 1 .. Len(pq) : pq[i].left \in Nat
  BY QueueEntries
<1>3. PICK n \in S : \A m \in S : n <= m
  <2>1. Len(pq) \in S /\ S \subseteq Nat
    BY <1>1
  <2> QED
    BY <2>1, LeastNumber
<1>4. n \in 0 .. Len(pq)
  OBVIOUS
<1>5. \A i \in 1 .. n : pq[i].left = 0 /\ request_count + (i - 1) < max_req_per_epoch
  <2> TAKE i \in 1 .. n
  <2>1. i - 1 \in 0 .. Len(pq) /\ i - 1 # Len(pq) /\ i \in 1 .. Len(pq) /\ (i - 1) + 1 = i
    BY <1>1, <1>4
  <2>2. i - 1 \notin S
    <3> HIDE DEF S
    <3>1. i - 1 \in S => n <= i - 1
      BY <1>3
    <3> QED
      BY <1>1, <1>4, <3>1
  <2> QED
    BY <1>1, <1>2, <2>1, <2>2
<1>6. n <= max_req_per_epoch - request_count
  <2>1. CASE n = 0
    BY <2>1, <1>1
  <2>2. CASE n # 0
    BY <2>2, <1>1, <1>4, <1>5
  <2> QED
    BY <2>1, <2>2
<1>7. n < Len(pq) => pq[n + 1].left > 0 \/ request_count + n >= max_req_per_epoch
  BY <1>1, <1>4
<1> QED
  BY <1>4, <1>5, <1>6, <1>7 DEF Completing

-----------------------------------------------------------------------------
\* An empty queue keeps every part of the invariant.
LEMMA InitQInv == QueueInit => QInv
<1> SUFFICES ASSUME QueueInit
             PROVE  QInv
  OBVIOUS
<1>1. Len(pq) = 0 /\ pq \in Seq([isWrite : BOOLEAN, left : Nat, age : Nat, ahead : Nat])
  BY DEF QueueInit
<1>2. \A i \in 1 .. Len(pq) : FALSE
  BY <1>1
<1>3. QueueType
  BY <1>1, OneSlot, DramAssumption DEF QueueInit, QueueType
<1>4. EarlierFirst /\ MovedUp /\ LatencyKept
  BY <1>2 DEF EarlierFirst, MovedUp, LatencyKept
<1>5. SlotsUsed /\ EpochsCounted /\ FreshEpoch
  BY <1>2 DEF SlotsUsed, EpochsCounted, FreshEpoch, QueueInit
<1> QED
  BY <1>3, <1>4, <1>5 DEF QInv

\* A new transaction joins at the end with its whole latency before it.
LEMMA AddQInv ==
    ASSUME QInv, NEW w \in BOOLEAN, addTransaction(w)
    PROVE  QInv'
<1> DEFINE N == Len(pq)
           new == [isWrite |-> w, left |-> latency - 1, age |-> 0, ahead |-> N]
           QueueEntry == [isWrite : BOOLEAN, left : Nat, age : Nat, ahead : Nat]
<1>1. N \in Nat /\ pq \in Seq(QueueEntry) /\ latency \in Nat \ {0}
  BY DramAssumption DEF QInv, QueueType
<1>2. new \in QueueEntry
  BY <1>1
<1>3. pq' = Append(pq, new) /\ cycles' = cycles /\ request_count' = request_count
      /\ added' = added + 1 /\ added < MaxPerCycle
  BY DEF addTransaction
<1> HIDE DEF new
<1>4. /\ Len(pq') = N + 1 /\ pq' \in Seq(QueueEntry) /\ pq'[N + 1] = new
      /\ \A i \in 1 .. N : pq'[i] = pq[i]
  BY <1>1, <1>2, <1>3, AppendProperties
<1>5. new.left = latency - 1 /\ new.age = 0 /\ new.ahead = N
  BY DEF new
<1> HIDE DEF N
<1>6. \A i \in 1 .. N + 1 : i \in 1 .. N \/ i = N + 1
  BY <1>1
<1>7. \A i \in 1 .. N : pq[i].left \in Nat /\ pq[i].age \in Nat /\ pq[i].ahead \in Nat
  BY QueueEntries DEF QInv, N
<1>8. QueueType'
  BY <1>3, <1>4, DramAssumption DEF QInv, QueueType
<1>9. EarlierFirst'
  <2> SUFFICES ASSUME NEW i \in 1 .. N + 1, NEW j \in 1 .. N + 1, i < j
               PROVE  pq'[i].left <= pq'[j].left
    BY <1>4 DEF EarlierFirst
  <2>1. i \in 1 .. N
    BY <1>1, <1>6
  <2>2. CASE j \in 1 .. N
    BY <2>1, <2>2, <1>4 DEF QInv, EarlierFirst, N
  <2>3. CASE j = N + 1
    <3>1. pq[i].left < latency
      BY <2>1 DEF QInv, LatencyKept, N
    <3>2. pq'[i].left = pq[i].left /\ pq[i].left \in Nat
      BY <2>1, <1>4, <1>7
    <3>3. pq'[j].left = latency - 1
      BY <2>3, <1>4, <1>5
    <3>4. latency \in Nat
      BY <1>1
    <3> HIDE DEF QueueEntry
    <3>5. pq[i].left <= latency - 1
      BY <3>1, <3>2, <3>4
    <3> QED
      BY <3>2, <3>3, <3>5
  <2> QED
    BY <1>6, <2>2, <2>3
<1>10. MovedUp'
  <2> SUFFICES ASSUME NEW i \in 1 .. N + 1
               PROVE  i - 1 <= pq'[i].ahead
    BY <1>4 DEF MovedUp
  <2>1. CASE i \in 1 .. N
    BY <2>1, <1>4 DEF QInv, MovedUp, N
  <2>2. CASE i = N + 1
    BY <2>2, <1>1, <1>4, <1>5
  <2> QED
    BY <1>6, <2>1, <2>2
<1>11. LatencyKept'
  <2> SUFFICES ASSUME NEW i \in 1 .. N + 1
               PROVE  /\ pq'[i].left < latency
                      /\ pq'[i].left > 0 => pq'[i].age + pq'[i].left = latency - 1
                      /\ pq'[i].left = 0 => pq'[i].age >= latency - 1
    BY <1>4 DEF LatencyKept
  <2>1. CASE i \in 1 .. N
    BY <2>1, <1>4 DEF QInv, LatencyKept, N
  <2>2. CASE i = N + 1
    BY <2>2, <1>1, <1>4, <1>5
  <2> QED
    BY <1>6, <2>1, <2>2
<1>12. \A i \in 1 .. N + 1 : (Waited(i) > 0)' => i \in 1 .. N /\ Waited(i) > 0
  <2> TAKE i \in 1 .. N + 1
  <2>1. CASE i \in 1 .. N
    BY <2>1, <1>4 DEF Waited
  <2>2. CASE i = N + 1
    BY <2>2, <1>1, <1>4, <1>5 DEF Waited
  <2> QED
    BY <1>6, <2>1, <2>2
<1>13. SlotsUsed'
  <2> SUFFICES ASSUME NEW i \in 1 .. N + 1, Waited(i)' > 0
               PROVE  cycles' = 0 \/ request_count' = max_req_per_epoch
    BY <1>4 DEF SlotsUsed
  <2> QED
    BY <1>3, <1>12 DEF QInv, SlotsUsed, N
<1>14. EpochsCounted'
  <2> SUFFICES ASSUME NEW i \in 1 .. N + 1, Waited(i)' > 0
               PROVE  \E n \in Nat : /\ n * max_req_per_epoch <= pq'[i].ahead - (i - 1)
                                     /\ Waited(i)' <= n * epoch_length + Place' - 1
    BY <1>4 DEF EpochsCounted
  <2>1. i \in 1 .. N /\ Waited(i) > 0 /\ pq'[i] = pq[i]
    BY <1>4, <1>12
  <2>2. Waited(i)' = Waited(i) /\ Place' = Place
    BY <2>1, <1>3 DEF Waited, Place
  <2>3. PICK n \in Nat : /\ n * max_req_per_epoch <= pq[i].ahead - (i - 1)
                         /\ Waited(i) <= n * epoch_length + Place - 1
    BY <2>1 DEF QInv, EpochsCounted, N
  <2> QED
    BY <2>1, <2>2, <2>3
<1>15. FreshEpoch'
  BY <1>3 DEF QInv, FreshEpoch
<1> QED
  BY <1>8, <1>9, <1>10, <1>11, <1>13, <1>14, <1>15 DEF QInv

\* One cycle more for a transaction that stays.
LEMMA AgedIs ==
    ASSUME NEW e \in [isWrite : BOOLEAN, left : Nat, age : Nat, ahead : Nat]
    PROVE  /\ Aged(e) \in [isWrite : BOOLEAN, left : Nat, age : Nat, ahead : Nat]
           /\ Aged(e).left = IF e.left > 0 THEN e.left - 1 ELSE 0
           /\ Aged(e).age = e.age + 1
           /\ Aged(e).ahead = e.ahead
<1> DEFINE l == IF e.left > 0 THEN e.left - 1 ELSE 0
           a == e.age + 1
<1>1. l \in Nat /\ a \in Nat
  OBVIOUS
<1>2. Aged(e) = [e EXCEPT !.left = l, !.age = a]
  BY DEF Aged
<1> HIDE DEF l, a
<1>3. Aged(e) \in [isWrite : BOOLEAN, left : Nat, age : Nat, ahead : Nat]
  BY <1>1, <1>2
<1>4. Aged(e).left = l /\ Aged(e).age = a /\ Aged(e).ahead = e.ahead
  BY <1>2
<1> QED
  BY <1>3, <1>4 DEF l, a

\* process(): the transactions that complete leave from the front, the others
\* move up and age by one cycle.
LEMMA ProcessQueue ==
    ASSUME QInv, process
    PROVE  /\ Len(pq') = Len(pq) - Completing
           /\ QueueType'
           /\ \A i \in 1 .. Len(pq') :
                /\ i + Completing \in 1 .. Len(pq)
                /\ pq'[i].left = IF pq[i + Completing].left > 0
                                 THEN pq[i + Completing].left - 1 ELSE 0
                /\ pq'[i].age = pq[i + Completing].age + 1
                /\ pq'[i].ahead = pq[i + Completing].ahead
<1> DEFINE N == Len(pq)
           n == Completing
           rest == SubSeq(pq, n + 1, N)
           QueueEntry == [isWrite : BOOLEAN, left : Nat, age : Nat, ahead : Nat]
<1>1. N \in Nat /\ n \in 0 .. N /\ pq \in Seq(QueueEntry) /\ QueueType
  BY CompletingIs DEF QInv, QueueType
<1>2. n <= max_req_per_epoch - request_count /\ request_count \in Nat /\ n \in Nat
      /\ max_req_per_epoch \in Nat
  BY <1>1, CompletingIs, OneSlot DEF QueueType
<1>3. pq' = [i \in 1 .. Len(rest) |-> Aged(rest[i])]
  BY DEF process
<1> HIDE DEF n
<1> HIDE DEF N
<1>4. Len(rest) = N - n /\ \A i \in 1 .. N - n : rest[i] = pq[i + n] /\ i + n \in 1 .. N
  <2>1. n + 1 \in 1 .. Len(pq) + 1 /\ N \in (n + 1) - 1 .. Len(pq)
    BY <1>1 DEF N
  <2>2. Len(rest) = N - (n + 1) + 1 /\ \A i \in 1 .. N - (n + 1) + 1 : rest[i] = pq[(n + 1) + i - 1]
    BY <2>1, <1>1, SubSeqProperties
  <2>3. N - (n + 1) + 1 = N - n /\ \A i \in 1 .. N - n : (n + 1) + i - 1 = i + n /\ i + n \in 1 .. N
    BY <1>1
  <2> QED
    BY <2>2, <2>3
<1> HIDE DEF rest
<1>5. pq' = [i \in 1 .. N - n |-> Aged(pq[i + n])] /\ N - n \in Nat
  <2>1. N - n \in Nat
    BY <1>1
  <2>2. \A i \in 1 .. N - n : Aged(rest[i]) = Aged(pq[i + n])
    BY <1>4
  <2> QED
    BY <1>3, <1>4, <2>1, <2>2
<1>6. \A i \in 1 .. N - n :
        /\ Aged(pq[i + n]) \in QueueEntry
        /\ Aged(pq[i + n]).left = IF pq[i + n].left > 0 THEN pq[i + n].left - 1 ELSE 0
        /\ Aged(pq[i + n]).age = pq[i + n].age + 1
        /\ Aged(pq[i + n]).ahead = pq[i + n].ahead
  <2> TAKE i \in 1 .. N - n
  <2>1. i + n \in 1 .. N
    BY <1>4
  <2>2. pq[i + n] \in QueueEntry
    BY <1>1, <2>1, QueueEntries DEF N
  <2> QED
    BY <2>2, AgedIs
<1>7. pq' \in Seq(QueueEntry) /\ Len(pq') = N - n
  <2> HIDE DEF QueueEntry
  <2> QED
    BY <1>5, <1>6
<1>8. cycles' \in 0 .. epoch_length - 1 /\ added' \in 0 .. MaxPerCycle
  BY <1>1, DramAssumption DEF process, QueueType
<1>9. request_count' \in 0 .. max_req_per_epoch
  <2>1. request_count' = IF cycles = epoch_length - 1 THEN 0 ELSE request_count + n
    BY DEF process, CountAfter, n
  <2> QED
    BY <2>1, <1>2
<1>10. QueueType'
  BY <1>7, <1>8, <1>9 DEF QueueType
<1>11. \A i \in 1 .. N - n : pq'[i] = Aged(pq[i + n])
  BY <1>5
<1> QED
  BY <1>4, <1>6, <1>7, <1>10, <1>11 DEF n, N

\* The invariant is kept by process(): a transaction that goes on waiting saw
\* the slots of this epoch go to transactions before it.
LEMMA ProcessQInv ==
    ASSUME QInv, process
    PROVE  QInv'
<1> DEFINE N == Len(pq)
           n == Completing
<1>1. N \in Nat /\ n \in 0 .. N /\ QueueType /\ max_req_per_epoch \in Nat \ {0}
  BY CompletingIs, OneSlot DEF QInv, QueueType
<1>2. /\ n <= max_req_per_epoch - request_count
      /\ n < N => pq[n + 1].left > 0 \/ request_count + n >= max_req_per_epoch
  BY <1>1, CompletingIs
<1>3. /\ Len(pq') = N - n /\ QueueType'
      /\ \A i \in 1 .. N - n :
            /\ i + n \in 1 .. N
            /\ pq'[i].left = IF pq[i + n].left > 0 THEN pq[i + n].left - 1 ELSE 0
            /\ pq'[i].age = pq[i + n].age + 1
            /\ pq'[i].ahead = pq[i + n].ahead
  BY ProcessQueue
<1>4. request_count' = IF cycles = epoch_length - 1 THEN 0 ELSE request_count + n
  BY DEF process, CountAfter
<1>5. /\ cycles \in 0 .. epoch_length - 1 /\ epoch_length \in Nat \ {0}
      /\ latency \in Nat \ {0} /\ request_count \in 0 .. max_req_per_epoch
  BY <1>1, DramAssumption DEF QueueType
<1>6. cycles' = IF cycles = epoch_length - 1 THEN 0 ELSE cycles + 1
  <2>1. cycles' = (cycles + 1) % epoch_length
    BY DEF process
  <2> QED
    BY <2>1, <1>5
<1>7. \A i \in 1 .. N : pq[i].left \in Nat /\ pq[i].age \in Nat /\ pq[i].ahead \in Nat
  BY <1>1, QueueEntries
<1>8. \A i \in 1 .. N :
        /\ pq[i].left < latency
        /\ pq[i].left > 0 => pq[i].age + pq[i].left = latency - 1
        /\ pq[i].left = 0 => pq[i].age >= latency - 1
  BY DEF QInv, LatencyKept
<1>9. \A i, j \in 1 .. N : i <= j => pq[i].left <= pq[j].left
  BY <1>7 DEF QInv, EarlierFirst
<1>10. \A i \in 1 .. N : i - 1 <= pq[i].ahead
  BY DEF QInv, MovedUp
<1>11. \A i \in 1 .. N : Waited(i) > 0 =>
         \E k \in Nat : /\ k * max_req_per_epoch <= pq[i].ahead - (i - 1)
                        /\ Waited(i) <= k * epoch_length + Place - 1
  BY DEF QInv, EpochsCounted
<1> HIDE DEF N, n
<1>12. EarlierFirst'
  <2> SUFFICES ASSUME NEW i \in 1 .. N - n, NEW j \in 1 .. N - n, i < j
               PROVE  pq'[i].left <= pq'[j].left
    BY <1>3 DEF EarlierFirst
  <2>1. i + n \in 1 .. N /\ j + n \in 1 .. N /\ i + n <= j + n
    BY <1>1, <1>3
  <2>2. pq[i + n].left <= pq[j + n].left
    BY <2>1, <1>9
  <2> QED
    BY <2>1, <2>2, <1>3, <1>7
<1>13. MovedUp'
  <2> SUFFICES ASSUME NEW i \in 1 .. N - n
               PROVE  i - 1 <= pq'[i].ahead
    BY <1>3 DEF MovedUp
  <2>1. i + n \in 1 .. N /\ (i + n) - 1 <= pq[i + n].ahead /\ pq[i + n].ahead \in Nat
    BY <1>3, <1>7, <1>10
  <2> QED
    BY <2>1, <1>1, <1>3
<1>14. LatencyKept'
  <2> SUFFICES ASSUME NEW i \in 1 .. N - n
               PROVE  /\ pq'[i].left < latency
                      /\ pq'[i].left > 0 => pq'[i].age + pq'[i].left = latency - 1
                      /\ pq'[i].left = 0 => pq'[i].age >= latency - 1
    BY <1>3 DEF LatencyKept
  <2>1. i + n \in 1 .. N
    BY <1>3
  <2> DEFINE l == pq[i + n].left
             a == pq[i + n].age
  <2>2. l \in Nat /\ a \in Nat /\ l < latency /\ (l > 0 => a + l = latency - 1)
        /\ (l = 0 => a >= latency - 1)
    BY <2>1, <1>7, <1>8
  <2>3. pq'[i].left = (IF l > 0 THEN l - 1 ELSE 0) /\ pq'[i].age = a + 1
    BY <1>3
  <2> HIDE DEF l, a
  <2> QED
    BY <2>2, <2>3, <1>5
<1>15. ASSUME NEW i \in 1 .. N - n, Waited(i)' > 0
       PROVE  /\ Waited(i)' = Waited(i + n) + 1 /\ Waited(i + n) \in Nat
              /\ request_count + n = max_req_per_epoch
  <2>1. i + n \in 1 .. N /\ n + 1 \in 1 .. N /\ n + 1 <= i + n /\ n < N
    BY <1>1, <1>3
  <2>2. pq'[i].age = pq[i + n].age + 1 /\ pq[i + n].age \in Nat /\ pq[i + n].left \in Nat
    BY <2>1, <1>3, <1>7
  <2>3. Waited(i)' = Waited(i + n) + 1
    BY <2>2, <1>5 DEF Waited
  <2>4. pq[i + n].age + 2 - latency > 0
    BY <1>15, <2>2, <1>5 DEF Waited
  <2>5. pq[i + n].left = 0
    <3>1. pq[i + n].left > 0 => pq[i + n].age + pq[i + n].left = latency - 1
      BY <2>1, <1>8
    <3> QED
      BY <3>1, <2>2, <2>4, <1>5
  <2>6. pq[n + 1].left = 0
    <3>1. pq[n + 1].left <= pq[i + n].left /\ pq[n + 1].left \in Nat
      BY <2>1, <1>7, <1>9
    <3> QED
      BY <3>1, <2>5
  <2>7. request_count + n = max_req_per_epoch
    BY <2>1, <2>6, <1>1, <1>2, <1>5
  <2> QED
    BY <2>2, <2>3, <2>4, <2>7, <1>5 DEF Waited
<1>16. SlotsUsed'
  <2> SUFFICES ASSUME NEW i \in 1 .. N - n, Waited(i)' > 0
               PROVE  cycles' = 0 \/ request_count' = max_req_per_epoch
    BY <1>3 DEF SlotsUsed
  <2> QED
    BY <1>4, <1>6, <1>15
<1>17. Place' = cycles + 1 /\ (cycles # 0 => Place = cycles) /\ (cycles = 0 => Place = epoch_length)
  BY <1>5, <1>6 DEF Place
<1>18. EpochsCounted'
  <2> SUFFICES ASSUME NEW i \in 1 .. N - n, Waited(i)' > 0
               PROVE  \E k \in Nat : /\ k * max_req_per_epoch <= pq'[i].ahead - (i - 1)
                                     /\ Waited(i)' <= k * epoch_length + Place' - 1
    BY <1>3 DEF EpochsCounted
  <2> DEFINE h == pq[i + n].ahead
             v == Waited(i + n)
             m == max_req_per_epoch
  <2>1. Waited(i)' = v + 1 /\ v \in Nat /\ request_count + n = m
    BY <1>15
  <2>2. i + n \in 1 .. N /\ h \in Nat /\ (i + n) - 1 <= h /\ pq'[i].ahead = h
    BY <1>3, <1>7, <1>10
  <2>3. cycles = 0 => n = m
    BY <2>1, <1>1, <1>5 DEF QInv, FreshEpoch
  <2>4. v > 0 => \E k \in Nat : /\ k * m <= h - ((i + n) - 1)
                                /\ v <= k * epoch_length + Place - 1
    <3>1. Waited(i + n) > 0 =>
            \E k \in Nat : /\ k * max_req_per_epoch <= pq[i + n].ahead - ((i + n) - 1)
                           /\ Waited(i + n) <= k * epoch_length + Place - 1
      BY <2>2, <1>11
    <3> QED
      BY <3>1, Zenon
  <2> HIDE DEF h, v, m
  <2>5. m \in Nat \ {0}
    BY <1>1 DEF m
  <2>6. \E k \in Nat : k * m <= h - (i - 1) /\ v + 1 <= k * epoch_length + cycles
    <3>1. CASE v = 0 /\ cycles = 0
      <4>1. 1 * m <= h - (i - 1) /\ v + 1 <= 1 * epoch_length + cycles
        BY <3>1, <2>2, <2>3, <2>5, <1>1, <1>5
      <4> QED
        BY <4>1
    <3>2. CASE v = 0 /\ cycles # 0
      <4>1. 0 * m <= h - (i - 1) /\ v + 1 <= 0 * epoch_length + cycles
        BY <3>2, <2>2, <2>5, <1>1, <1>5
      <4> QED
        BY <4>1
    <3>3. CASE v > 0
      <4>1. PICK k \in Nat : k * m <= h - ((i + n) - 1) /\ v <= k * epoch_length + Place - 1
        BY <3>3, <2>4
      <4>2. /\ k * m \in Nat /\ k * epoch_length \in Nat
            /\ (k + 1) * m = k * m + m /\ (k + 1) * epoch_length = k * epoch_length + epoch_length
        BY <2>5, <1>5
      <4>3. CASE cycles = 0
        <5>1. (k + 1) * m <= h - (i - 1)
          BY <4>1, <4>2, <4>3, <2>2, <2>3, <2>5, <1>1
        <5>2. v + 1 <= (k + 1) * epoch_length + cycles
          BY <4>1, <4>2, <4>3, <2>1, <1>5, <1>17
        <5> QED
          BY <5>1, <5>2
      <4>4. CASE cycles # 0
        <5>1. k * m <= h - (i - 1)
          BY <4>1, <4>2, <2>2, <1>1
        <5>2. v + 1 <= k * epoch_length + cycles
          BY <4>1, <4>2, <4>4, <2>1, <1>5, <1>17
        <5> QED
          BY <5>1, <5>2
      <4> QED
        BY <4>3, <4>4
    <3> QED
      BY <3>1, <3>2, <3>3, <2>1
  <2>7. PICK k \in Nat : k * m <= h - (i - 1) /\ v + 1 <= k * epoch_length + cycles
    BY <2>6
  <2>8. k * epoch_length \in Nat
    BY <1>5
  <2>9. Waited(i)' <= k * epoch_length + Place' - 1
    BY <2>1, <2>7, <2>8, <1>5, <1>17
  <2> QED
    BY <2>2, <2>7, <2>9 DEF m
<1>19. FreshEpoch'
  BY <1>4, <1>5, <1>6 DEF FreshEpoch
<1> QED
  BY <1>3, <1>12, <1>13, <1>14, <1>16, <1>18, <1>19 DEF QInv

\* Every step keeps the invariant.
LEMMA NextQInv == QInv /\ [QueueNext]_queueVars => QInv'
<1> SUFFICES ASSUME QInv, [QueueNext]_queueVars
             PROVE  QInv'
  OBVIOUS
<1>1. CASE process
  BY <1>1, ProcessQInv
<1>2. ASSUME NEW w \in BOOLEAN, addTransaction(w)
      PROVE  QInv'
  BY <1>2, AddQInv
<1>3. CASE UNCHANGED queueVars
  BY <1>3 DEF queueVars, QInv, QueueType, EarlierFirst, MovedUp, LatencyKept, SlotsUsed,
              EpochsCounted, FreshEpoch, Waited, Place
<1> QED
  BY <1>1, <1>2, <1>3 DEF QueueNext

\* What the invariant says of a waiting transaction is the promise.
LEMMA QInvServed == QInv => ServedInTime
<1> SUFFICES ASSUME QInv, NEW i \in 1 .. Len(pq)
             PROVE  pq[i].age < latency + (pq[i].ahead \div max_req_per_epoch) * epoch_length
                                 + epoch_length - 1
  BY DEF ServedInTime
<1> DEFINE a == pq[i].age
           h == pq[i].ahead
           m == max_req_per_epoch
           q == h \div m
<1>1. /\ i \in Nat /\ i >= 1 /\ a \in Nat /\ h \in Nat /\ m \in Nat \ {0}
      /\ latency \in Nat \ {0} /\ epoch_length \in Nat \ {0} /\ Place \in 1 .. epoch_length
  BY QueueEntries, OneSlot, DramAssumption DEF QInv, QueueType, Place
<1>2. Waited(i) > 0 => \E k \in Nat : /\ k * m <= h - (i - 1)
                                      /\ Waited(i) <= k * epoch_length + Place - 1
  BY DEF QInv, EpochsCounted
<1>3. Waited(i) = a + 1 - latency
  BY DEF Waited
<1> HIDE DEF a, h, m
<1>4. q \in Nat /\ \A k \in Nat : k * m <= h => k <= q
  <2>1. 0 * m <= h
    BY <1>1
  <2> QED
    BY <2>1, <1>1, QuotientIsLargest
<1> HIDE DEF q
<1>5. q * epoch_length \in Nat
  BY <1>1, <1>4
<1>6. CASE Waited(i) > 0
  <2>1. PICK k \in Nat : k * m <= h - (i - 1) /\ Waited(i) <= k * epoch_length + Place - 1
    BY <1>2, <1>6
  <2>2. k * m \in Nat /\ k * m <= h
    BY <2>1, <1>1
  <2>3. k * epoch_length <= q * epoch_length /\ k * epoch_length \in Nat
    BY <2>2, <1>1, <1>4, ProductGrows
  <2>4. a < latency + q * epoch_length + epoch_length - 1
    BY <2>1, <2>3, <1>1, <1>3, <1>5
  <2> QED
    BY <2>4 DEF a, h, m, q
<1>7. CASE ~(Waited(i) > 0)
  <2>1. a < latency + q * epoch_length + epoch_length - 1
    BY <1>1, <1>3, <1>5, <1>7
  <2> QED
    BY <2>1 DEF a, h, m, q
<1> QED
  BY <1>6, <1>7

\* SimpleDRAM::process starves no transaction and loses no slot at the turn of
\* an epoch: beyond its latency a transaction waits less than one epoch, and
\* one more for every max_req_per_epoch transactions under way before it, for
\* every latency, bandwidth, clock, epoch and rate of arrival.
THEOREM TransactionsServed == QueueSpec => []ServedInTime
<1>1. QueueInit => QInv
  BY InitQInv
<1>2. QInv /\ [QueueNext]_queueVars => QInv'
  BY NextQInv
<1>3. QInv => ServedInTime
  BY QInvServed
<1> QED
  BY <1>1, <1>2, <1>3, PTL DEF QueueSpec

-----------------------------------------------------------------------------
(* Traces.                                                                 *)

-----------------------------------------------------------------------------
(* The pieces of a block.                                                  *)

\* A finite set of numbers has a k-th one for every k below its size.
LEMMA RankExists ==
    ASSUME NEW n \in Nat, NEW S \in SUBSET (1 .. n), NEW k \in 0 .. Cardinality(S) - 1
    PROVE  \E i \in S : Cardinality({j \in S : j < i}) = k
<1> DEFINE below(i) == {j \in S : j < i}
           upto(m) == S \cap (1 .. m)
           P(m) == \A r \in 0 .. Cardinality(upto(m)) - 1 : \E i \in S : Cardinality(below(i)) = r
           M == {m \in Nat : P(m)}
<1>1. IsFiniteSet(S)
  <2>1. IsFiniteSet(1 .. n)
    BY FS_Interval
  <2> QED
    BY <2>1, FS_Subset
<1>2. \A m \in Nat : IsFiniteSet(upto(m)) /\ Cardinality(upto(m)) \in Nat
  BY <1>1, FS_Subset, FS_CardinalityType
<1>3. 0 \in M
  <2>1. upto(0) = {}
    OBVIOUS
  <2>2. Cardinality(upto(0)) = 0
    BY <2>1, FS_EmptySet
  <2> HIDE DEF upto
  <2> QED
    BY <2>2
<1>4. ASSUME NEW m \in M PROVE m + 1 \in M
  <2>1. m \in Nat /\ P(m)
    OBVIOUS
  <2>2. CASE m + 1 \notin S
    <3>1. upto(m + 1) = upto(m)
      BY <2>1, <2>2
    <3> QED
      BY <2>1, <3>1
  <2>3. CASE m + 1 \in S
    <3>1. upto(m + 1) = upto(m) \cup {m + 1} /\ m + 1 \notin upto(m)
      BY <2>1, <2>3
    <3>2. below(m + 1) = upto(m)
      <4>1. \A j \in S : j \in Nat /\ 1 <= j
        OBVIOUS
      <4>2. \A j \in S : j < m + 1 <=> j \in 1 .. m
        BY <2>1, <4>1
      <4> QED
        BY <4>2
    <3>3. Cardinality(upto(m + 1)) = Cardinality(upto(m)) + 1
      BY <1>2, <2>1, <3>1, FS_AddElement
    <3> DEFINE a == Cardinality(upto(m))  a1 == Cardinality(upto(m + 1))
    <3>4. a \in Nat /\ a1 = a + 1
      BY <1>2, <2>1, <3>3
    <3>5. \A r \in 0 .. a - 1 : \E i \in S : Cardinality(below(i)) = r
      BY <2>1
    <3>6. Cardinality(below(m + 1)) = a
      BY <3>2
    <3> HIDE DEF a, a1, below, upto
    <3>7. \A r \in 0 .. a1 - 1 : \E i \in S : Cardinality(below(i)) = r
      BY <2>3, <3>4, <3>5, <3>6
    <3> QED
      BY <2>1, <3>7 DEF a1
  <2> QED
    BY <2>2, <2>3
<1>5. M \in SUBSET Nat
  OBVIOUS
<1> HIDE DEF M
<1>6. M = Nat
  BY <1>3, <1>4, <1>5, InductiveSet
<1>7. P(n)
  BY <1>6 DEF M
<1>8. upto(n) = S
  OBVIOUS
<1> QED
  BY <1>7, <1>8

SourceInsn == [kind : Kinds, to : Seq(DOMAIN Source)]
PieceInsn == [kind : Kinds, to : Seq(Pieces)]

LEMMA BlockIs ==
    ASSUME NEW b \in DOMAIN Source
    PROVE  /\ Source[b] \in Seq(SourceInsn) /\ Len(Source[b]) \in Nat \ {0}
           /\ DOMAIN Source[b] = 1 .. Len(Source[b])
           /\ \A i \in 1 .. Len(Source[b]) :
                 Source[b][i] \in SourceInsn
                 /\ (Source[b][i].kind \in Terminators <=> i = Len(Source[b]))
<1>1. Source[b] \in Seq(SourceInsn) /\ Source[b] # <<>>
  BY ProgramAssumption DEF SourceInsn
<1>2. Len(Source[b]) \in Nat /\ DOMAIN Source[b] = 1 .. Len(Source[b]) /\ Len(Source[b]) # 0
  BY <1>1, LenProperties, EmptySeq
<1>3. \A i \in 1 .. Len(Source[b]) : Source[b][i] \in SourceInsn
  BY <1>1, <1>2, ElementOfSeq
<1>4. \A i \in 1 .. Len(Source[b]) : Source[b][i].kind \in Terminators <=> i = Len(Source[b])
  BY <1>2, ProgramAssumption
<1> QED
  BY <1>1, <1>2, <1>3, <1>4

LEMMA StartsAre ==
    ASSUME NEW b \in DOMAIN Source
    PROVE  /\ PieceStarts(b) \in SUBSET (1 .. Len(Source[b])) /\ IsFiniteSet(PieceStarts(b))
           /\ Cardinality(PieceStarts(b)) \in Nat \ {0}
<1>1. DOMAIN Source[b] = 1 .. Len(Source[b]) /\ Len(Source[b]) \in Nat \ {0}
  BY BlockIs
<1>2. PieceStarts(b) \in SUBSET (1 .. Len(Source[b])) /\ 1 \in PieceStarts(b)
  BY <1>1 DEF PieceStarts
<1>3. IsFiniteSet(PieceStarts(b))
  <2>1. IsFiniteSet(1 .. Len(Source[b]))
    BY <1>1, FS_Interval
  <2> QED
    BY <1>2, <2>1, FS_Subset
<1>4. Cardinality(PieceStarts(b)) \in Nat /\ Cardinality(PieceStarts(b)) # 0
  BY <1>2, <1>3, FS_CardinalityType, FS_EmptySet
<1> QED
  BY <1>2, <1>3, <1>4

LEMMA PieceIs ==
    ASSUME NEW b, NEW k
    PROVE  <<b, k>> \in Pieces <=> b \in DOMAIN Source /\ k \in 0 .. Cardinality(PieceStarts(b)) - 1
BY DEF Pieces

LEMMA NthIs ==
    ASSUME NEW b \in DOMAIN Source, NEW k \in 0 .. Cardinality(PieceStarts(b)) - 1
    PROVE  /\ NthStart(b, k) \in 1 .. Len(Source[b])
           /\ NthStart(b, k) \in PieceStarts(b)
           /\ Cardinality({j \in PieceStarts(b) : j < NthStart(b, k)}) = k
<1>1. PieceStarts(b) \in SUBSET (1 .. Len(Source[b])) /\ Len(Source[b]) \in Nat
  BY BlockIs, StartsAre
<1>2. \E i \in PieceStarts(b) : Cardinality({j \in PieceStarts(b) : j < i}) = k
  BY <1>1, RankExists
<1>3. NthStart(b, k) \in PieceStarts(b) /\ Cardinality({j \in PieceStarts(b) : j < NthStart(b, k)}) = k
  BY <1>2 DEF NthStart
<1> QED
  BY <1>1, <1>3

LEMMA NthRises ==
    ASSUME NEW b \in DOMAIN Source, NEW k \in Nat, k + 1 \in 0 .. Cardinality(PieceStarts(b)) - 1
    PROVE  NthStart(b, k) < NthStart(b, k + 1)
<1> DEFINE S == PieceStarts(b)  i == NthStart(b, k)  i2 == NthStart(b, k + 1)
           B == {j \in S : j < i}  B2 == {j \in S : j < i2}
<1>1. Cardinality(S) \in Nat /\ S \in SUBSET (1 .. Len(Source[b])) /\ IsFiniteSet(S)
  BY StartsAre
<1>2. k \in 0 .. Cardinality(S) - 1
  BY <1>1
<1>3. i \in S /\ Cardinality(B) = k
  BY <1>2, NthIs
<1>4. i2 \in S /\ Cardinality(B2) = k + 1
  BY NthIs
<1>5. i \in Int /\ i2 \in Int /\ \A j \in S : j \in Int
  BY <1>1, <1>3, <1>4
<1> SUFFICES ASSUME ~(i < i2) PROVE FALSE
  OBVIOUS
<1>6. B2 \in SUBSET B /\ IsFiniteSet(B)
  BY <1>1, <1>5, FS_Subset
<1>7. Cardinality(B2) <= Cardinality(B)
  BY <1>6, FS_Subset
<1> QED
  BY <1>3, <1>4, <1>7

WholeBlock(b) == [i \in DOMAIN Source[b] |-> Retarget(Source[b][i])]

LEMMA WholeIs ==
    ASSUME NEW b \in DOMAIN Source
    PROVE  /\ WholeBlock(b) \in Seq(PieceInsn) /\ Len(WholeBlock(b)) = Len(Source[b])
           /\ \A i \in 1 .. Len(Source[b]) :
                 WholeBlock(b)[i] \in PieceInsn
                 /\ (WholeBlock(b)[i].kind \in Terminators <=> i = Len(Source[b]))
<1> DEFINE n == Len(Source[b])
<1>1. n \in Nat /\ DOMAIN Source[b] = 1 .. n
  BY BlockIs
<1>2. ASSUME NEW i \in 1 .. n PROVE Retarget(Source[b][i]) \in PieceInsn /\ Retarget(Source[b][i]).kind = Source[b][i].kind
  <2> DEFINE x == Source[b][i]
  <2>1. x \in SourceInsn
    BY BlockIs
  <2> HIDE DEF x
  <2> DEFINE to == [k \in DOMAIN x.to |-> <<x.to[k], 0>>]
  <2>2. x.to \in Seq(DOMAIN Source) /\ x = [kind |-> x.kind, to |-> x.to] /\ x.kind \in Kinds
    BY <2>1 DEF SourceInsn
  <2>3. DOMAIN x.to = 1 .. Len(x.to) /\ Len(x.to) \in Nat /\ \A k \in 1 .. Len(x.to) : x.to[k] \in DOMAIN Source
    BY <2>2, LenProperties, ElementOfSeq
  <2>4. \A k \in 1 .. Len(x.to) : <<x.to[k], 0>> \in Pieces
    <3> SUFFICES ASSUME NEW k \in 1 .. Len(x.to) PROVE <<x.to[k], 0>> \in Pieces
      OBVIOUS
    <3>1. x.to[k] \in DOMAIN Source
      BY <2>3
    <3>2. 0 \in 0 .. Cardinality(PieceStarts(x.to[k])) - 1
      BY <3>1, StartsAre
    <3> QED
      BY <3>1, <3>2, PieceIs
  <2>5. to \in Seq(Pieces)
    <3>1. to \in [1 .. Len(x.to) -> Pieces]
      BY <2>3, <2>4
    <3> QED
      BY <2>3, <3>1, SeqDef
  <2>6. Retarget(x) = [kind |-> x.kind, to |-> to]
    <3>1. Retarget(x) = [x EXCEPT !.to = to]
      BY DEF Retarget
    <3> HIDE DEF to
    <3> QED
      BY <2>2, <3>1
  <2> QED
    BY <2>2, <2>5, <2>6 DEF x, PieceInsn
<1>3. WholeBlock(b) \in [1 .. n -> PieceInsn]
  BY <1>1, <1>2 DEF WholeBlock
<1>4. WholeBlock(b) \in Seq(PieceInsn) /\ Len(WholeBlock(b)) = n
  BY <1>1, <1>3, SeqDef, LenProperties
<1>5. \A i \in 1 .. n : WholeBlock(b)[i] \in PieceInsn /\ WholeBlock(b)[i].kind = Source[b][i].kind
  BY <1>1, <1>2 DEF WholeBlock
<1> QED
  BY <1>4, <1>5, BlockIs

WellFormed(c) ==
    /\ c \in Seq(PieceInsn) /\ Len(c) \in Nat \ {0}
    /\ \A i \in 1 .. Len(c) : c[i] \in PieceInsn /\ (c[i].kind \in Terminators <=> i = Len(c))

LEMMA SplitIs ==
    ASSUME NEW p \in Pieces
    PROVE  WellFormed(SplitProgram[p])
<1>1. PICK b \in DOMAIN Source, k \in Nat : p = <<b, k>> /\ k \in 0 .. Cardinality(PieceStarts(b)) - 1
  BY DEF Pieces
<1> DEFINE n == Len(Source[b])  w == WholeBlock(b)  i == NthStart(b, k)  i2 == NthStart(b, k + 1)
           jump == [kind |-> "br", to |-> <<<<b, k + 1>>>>]
<1>2. /\ n \in Nat \ {0} /\ w \in Seq(PieceInsn) /\ Len(w) = n
      /\ \A j \in 1 .. n : w[j] \in PieceInsn /\ (w[j].kind \in Terminators <=> j = n)
  BY BlockIs, WholeIs
<1>3. i \in 1 .. n
  BY <1>1, NthIs
<1>4. SplitProgram[p] = IF <<b, k + 1>> \in Pieces THEN SubSeq(w, i, i2 - 1) \o <<jump>>
                        ELSE SubSeq(w, i, Len(w))
  BY <1>1 DEF SplitProgram, WholeBlock
<1>5. CASE <<b, k + 1>> \in Pieces
  <2>1. k \in Nat /\ k + 1 \in 0 .. Cardinality(PieceStarts(b)) - 1
    BY <1>5, PieceIs, StartsAre
  <2>2. i2 \in 1 .. n /\ i < i2
    BY <2>1, NthIs, NthRises
  <2>3. jump \in PieceInsn /\ jump.kind \in Terminators
    BY <1>5 DEF PieceInsn, Kinds, Terminators
  <2> DEFINE s == SubSeq(w, i, i2 - 1)  c == s \o <<jump>>
  <2> HIDE DEF n, w, i, i2, jump
  <2>4. /\ s \in Seq(PieceInsn) /\ Len(s) = i2 - i
        /\ \A j \in 1 .. i2 - i : s[j] = w[i + j - 1] /\ i + j - 1 \in 1 .. n /\ i + j - 1 # n
    <3>1. \A j \in i .. i2 - 1 : j \in 1 .. Len(w)
      BY <1>2, <1>3, <2>2
    <3>2. i \in Int /\ i2 - 1 \in Int /\ i2 \in Int
      BY <1>3, <2>2
    <3>3. /\ s \in Seq(PieceInsn)
          /\ Len(s) = IF i <= i2 - 1 THEN (i2 - 1) - i + 1 ELSE 0
          /\ \A j \in 1 .. (i2 - 1) - i + 1 : s[j] = w[i + j - 1]
      BY <1>2, <1>3, <2>2, <3>1, <3>2, SubSeqProperties
    <3>4. \A j \in 1 .. i2 - i : i + j - 1 \in 1 .. n /\ i + j - 1 # n
      BY <1>2, <1>3, <2>2
    <3>5. i <= i2 - 1 /\ (i2 - 1) - i + 1 = i2 - i
      BY <2>2, <3>2
    <3>6. Len(s) = i2 - i /\ \A j \in 1 .. i2 - i : s[j] = w[i + j - 1]
      BY <3>3, <3>5
    <3> QED
      BY <3>3, <3>4, <3>6
  <2> HIDE DEF s
  <2>5. /\ c \in Seq(PieceInsn) /\ Len(c) = (i2 - i) + 1
        /\ \A j \in 1 .. i2 - i : c[j] = s[j]
        /\ c[(i2 - i) + 1] = jump
    <3>1. <<jump>> \in Seq(PieceInsn) /\ Len(<<jump>>) = 1 /\ <<jump>>[1] = jump
      BY <2>3
    <3>2. i2 - i \in Nat
      BY <1>2, <1>3, <2>2
    <3> QED
      BY <2>4, <3>1, <3>2, ConcatProperties
  <2>6. i2 - i \in Nat \ {0}
    BY <1>2, <1>3, <2>2
  <2>7. \A j \in 1 .. i2 - i : c[j] \in PieceInsn /\ c[j].kind \notin Terminators
    BY <1>2, <2>4, <2>5
  <2> HIDE DEF c
  <2>8. WellFormed(c)
    BY <2>3, <2>5, <2>6, <2>7 DEF WellFormed
  <2> QED
    BY <1>4, <1>5, <2>8 DEF c, s
<1>6. CASE <<b, k + 1>> \notin Pieces
  <2> DEFINE c == SubSeq(w, i, n)
  <2> HIDE DEF n, w, i, i2, jump
  <2>1. /\ c \in Seq(PieceInsn) /\ Len(c) = n - i + 1
        /\ \A j \in 1 .. n - i + 1 : c[j] = w[i + j - 1]
    <3>1. \A j \in i .. n : j \in 1 .. Len(w)
      BY <1>2, <1>3
    <3>2. i \in Int /\ n \in Int /\ i <= n
      BY <1>2, <1>3
    <3> QED
      BY <1>2, <3>1, <3>2, SubSeqProperties
  <2>2. n - i + 1 \in Nat \ {0}
    BY <1>2, <1>3
  <2>3. \A j \in 1 .. n - i + 1 : i + j - 1 \in 1 .. n /\ (i + j - 1 = n <=> j = n - i + 1)
    BY <1>2, <1>3
  <2> HIDE DEF c
  <2>4. \A j \in 1 .. Len(c) : c[j] \in PieceInsn /\ (c[j].kind \in Terminators <=> j = Len(c))
    BY <1>2, <2>1, <2>2, <2>3
  <2>5. WellFormed(c)
    BY <2>1, <2>2, <2>4 DEF WellFormed
  <2> QED
    BY <1>2, <1>4, <1>6, <2>5 DEF c
<1> QED
  BY <1>5, <1>6

-----------------------------------------------------------------------------
(* The inductive invariant.                                                *)

\* Places in the program, and those in the middle of a block.
Places == {a \in Pieces \X Nat : a[2] \in 1 .. Len(SplitProgram[a[1]])}
Later == {a \in Places : a[2] > 1}

\* How many blocks p callers are in the middle of, and whether a is in the middle of one.
Opened(stack, p) == Cardinality({i \in 1 .. Len(stack) : stack[i][1] = p})
Mid(a, p) == IF a[1] = p /\ a[2] > 1 THEN 1 ELSE 0

OnPath == Insns = SplitProgram /\ at \in Places \cup {Halted} /\ frames \in Seq(Later)

\* The tracer and the profiler cut the execution at the same places.
SameChunks ==
    /\ tgt_interval \in Nat /\ T_chunk \in Nat /\ interval = T_chunk
    /\ insn_count = TotalInstCount

\* Blocks are entered, left and under way in proportion while the chunk lasts, and what was
\* under way at its end stays what it was.
BlocksCounted ==
    /\ bb_count \in [Pieces -> Nat] /\ entered \in [Pieces -> Nat]
    /\ open \in [from : [Pieces -> Nat], to : [Pieces -> Nat]]
    /\ T_chunk < tgt_interval => bb_count = NoBlocks /\ entered = NoBlocks
    /\ T_chunk = tgt_interval =>
          \A p \in Pieces :
              entered[p] + open.from[p] = bb_count[p] + Opened(frames, p) + Mid(at, p)
    /\ T_chunk > tgt_interval =>
          \A p \in Pieces : bb_count[p] + open.to[p] = entered[p] + open.from[p]

TraceInv == simpoint /\ running => OnPath /\ SameChunks /\ BlocksCounted

LEMMA OpenedIs ==
    ASSUME NEW stack \in Seq(Later), NEW p
    PROVE  Opened(stack, p) \in Nat /\ IsFiniteSet({i \in 1 .. Len(stack) : stack[i][1] = p})
<1> DEFINE A == {i \in 1 .. Len(stack) : stack[i][1] = p}
<1>1. Len(stack) \in Nat
  BY LenProperties
<1>2. IsFiniteSet(1 .. Len(stack))
  BY <1>1, FS_Interval
<1>3. IsFiniteSet(A)
  BY <1>2, FS_Subset
<1> QED
  BY <1>3, FS_CardinalityType DEF Opened

LEMMA OpenedNone ==
    ASSUME NEW p
    PROVE  Opened(<<>>, p) = 0
<1>1. {i \in 1 .. Len(<<>>) : <<>>[i][1] = p} = {}
  BY EmptySeq
<1> QED
  BY <1>1, FS_EmptySet DEF Opened

LEMMA OpenedPush ==
    ASSUME NEW stack \in Seq(Later), NEW a \in Later, NEW p
    PROVE  /\ <<a>> \o stack \in Seq(Later)
           /\ Opened(<<a>> \o stack, p) = Opened(stack, p) + (IF a[1] = p THEN 1 ELSE 0)
<1> DEFINE n == Len(stack)  t == <<a>> \o stack
           A == {i \in 1 .. n : stack[i][1] = p}
           B == {i \in 2 .. n + 1 : t[i][1] = p}
           f == [i \in A |-> i + 1]
<1>1. n \in Nat /\ IsFiniteSet(A) /\ Cardinality(A) \in Nat
  BY LenProperties, OpenedIs DEF Opened
<1>2. /\ t \in Seq(Later) /\ Len(t) = n + 1 /\ t[1] = a
      /\ \A i \in 1 .. n : t[i + 1] = stack[i]
  <2>1. <<a>> \in Seq(Later) /\ Len(<<a>>) = 1 /\ <<a>>[1] = a
    OBVIOUS
  <2>2. /\ t \in Seq(Later) /\ Len(t) = 1 + n
        /\ \A i \in 1 .. 1 + n : t[i] = IF i <= 1 THEN <<a>>[i] ELSE stack[i - 1]
    BY <2>1, ConcatProperties
  <2> HIDE DEF t, n
  <2>3. 1 \in 1 .. 1 + n /\ \A i \in 1 .. n : i + 1 \in 1 .. 1 + n /\ ~(i + 1 <= 1) /\ (i + 1) - 1 = i
    BY <1>1
  <2>4. \A i \in 1 .. n : t[i + 1] = stack[i]
    BY <2>2, <2>3
  <2>5. t[1] = a
    BY <2>1, <2>2, <2>3
  <2> QED
    BY <1>1, <2>2, <2>4, <2>5
<1> HIDE DEF t, n
<1>3. f \in Bijection(A, B)
  <2>1. \A i \in A : f[i] = i + 1 /\ f[i] \in B
    BY <1>1, <1>2
  <2>2. \A i, j \in A : f[i] = f[j] => i = j
    BY <1>1, <2>1
  <2>3. \A k \in B : k - 1 \in A /\ f[k - 1] = k
    <3> SUFFICES ASSUME NEW k \in B PROVE k - 1 \in A /\ f[k - 1] = k
      OBVIOUS
    <3>1. k - 1 \in 1 .. n /\ (k - 1) + 1 = k /\ t[k][1] = p
      BY <1>1
    <3>2. t[k] = stack[k - 1]
      BY <1>2, <3>1
    <3> QED
      BY <3>1, <3>2
  <2> HIDE DEF f, A, B
  <2>4. f \in [A -> B]
    BY <2>1 DEF f
  <2> QED
    BY <2>2, <2>3, <2>4 DEF Bijection, Injection, Surjection, IsInjective
<1>4. IsFiniteSet(B) /\ Cardinality(B) = Cardinality(A)
  BY <1>1, <1>3, FS_Bijection DEF ExistsBijection
<1> DEFINE C == {i \in 1 .. n + 1 : t[i][1] = p}
<1>5. C = (IF a[1] = p THEN B \cup {1} ELSE B) /\ 1 \notin B
  <2>1. \A i \in 1 .. n + 1 : i = 1 \/ i \in 2 .. n + 1
    BY <1>1
  <2>2. \A i \in 2 .. n + 1 : i \in 1 .. n + 1 /\ i # 1
    BY <1>1
  <2>3. 1 \in 1 .. n + 1
    BY <1>1
  <2> QED
    BY <1>2, <2>1, <2>2, <2>3
<1>6. Cardinality(C) = Cardinality(B) + (IF a[1] = p THEN 1 ELSE 0)
  <2> HIDE DEF B, C
  <2>1. Cardinality(B) \in Nat /\ Cardinality(B \cup {1}) = Cardinality(B) + 1
    BY <1>1, <1>4, <1>5, FS_AddElement
  <2> QED
    BY <1>5, <2>1
<1> QED
  BY <1>2, <1>4, <1>6 DEF Opened, t, n

LEMMA OpenedPop ==
    ASSUME NEW stack \in Seq(Later), stack # <<>>, NEW p
    PROVE  /\ Head(stack) \in Later /\ Tail(stack) \in Seq(Later)
           /\ Opened(stack, p) = Opened(Tail(stack), p) + (IF Head(stack)[1] = p THEN 1 ELSE 0)
<1>1. Head(stack) \in Later /\ Tail(stack) \in Seq(Later)
  BY HeadTailProperties
<1>2. stack = <<Head(stack)>> \o Tail(stack)
  OBVIOUS
<1>3. Opened(<<Head(stack)>> \o Tail(stack), p)
          = Opened(Tail(stack), p) + (IF Head(stack)[1] = p THEN 1 ELSE 0)
  BY <1>1, OpenedPush
<1> QED
  BY <1>1, <1>2, <1>3

-----------------------------------------------------------------------------
(* The steps.                                                              *)

\* A place of the program, its instruction, and whether that ends its block.
LEMMA ExecutedIs ==
    ASSUME OnPath, at # Halted, simpoint
    PROVE  /\ at \in Places /\ at[1] \in Pieces /\ at[2] \in Nat \ {0} /\ at = <<at[1], at[2]>>
           /\ Len(Insns[at[1]]) \in Nat \ {0} /\ at[2] <= Len(Insns[at[1]])
           /\ Executed \in PieceInsn
           /\ Executed.kind \in Terminators <=> Leaving
<1>1. at \in Places /\ at \in Pieces \X Nat /\ at[2] \in 1 .. Len(SplitProgram[at[1]])
  BY DEF OnPath, Places
<1>2. at[1] \in Pieces /\ at[2] \in Nat /\ at = <<at[1], at[2]>>
  BY <1>1
<1>3. WellFormed(SplitProgram[at[1]]) /\ Insns[at[1]] = SplitProgram[at[1]]
  BY <1>2, SplitIs DEF OnPath
<1> DEFINE c == SplitProgram[at[1]]
<1> HIDE DEF c
<1>4. /\ Len(c) \in Nat \ {0} /\ at[2] \in 1 .. Len(c) /\ Executed = c[at[2]]
      /\ c[at[2]] \in PieceInsn /\ (c[at[2]].kind \in Terminators <=> at[2] = Len(c))
  BY <1>1, <1>2, <1>3 DEF c, WellFormed, Executed
<1>5. Leaving <=> at[2] = Len(c)
  BY <1>3 DEF Leaving, c
<1>6. Len(Insns[at[1]]) = Len(c)
  BY <1>3 DEF c
<1>7. at[2] # 0 /\ at[2] <= Len(c)
  BY <1>4
<1> QED
  BY <1>1, <1>2, <1>4, <1>5, <1>6, <1>7

LEMMA CountsUp ==
    ASSUME NEW f \in [Pieces -> Nat], NEW q \in Pieces
    PROVE  /\ [f EXCEPT ![q] = @ + 1] \in [Pieces -> Nat]
           /\ \A p \in Pieces : [f EXCEPT ![q] = @ + 1][p] = f[p] + (IF q = p THEN 1 ELSE 0)
  OBVIOUS

\* One instruction, whichever it is: the blocks entered and left are those counted.
LEMMA ExecuteKeeps ==
    ASSUME simpoint, running, OnPath, SameChunks, BlocksCounted, at # Halted,
           NEW records, NEW next \in Places \cup {Halted}, NEW stack \in Seq(Later),
           Execute(records, next, stack),
           \A p \in Pieces :
               Opened(stack, p) + Mid(next, p) + (IF Leaving /\ at[1] = p THEN 1 ELSE 0)
                   = Opened(frames, p) + (IF at[1] = p THEN 1 ELSE 0)
    PROVE  (OnPath /\ SameChunks /\ BlocksCounted)'
<1> DEFINE L == Len(Insns[at[1]])  q == at[1]
<1>1. q \in Pieces /\ at[2] \in Nat \ {0} /\ L \in Nat \ {0}
  BY ExecutedIs
<1>2. Insns' = Insns /\ at' = next /\ frames' = stack /\ tgt_interval' = tgt_interval
  BY DEF Execute
<1>3. OnPath'
  BY <1>2 DEF OnPath
<1> DEFINE tally == TotalInstCount + L  full == Leaving /\ tally >= Chunk
<1>4. /\ T_chunk' = IF full THEN T_chunk + 1 ELSE T_chunk
      /\ TotalInstCount' = IF full THEN 0 ELSE IF Leaving THEN tally ELSE TotalInstCount
      /\ open' = IF full THEN [from |-> IF T_chunk + 1 = tgt_interval THEN OpenBlocks ELSE open.from,
                               to |-> IF T_chunk = tgt_interval THEN OpenBlocks ELSE open.to]
                 ELSE open
  BY DEF Execute, update_insncount_interval
<1>5. /\ interval' = IF full THEN T_chunk + 1 ELSE T_chunk
      /\ insn_count' = IF full THEN 0 ELSE IF Leaving THEN tally ELSE TotalInstCount
      /\ bb_count' = IF Leaving /\ T_chunk = tgt_interval THEN [bb_count EXCEPT ![q] = @ + 1]
                     ELSE bb_count
  BY DEF Execute, profile_interface, ChunkFull, SameChunks
<1>6. entered' = IF at[2] = 1 /\ T_chunk = tgt_interval THEN [entered EXCEPT ![q] = @ + 1]
                 ELSE entered
  BY DEF Execute, update_dump_status, Entering, Recording
<1>7. SameChunks'
  BY <1>2, <1>4, <1>5 DEF SameChunks
<1>8. /\ T_chunk \in Nat /\ tgt_interval \in Nat
      /\ bb_count \in [Pieces -> Nat] /\ entered \in [Pieces -> Nat]
      /\ open.from \in [Pieces -> Nat] /\ open.to \in [Pieces -> Nat]
      /\ open = [from |-> open.from, to |-> open.to]
  BY DEF BlocksCounted, SameChunks
<1>9. OpenBlocks \in [Pieces -> Nat] /\ \A p \in Pieces : OpenBlocks[p] = Opened(frames, p)
  <2>1. frames \in Seq(Later) /\ DOMAIN frames = 1 .. Len(frames)
    BY LenProperties DEF OnPath
  <2>2. DOMAIN bb_count = Pieces
    BY <1>8
  <2>3. OpenBlocks = [p \in Pieces |-> Opened(frames, p)]
    BY <2>1, <2>2 DEF OpenBlocks, Opened
  <2>4. \A p \in Pieces : Opened(frames, p) \in Nat
    BY <2>1, OpenedIs
  <2> QED
    BY <2>3, <2>4
<1>10. /\ bb_count' \in [Pieces -> Nat]
       /\ \A p \in Pieces : bb_count'[p] = bb_count[p] + (IF Leaving /\ T_chunk = tgt_interval /\ q = p
                                                          THEN 1 ELSE 0)
  <2>1. CASE Leaving /\ T_chunk = tgt_interval
    <3>1. bb_count' = [bb_count EXCEPT ![q] = @ + 1]
      BY <1>5, <2>1
    <3> HIDE DEF q
    <3> QED
      BY <1>1, <1>8, <2>1, <3>1, CountsUp
  <2>2. CASE ~(Leaving /\ T_chunk = tgt_interval)
    <3>1. bb_count' = bb_count
      BY <1>5, <2>2
    <3>2. \A p \in Pieces : bb_count[p] + 0 = bb_count[p]
      BY <1>8
    <3> QED
      BY <1>8, <2>2, <3>1, <3>2
  <2> QED
    BY <2>1, <2>2
<1>11. /\ entered' \in [Pieces -> Nat]
       /\ \A p \in Pieces : entered'[p] = entered[p] + (IF at[2] = 1 /\ T_chunk = tgt_interval /\ q = p
                                                        THEN 1 ELSE 0)
  <2>1. CASE at[2] = 1 /\ T_chunk = tgt_interval
    <3>1. entered' = [entered EXCEPT ![q] = @ + 1]
      BY <1>6, <2>1
    <3> HIDE DEF q
    <3> QED
      BY <1>1, <1>8, <2>1, <3>1, CountsUp
  <2>2. CASE ~(at[2] = 1 /\ T_chunk = tgt_interval)
    <3>1. entered' = entered
      BY <1>6, <2>2
    <3>2. \A p \in Pieces : entered[p] + 0 = entered[p]
      BY <1>8
    <3> QED
      BY <1>8, <2>2, <3>1, <3>2
  <2> QED
    BY <2>1, <2>2
<1>12. open' \in [from : [Pieces -> Nat], to : [Pieces -> Nat]]
  BY <1>4, <1>8, <1>9
<1>13. ASSUME NEW p \in Pieces
       PROVE  /\ Opened(frames, p) \in Nat /\ Opened(stack, p) \in Nat
              /\ Mid(at, p) + (IF at[2] = 1 /\ q = p THEN 1 ELSE 0) = IF q = p THEN 1 ELSE 0
              /\ Mid(at, p) \in Nat /\ Mid(next, p) \in Nat
  <2>1. Opened(frames, p) \in Nat /\ Opened(stack, p) \in Nat
    BY OpenedIs DEF OnPath
  <2>2. Mid(at, p) \in Nat /\ Mid(next, p) \in Nat
    BY DEF Mid
  <2>3. at[2] = 1 \/ at[2] > 1
    BY <1>1
  <2>4. ~(at[2] = 1 /\ at[2] > 1)
    OBVIOUS
  <2>5. Mid(at, p) + (IF at[2] = 1 /\ q = p THEN 1 ELSE 0) = IF q = p THEN 1 ELSE 0
    BY <2>3, <2>4 DEF Mid
  <2> QED
    BY <2>1, <2>2, <2>5
<1> HIDE DEF full, tally, L, q
<1>14. ASSUME T_chunk' < tgt_interval'
       PROVE  bb_count' = NoBlocks /\ entered' = NoBlocks
  <2>1. T_chunk < tgt_interval
    BY <1>2, <1>4, <1>8, <1>14
  <2>2. T_chunk # tgt_interval
    BY <1>8, <2>1
  <2> QED
    BY <1>5, <1>6, <2>1, <2>2 DEF BlocksCounted
<1>15. ASSUME T_chunk' = tgt_interval', NEW p \in Pieces
       PROVE  entered'[p] + open'.from[p] = bb_count'[p] + Opened(frames', p) + Mid(at', p)
  <2>1. CASE full
    <3>1. T_chunk + 1 = tgt_interval /\ T_chunk < tgt_interval /\ T_chunk # tgt_interval
      BY <1>2, <1>4, <1>8, <1>15, <2>1
    <3>2. bb_count' = NoBlocks /\ entered' = NoBlocks
      BY <1>5, <1>6, <3>1 DEF BlocksCounted
    <3>3. entered'[p] = 0 /\ bb_count'[p] = 0
      BY <3>2 DEF NoBlocks
    <3>4. open'.from[p] = Opened(frames, p)
      BY <1>4, <1>9, <2>1, <3>1
    <3>5. Opened(stack, p) + Mid(next, p) = Opened(frames, p)
      <4>1. Leaving
        BY <2>1 DEF full
      <4> DEFINE a == Opened(stack, p)  b == Mid(next, p)  d == Opened(frames, p)  e == IF q = p THEN 1 ELSE 0
      <4>2. a + b + e = d + e
        BY <4>1 DEF q
      <4>3. a \in Nat /\ b \in Nat /\ d \in Nat /\ e \in Nat
        BY <1>13
      <4> HIDE DEF a, b, d, e
      <4>4. a + b = d
        BY <4>2, <4>3
      <4> QED
        BY <4>4 DEF a, b, d
    <3> QED
      BY <1>2, <1>13, <3>3, <3>4, <3>5
  <2>2. CASE ~full
    <3>1. T_chunk = tgt_interval /\ open' = open
      BY <1>2, <1>4, <1>15, <2>2
    <3> DEFINE a == Opened(stack, p)  b == Mid(next, p)  d == Opened(frames, p)  e == IF q = p THEN 1 ELSE 0
               l == IF Leaving /\ q = p THEN 1 ELSE 0  i == IF at[2] = 1 /\ q = p THEN 1 ELSE 0
               m == Mid(at, p)  n == entered[p]  f == open.from[p]  c == bb_count[p]
    <3>2. n + f = c + d + m
      BY <3>1 DEF BlocksCounted
    <3>3. a + b + l = d + e
      BY DEF q
    <3>4. m + i = e
      BY <1>13
    <3>5. entered'[p] = n + i /\ bb_count'[p] = c + l /\ open'.from[p] = f
      BY <1>10, <1>11, <3>1
    <3>6. a \in Nat /\ b \in Nat /\ d \in Nat /\ e \in Nat /\ l \in Nat /\ i \in Nat /\ m \in Nat
          /\ n \in Nat /\ f \in Nat /\ c \in Nat
      <4>1. n \in Nat /\ f \in Nat /\ c \in Nat
        BY <1>8
      <4>2. a \in Nat /\ b \in Nat /\ d \in Nat /\ m \in Nat
        BY <1>13
      <4>3. e \in Nat /\ l \in Nat /\ i \in Nat
        OBVIOUS
      <4> QED
        BY <4>1, <4>2, <4>3
    <3> HIDE DEF a, b, d, e, l, i, m, n, f, c
    <3>7. (n + i) + f = (c + l) + a + b
      BY <3>2, <3>3, <3>4, <3>6
    <3> QED
      BY <1>2, <3>5, <3>7 DEF a, b
  <2> QED
    BY <2>1, <2>2
<1>16. ASSUME T_chunk' > tgt_interval', NEW p \in Pieces
       PROVE  bb_count'[p] + open'.to[p] = entered'[p] + open'.from[p]
  <2>1. CASE T_chunk = tgt_interval
    <3>1. full
      BY <1>2, <1>4, <1>8, <1>16, <2>1
    <3>2. Leaving /\ T_chunk + 1 # tgt_interval
      BY <1>8, <2>1, <3>1 DEF full
    <3>3. open'.to[p] = Opened(frames, p) /\ open'.from[p] = open.from[p]
      BY <1>4, <1>9, <2>1, <3>1, <3>2
    <3> DEFINE d == Opened(frames, p)  e == IF q = p THEN 1 ELSE 0
               i == IF at[2] = 1 /\ q = p THEN 1 ELSE 0
               m == Mid(at, p)  n == entered[p]  f == open.from[p]  c == bb_count[p]
    <3>4. n + f = c + d + m
      BY <2>1 DEF BlocksCounted
    <3>5. m + i = e
      BY <1>13
    <3>6. entered'[p] = n + i /\ bb_count'[p] = c + e
      BY <1>10, <1>11, <2>1, <3>2
    <3>7. d \in Nat /\ e \in Nat /\ i \in Nat /\ m \in Nat /\ n \in Nat /\ f \in Nat /\ c \in Nat
      <4>1. n \in Nat /\ f \in Nat /\ c \in Nat
        BY <1>8
      <4>2. d \in Nat /\ m \in Nat
        BY <1>13
      <4>3. e \in Nat /\ i \in Nat
        OBVIOUS
      <4> QED
        BY <4>1, <4>2, <4>3
    <3> HIDE DEF d, e, i, m, n, f, c
    <3>8. (c + e) + d = (n + i) + f
      BY <3>4, <3>5, <3>7
    <3> QED
      BY <3>3, <3>6, <3>8 DEF d, f
  <2>2. CASE T_chunk # tgt_interval
    <3>1. T_chunk > tgt_interval /\ T_chunk + 1 # tgt_interval
      BY <1>2, <1>4, <1>8, <1>16, <2>2
    <3>2. bb_count' = bb_count /\ entered' = entered
      BY <1>5, <1>6, <2>2
    <3>3. open'.from = open.from /\ open'.to = open.to
      BY <1>4, <2>2, <3>1
    <3> QED
      BY <3>1, <3>2, <3>3 DEF BlocksCounted
  <2> QED
    BY <2>1, <2>2
<1>17. BlocksCounted'
  BY <1>10, <1>11, <1>12, <1>14, <1>15, <1>16 DEF BlocksCounted, NoBlocks
<1> QED
  BY <1>3, <1>7, <1>17

LEMMA FirstPlace ==
    ASSUME NEW p \in Pieces
    PROVE  <<p, 1>> \in Places /\ \A q : Mid(<<p, 1>>, q) = 0
<1>1. Len(SplitProgram[p]) \in Nat \ {0}
  BY SplitIs DEF WellFormed
<1>2. 1 \in 1 .. Len(SplitProgram[p])
  BY <1>1
<1> QED
  BY <1>2 DEF Places, Mid

LEMMA NextPlace ==
    ASSUME OnPath, at # Halted, simpoint, ~Leaving
    PROVE  /\ After(at) \in Later /\ After(at)[1] = at[1]
           /\ \A q : Mid(After(at), q) = IF at[1] = q THEN 1 ELSE 0
<1> DEFINE L == Len(Insns[at[1]])
<1>1. at[1] \in Pieces /\ at[2] \in Nat \ {0} /\ L \in Nat /\ at[2] <= L
  BY ExecutedIs
<1>2. at[2] # L
  BY DEF Leaving
<1>3. L = Len(SplitProgram[at[1]])
  BY DEF OnPath
<1> HIDE DEF L
<1>4. at[2] + 1 \in 1 .. L /\ at[2] + 1 > 1 /\ at[2] + 1 \in Nat
  BY <1>1, <1>2
<1>5. After(at) = <<at[1], at[2] + 1>>
  BY DEF After
<1>6. After(at) \in Later
  BY <1>1, <1>3, <1>4, <1>5 DEF Later, Places
<1> QED
  BY <1>4, <1>5, <1>6 DEF Mid

LEMMA TraceSteps ==
    ASSUME TraceInv, simpoint, running, TraceNext
    PROVE  (OnPath /\ SameChunks /\ BlocksCounted)'
<1>1. OnPath /\ SameChunks /\ BlocksCounted /\ frames \in Seq(Later)
  BY DEF TraceInv, OnPath
<1>2. \A p : Opened(frames, p) \in Nat
  BY <1>1, OpenedIs
<1>3. CASE runOn
  <2>1. at # Halted /\ Executed.kind \notin Terminators
    BY <1>3 DEF runOn, Terminators
  <2>2. ~Leaving
    BY <1>1, <2>1, ExecutedIs
  <2>3. After(at) \in Places /\ \A q : Mid(After(at), q) = IF at[1] = q THEN 1 ELSE 0
    BY <1>1, <2>1, <2>2, NextPlace DEF Later
  <2>4. PICK records : Execute(records, After(at), frames)
    BY <1>3 DEF runOn
  <2>5. \A p \in Pieces :
            Opened(frames, p) + Mid(After(at), p) + (IF Leaving /\ at[1] = p THEN 1 ELSE 0)
                = Opened(frames, p) + (IF at[1] = p THEN 1 ELSE 0)
    BY <1>2, <2>2, <2>3
  <2> QED
    BY <1>1, <2>1, <2>3, <2>4, <2>5, ExecuteKeeps
<1>4. CASE runRet
  <2>1. at # Halted /\ Executed.kind \in Terminators
    BY <1>4 DEF runRet, Terminators
  <2>2. Leaving
    BY <1>1, <2>1, ExecutedIs
  <2> DEFINE next == IF frames = <<>> THEN Halted ELSE Head(frames)
             stack == IF frames = <<>> THEN <<>> ELSE Tail(frames)
  <2>3. Execute(<<>>, next, stack)
    BY <1>4 DEF runRet
  <2>4. /\ next \in Places \cup {Halted} /\ stack \in Seq(Later)
        /\ \A p : Opened(stack, p) + Mid(next, p) = Opened(frames, p)
    <3>1. CASE frames = <<>>
      <4>1. next = Halted /\ stack = <<>> /\ stack \in Seq(Later)
        BY <3>1
      <4>2. \A p : Mid(Halted, p) = 0
        BY DEF Mid, Halted
      <4>3. \A p : Opened(frames, p) = 0 /\ Opened(stack, p) = 0
        BY <3>1, <4>1, OpenedNone
      <4> QED
        BY <4>1, <4>2, <4>3
    <3>2. CASE frames # <<>>
      <4>1. next = Head(frames) /\ stack = Tail(frames)
        BY <3>2
      <4>2. Head(frames) \in Later /\ Tail(frames) \in Seq(Later)
        BY <1>1, <3>2, HeadTailProperties
      <4>3. \A p : Opened(frames, p) = Opened(Tail(frames), p) + (IF Head(frames)[1] = p THEN 1 ELSE 0)
        BY <1>1, <3>2, OpenedPop
      <4>4. \A p : Mid(Head(frames), p) = IF Head(frames)[1] = p THEN 1 ELSE 0
        BY <4>2 DEF Later, Mid
      <4> QED
        BY <4>1, <4>2, <4>3, <4>4 DEF Later
    <3> QED
      BY <3>1, <3>2
  <2> HIDE DEF next, stack
  <2>5. \A p \in Pieces :
            Opened(stack, p) + Mid(next, p) + (IF Leaving /\ at[1] = p THEN 1 ELSE 0)
                = Opened(frames, p) + (IF at[1] = p THEN 1 ELSE 0)
    BY <2>2, <2>4
  <2> QED
    BY <1>1, <2>1, <2>3, <2>4, <2>5, ExecuteKeeps
<1>5. ASSUME NEW k \in 1 .. 3, runBranch(k)
      PROVE  (OnPath /\ SameChunks /\ BlocksCounted)'
  <2>1. at # Halted /\ Executed.kind \in Terminators /\ k \in DOMAIN Executed.to
    BY <1>5 DEF runBranch, Terminators
  <2>2. Leaving /\ Executed \in PieceInsn
    BY <1>1, <2>1, ExecutedIs
  <2>3. Executed.to[k] \in Pieces
    <3>1. Executed.to \in Seq(Pieces)
      BY <2>2 DEF PieceInsn
    <3> QED
      BY <2>1, <3>1, LenProperties, ElementOfSeq
  <2> DEFINE next == <<Executed.to[k], 1>>
  <2>4. next \in Places /\ \A q : Mid(next, q) = 0
    BY <2>3, FirstPlace
  <2>5. PICK records : Execute(records, next, frames)
    BY <1>5 DEF runBranch
  <2> HIDE DEF next
  <2>6. \A p \in Pieces :
            Opened(frames, p) + Mid(next, p) + (IF Leaving /\ at[1] = p THEN 1 ELSE 0)
                = Opened(frames, p) + (IF at[1] = p THEN 1 ELSE 0)
    BY <1>2, <2>2, <2>4
  <2> QED
    BY <1>1, <2>1, <2>4, <2>5, <2>6, ExecuteKeeps
<1>6. ASSUME NEW k \in 1 .. 3, runCall(k)
      PROVE  (OnPath /\ SameChunks /\ BlocksCounted)'
  <2>1. at # Halted /\ Executed.kind \notin Terminators /\ k \in DOMAIN Executed.to
    BY <1>6 DEF runCall, Terminators
  <2>2. ~Leaving /\ Executed \in PieceInsn
    BY <1>1, <2>1, ExecutedIs
  <2>3. Executed.to[k] \in Pieces
    <3>1. Executed.to \in Seq(Pieces)
      BY <2>2 DEF PieceInsn
    <3> QED
      BY <2>1, <3>1, LenProperties, ElementOfSeq
  <2> DEFINE next == <<Executed.to[k], 1>>  stack == <<After(at)>> \o frames
  <2>4. next \in Places /\ \A q : Mid(next, q) = 0
    BY <2>3, FirstPlace
  <2>5. After(at) \in Later /\ After(at)[1] = at[1]
    BY <1>1, <2>1, <2>2, NextPlace
  <2>6. stack \in Seq(Later)
    BY <1>1, <2>5, OpenedPush
  <2>7. \A p : Opened(stack, p) = Opened(frames, p) + (IF at[1] = p THEN 1 ELSE 0)
    BY <1>1, <2>5, OpenedPush
  <2>8. Execute(<<>>, next, stack)
    BY <1>6 DEF runCall
  <2> HIDE DEF next, stack
  <2>9. \A p \in Pieces :
            Opened(stack, p) + Mid(next, p) + (IF Leaving /\ at[1] = p THEN 1 ELSE 0)
                = Opened(frames, p) + (IF at[1] = p THEN 1 ELSE 0)
    BY <1>2, <2>2, <2>4, <2>7
  <2> QED
    BY <1>1, <2>1, <2>4, <2>6, <2>8, <2>9, ExecuteKeeps
<1> QED
  BY <1>3, <1>4, <1>5, <1>6 DEF TraceNext

-----------------------------------------------------------------------------
(* The theorem.                                                            *)

LEMMA InitTraceInv == WalkInit => TraceInv
<1> SUFFICES ASSUME WalkInit, simpoint PROVE OnPath /\ SameChunks /\ BlocksCounted
  BY DEF TraceInv
<1>1. /\ Insns = SplitProgram /\ tgt_interval \in Nat
      /\ at = <<<<Entry, 0>>, 1>> /\ frames = <<>> /\ TotalInstCount = 0 /\ T_chunk = 0
      /\ insn_count = 0 /\ interval = 0 /\ bb_count = NoBlocks
      /\ entered = NoBlocks /\ open = [from |-> NoBlocks, to |-> NoBlocks]
  BY BoundAssumption DEF WalkInit, TraceInit, Compiled
<1>2. <<Entry, 0>> \in Pieces
  <2>1. Entry \in DOMAIN Source
    BY ProgramAssumption
  <2>2. 0 \in 0 .. Cardinality(PieceStarts(Entry)) - 1
    BY <2>1, StartsAre
  <2> QED
    BY <2>1, <2>2, PieceIs
<1>3. at \in Places /\ \A p : Mid(at, p) = 0 /\ Opened(frames, p) = 0
  BY <1>1, <1>2, FirstPlace, OpenedNone
<1>4. OnPath /\ SameChunks
  BY <1>1, <1>3 DEF OnPath, SameChunks
<1>5. NoBlocks \in [Pieces -> Nat] /\ \A p \in Pieces : NoBlocks[p] = 0
  BY DEF NoBlocks
<1>6. BlocksCounted
  <2>1. ~(T_chunk > tgt_interval)
    BY <1>1
  <2>2. \A p \in Pieces : entered[p] = 0 /\ bb_count[p] = 0 /\ open.from[p] = 0
    BY <1>1, <1>5
  <2>3. \A p \in Pieces : entered[p] + open.from[p] = bb_count[p] + Opened(frames, p) + Mid(at, p)
    BY <1>3, <2>2
  <2> QED
    BY <1>1, <1>5, <2>1, <2>3 DEF BlocksCounted
<1> QED
  BY <1>4, <1>6

\* The walk of the simulator begins when the traced program has ended, and leaves what the
\* tracer and the profiler had counted alone.
LEMMA NextTraceInv == TraceInv /\ [WalkNext]_walkVars => TraceInv'
<1> SUFFICES ASSUME TraceInv, [WalkNext]_walkVars, simpoint', running'
             PROVE  (OnPath /\ SameChunks /\ BlocksCounted)'
  BY DEF TraceInv
<1> DEFINE Untouched == UNCHANGED <<simpoint, tgt_interval, Insns, running, at, frames, TotalInstCount, T_chunk,
                          profilerVars>>
<1>1. ASSUME Untouched PROVE (OnPath /\ SameChunks /\ BlocksCounted)'
  <2>1. /\ Insns' = Insns /\ at' = at /\ frames' = frames
        /\ tgt_interval' = tgt_interval /\ T_chunk' = T_chunk /\ interval' = interval
        /\ insn_count' = insn_count /\ TotalInstCount' = TotalInstCount
        /\ bb_count' = bb_count /\ entered' = entered /\ open' = open
    BY <1>1 DEF profilerVars
  <2>2. OnPath /\ SameChunks /\ BlocksCounted
    BY <1>1 DEF TraceInv
  <2>3. OnPath' /\ SameChunks'
    BY <2>1, <2>2 DEF OnPath, SameChunks
  <2>4. BlocksCounted'
    BY <2>1, <2>2 DEF BlocksCounted, NoBlocks
  <2> QED
    BY <2>3, <2>4
<1>2. CASE record
  <2>1. TraceNext
    BY <1>2 DEF record
  <2>2. simpoint' = simpoint /\ running' = running
    BY <2>1 DEF TraceNext, runOn, runRet, runBranch, runCall, Execute
  <2> QED
    BY <2>1, <2>2, TraceSteps
<1>3. CASE finish
  BY <1>3 DEF finish
<1>4. CASE TheRestOfTracing
  BY <1>1, <1>4 DEF TheRestOfTracing
<1>5. CASE UNCHANGED walkVars
  BY <1>1, <1>5 DEF walkVars, traceVars, tracerVars
<1>6. start \/ traceEnds \/ plain \/ branch \/ callOut \/ callIn \/ ret => TheRestOfTracing
  BY DEF start, traceEnds, plain, branch, callOut, callIn, ret
<1> QED
  BY <1>2, <1>3, <1>4, <1>5, <1>6 DEF WalkNext

\* For every program, chunk size and interval, the blocks the profiler counts in the chunk
\* that SimPoint chose are those the tracer recorded, but for the blocks that were under way
\* when it began and when it ended (profile_helper, log_helper).
THEOREM ChunkProfiled == WalkSpec => []ProfiledChunk
<1>1. TraceInv => ProfiledChunk
  <2> SUFFICES ASSUME TraceInv, simpoint, running, T_chunk > tgt_interval, NEW p \in DOMAIN bb_count
               PROVE  bb_count[p] + open.to[p] = entered[p] + open.from[p]
    BY DEF ProfiledChunk
  <2>1. BlocksCounted
    BY DEF TraceInv
  <2>2. DOMAIN bb_count = Pieces
    BY <2>1 DEF BlocksCounted
  <2> QED
    BY <2>1, <2>2 DEF BlocksCounted
<1> QED
  BY <1>1, InitTraceInv, NextTraceInv, PTL DEF WalkSpec

-----------------------------------------------------------------------------
(* Statistics.                                                             *)

(* Sums over sets of numbers.                                              *)

\* h[s] is the sum of m over s, for the sets s in S.
IsSum(h, S, m) ==
    /\ h \in [SUBSET S -> Nat] /\ h[{}] = 0
    /\ \A s \in SUBSET S : \A x \in s : h[s] = m[x] + h[s \ {x}]

LEMMA SumExists ==
    ASSUME NEW N \in Nat, NEW S \in SUBSET (1 .. N), NEW m \in [S -> Nat]
    PROVE  \E h : IsSum(h, S, m)
<1> DEFINE upto(n) == S \cap (1 .. n)
           P(n) == \E h : IsSum(h, upto(n), m)
           M == {n \in Nat : P(n)}
<1>1. 0 \in M
  <2>1. upto(0) = {}
    OBVIOUS
  <2> DEFINE h == [s \in SUBSET {} |-> 0]
  <2>2. IsSum(h, {}, m)
    BY DEF IsSum
  <2> QED
    BY <2>1, <2>2
<1>2. ASSUME NEW n \in M PROVE n + 1 \in M
  <2>1. n \in Nat
    OBVIOUS
  <2>2. PICK h : IsSum(h, upto(n), m)
    OBVIOUS
  <2>3. CASE n + 1 \notin S
    <3>1. upto(n + 1) = upto(n)
      BY <2>1, <2>3
    <3>2. IsSum(h, upto(n + 1), m)
      BY <2>2, <3>1
    <3>3. n + 1 \in Nat
      BY <2>1
    <3> HIDE DEF upto
    <3> QED
      BY <3>2, <3>3
  <2>4. CASE n + 1 \in S
    <3> DEFINE U == upto(n)  V == upto(n + 1)
               k == [s \in SUBSET V |-> h[s \cap U] + (IF n + 1 \in s THEN m[n + 1] ELSE 0)]
    <3>1. V = U \cup {n + 1} /\ n + 1 \notin U /\ U \in SUBSET S
      BY <2>1, <2>4
    <3>2. IsSum(h, U, m)
      BY <2>2
    <3> HIDE DEF U, V
    <3>3. k \in [SUBSET V -> Nat]
      <4>1. \A s \in SUBSET V : h[s \cap U] \in Nat
        BY <3>2 DEF IsSum
      <4>2. m[n + 1] \in Nat
        BY <2>4
      <4> QED
        BY <4>1, <4>2
    <3>4. k[{}] = 0
      <4>1. {} \cap U = {} /\ {} \in SUBSET V
        OBVIOUS
      <4> QED
        BY <3>2, <4>1 DEF IsSum
    <3>5. ASSUME NEW s \in SUBSET V, NEW x \in s PROVE k[s] = m[x] + k[s \ {x}]
      <4>1. k[s] = h[s \cap U] + (IF n + 1 \in s THEN m[n + 1] ELSE 0)
        OBVIOUS
      <4>2. k[s \ {x}] = h[(s \ {x}) \cap U] + (IF n + 1 \in s \ {x} THEN m[n + 1] ELSE 0)
        OBVIOUS
      <4>3. h[s \cap U] \in Nat /\ h[(s \ {x}) \cap U] \in Nat /\ m[n + 1] \in Nat
        BY <2>4, <3>2 DEF IsSum
      <4>4. CASE x = n + 1
        <5>1. (s \ {x}) \cap U = s \cap U
          BY <3>1, <4>4
        <5>2. n + 1 \in s /\ n + 1 \notin s \ {x}
          BY <4>4
        <5>3. k[s] = h[s \cap U] + m[n + 1]
          BY <4>1, <5>2
        <5>4. k[s \ {x}] = h[s \cap U]
          BY <4>2, <4>3, <5>1, <5>2
        <5> HIDE DEF k
        <5> QED
          BY <4>3, <4>4, <5>3, <5>4
      <4>5. CASE x # n + 1
        <5>1. x \in U /\ x \in S
          BY <3>1, <4>5
        <5>2. (s \ {x}) \cap U = (s \cap U) \ {x}
          OBVIOUS
        <5>3. s \cap U \in SUBSET U /\ x \in s \cap U
          BY <5>1
        <5>4. h[s \cap U] = m[x] + h[(s \cap U) \ {x}]
          BY <3>2, <5>3 DEF IsSum
        <5>5. n + 1 \in s <=> n + 1 \in s \ {x}
          BY <4>5
        <5>6. m[x] \in Nat
          BY <5>1
        <5> DEFINE e == IF n + 1 \in s THEN m[n + 1] ELSE 0
                   a == h[s \cap U]  b == h[(s \cap U) \ {x}]  c == m[x]
        <5>7. k[s] = a + e
          BY <4>1
        <5>8. k[s \ {x}] = b + e
          BY <4>2, <5>2, <5>5
        <5>9. a = c + b /\ a \in Nat /\ b \in Nat /\ c \in Nat
          BY <4>3, <5>2, <5>4, <5>6
        <5>10. e \in Nat
          BY <4>3
        <5> HIDE DEF a, b, c, e, k
        <5>11. k[s] = c + k[s \ {x}]
          BY <5>7, <5>8, <5>9, <5>10
        <5> QED
          BY <5>11 DEF c
      <4> QED
        BY <4>4, <4>5
    <3> HIDE DEF k
    <3>6. IsSum(k, V, m)
      BY <3>3, <3>4, <3>5 DEF IsSum
    <3> QED
      BY <2>1, <3>6 DEF V
  <2> QED
    BY <2>3, <2>4
<1>3. M \in SUBSET Nat
  OBVIOUS
<1> HIDE DEF M
<1>4. M = Nat
  BY <1>1, <1>2, <1>3, InductiveSet
<1>5. P(N)
  BY <1>4 DEF M
<1>6. upto(N) = S
  OBVIOUS
<1> QED
  BY <1>5, <1>6

\* What the report adds up is such a sum.
LEMMA SumIs ==
    ASSUME NEW S, IsFiniteSet(S), NEW m, NEW h, IsSum(h, S, m)
    PROVE  MapThenSumSet(LAMBDA c : m[c], S) = h[S]
<1> DEFINE k == CHOOSE f : f = [s \in SUBSET S |-> IF s = {} THEN 0 ELSE m[CHOOSE x \in s : TRUE] + f[s \ {CHOOSE x \in s : TRUE}]]
<1>1. h = [s \in SUBSET S |-> IF s = {} THEN 0 ELSE m[CHOOSE x \in s : TRUE] + h[s \ {CHOOSE x \in s : TRUE}]]
  <2>1. \A s \in SUBSET S : h[s] = IF s = {} THEN 0 ELSE m[CHOOSE x \in s : TRUE] + h[s \ {CHOOSE x \in s : TRUE}]
    <3> SUFFICES ASSUME NEW s \in SUBSET S, s # {}
                 PROVE  h[s] = m[CHOOSE x \in s : TRUE] + h[s \ {CHOOSE x \in s : TRUE}]
      BY DEF IsSum
    <3>1. (CHOOSE x \in s : TRUE) \in s
      OBVIOUS
    <3> DEFINE x == CHOOSE x \in s : TRUE
    <3> HIDE DEF x
    <3>2. x \in s
      BY <3>1 DEF x
    <3>3. h[s] = m[x] + h[s \ {x}]
      BY <3>2 DEF IsSum
    <3> QED
      BY <3>3 DEF x
  <2> QED
    BY <2>1 DEF IsSum
<1>2. k = [s \in SUBSET S |-> IF s = {} THEN 0 ELSE m[CHOOSE x \in s : TRUE] + k[s \ {CHOOSE x \in s : TRUE}]]
  BY <1>1
<1>3. MapThenSumSet(LAMBDA c : m[c], S) = k[S]
  BY DEF MapThenSumSet, MapThenFoldSet
<1> HIDE DEF k
<1> DEFINE M == {n \in Nat : \A s \in SUBSET S : Cardinality(s) = n => k[s] = h[s]}
<1>4. 0 \in M
  <2>1. \A s \in SUBSET S : Cardinality(s) = 0 => s = {}
    BY FS_Subset, FS_EmptySet
  <2>2. k[{}] = 0 /\ h[{}] = 0
    BY <1>2 DEF IsSum
  <2> QED
    BY <2>1, <2>2
<1>5. ASSUME NEW n \in M PROVE n + 1 \in M
  <2> SUFFICES ASSUME NEW s \in SUBSET S, Cardinality(s) = n + 1 PROVE k[s] = h[s]
    OBVIOUS
  <2>1. IsFiniteSet(s) /\ s # {}
    <3>1. IsFiniteSet(s)
      BY FS_Subset
    <3>2. Cardinality({}) = 0 /\ n + 1 # 0
      BY FS_EmptySet
    <3> QED
      BY <3>1, <3>2
  <2> DEFINE x == CHOOSE x \in s : TRUE
  <2>2. x \in s
    BY <2>1
  <2>3. k[s] = m[x] + k[s \ {x}]
    BY <1>2, <2>1
  <2> HIDE DEF x
  <2>4. h[s] = m[x] + h[s \ {x}]
    BY <2>2 DEF IsSum
  <2>5. Cardinality(s \ {x}) = n
    <3>1. Cardinality(s \ {x}) = (n + 1) - 1
      BY <2>1, <2>2, FS_RemoveElement
    <3> QED
      BY <3>1
  <2>6. k[s \ {x}] = h[s \ {x}]
    BY <2>5
  <2> QED
    BY <2>3, <2>4, <2>6
<1>6. M \in SUBSET Nat
  OBVIOUS
<1> HIDE DEF M
<1>7. M = Nat
  BY <1>4, <1>5, <1>6, InductiveSet
<1>8. Cardinality(S) \in Nat
  BY FS_CardinalityType
<1> QED
  BY <1>3, <1>7, <1>8 DEF M

\* What the report adds up, as an operator of the function it adds up.
SumOf(m, S) == MapThenSumSet(LAMBDA c : m[c], S)

\* A sum over all sets gives the sum over each.
LEMMA SumOfPart ==
    ASSUME NEW S, IsFiniteSet(S), NEW m, NEW h, IsSum(h, S, m), NEW T \in SUBSET S
    PROVE  SumOf(m, T) = h[T]
<1> DEFINE g == [s \in SUBSET T |-> h[s]]
<1>1. IsFiniteSet(T)
  BY FS_Subset
<1>2. IsSum(g, T, m)
  BY DEF IsSum
<1>3. g[T] = h[T]
  OBVIOUS
<1> HIDE DEF g
<1>4. MapThenSumSet(LAMBDA c : m[c], T) = g[T]
  BY <1>1, <1>2, SumIs
<1> QED
  BY <1>3, <1>4 DEF SumOf

\* Sums of sets that do not meet.
LEMMA SumOfUnion ==
    ASSUME NEW S, IsFiniteSet(S), NEW m \in [S -> Nat], NEW h, IsSum(h, S, m),
           NEW A \in SUBSET S, NEW B \in SUBSET S, A \cap B = {}
    PROVE  h[A \cup B] = h[A] + h[B]
<1> DEFINE Q(b) == h[A \cup b] = h[A] + h[b]
           M == {n \in Nat : \A b \in SUBSET B : Cardinality(b) = n => Q(b)}
<1>1. 0 \in M
  <2>1. \A b \in SUBSET B : Cardinality(b) = 0 => b = {}
    <3> SUFFICES ASSUME NEW b \in SUBSET B, Cardinality(b) = 0 PROVE b = {}
      OBVIOUS
    <3>1. IsFiniteSet(b)
      BY FS_Subset
    <3> QED
      BY <3>1, FS_EmptySet
  <2>2. h[A] \in Nat /\ h[{}] = 0 /\ A \cup {} = A
    BY DEF IsSum
  <2>3. Q({})
    BY <2>2
  <2> QED
    BY <2>1, <2>3
<1>2. ASSUME NEW n \in M PROVE n + 1 \in M
  <2> SUFFICES ASSUME NEW b \in SUBSET B, Cardinality(b) = n + 1 PROVE Q(b)
    <3>1. n + 1 \in Nat
      OBVIOUS
    <3> HIDE DEF Q
    <3> QED
      BY <3>1
  <2>1. IsFiniteSet(b) /\ n \in Nat
    <3>1. b \subseteq S /\ n \in Nat
      OBVIOUS
    <3> QED
      BY <3>1, FS_Subset
  <2>2. b # {}
    <3>1. Cardinality({}) = 0 /\ n + 1 # 0
      BY <2>1, FS_EmptySet
    <3> QED
      BY <3>1
  <2>3. PICK x \in b : TRUE
    BY <2>2
  <2> DEFINE c == b \ {x}
  <2>4. c \in SUBSET B /\ Cardinality(c) = n
    <3>1. Cardinality(c) = (n + 1) - 1
      BY <2>1, <2>3, FS_RemoveElement
    <3> QED
      BY <2>1, <3>1
  <2>5. Q(c)
    BY <2>4
  <2>6. h[b] = m[x] + h[c]
    BY DEF IsSum
  <2>7. h[A \cup b] = m[x] + h[A \cup c]
    <3>1. (A \cup b) \ {x} = A \cup c /\ x \in A \cup b /\ A \cup b \in SUBSET S
      OBVIOUS
    <3> HIDE DEF c
    <3>2. h[A \cup b] = m[x] + h[(A \cup b) \ {x}]
      BY <3>1 DEF IsSum
    <3> QED
      BY <3>1, <3>2
  <2>8. m[x] \in Nat /\ h[A] \in Nat /\ h[c] \in Nat
    BY <2>4 DEF IsSum
  <2> HIDE DEF c
  <2> QED
    BY <2>5, <2>6, <2>7, <2>8
<1>3. M \in SUBSET Nat
  OBVIOUS
<1>4. M = Nat
  <2> HIDE DEF M
  <2> QED
    BY <1>1, <1>2, <1>3, InductiveSet
<1>5. IsFiniteSet(B)
  BY FS_Subset
<1>6. Cardinality(B) \in Nat
  BY <1>5, FS_CardinalityType
<1> QED
  BY <1>4, <1>6

\* t is the sum of m over S.
AddsUp(m, S, t) == \E h : IsSum(h, S, m) /\ h[S] = t

\* One more of something is one more in all.
LEMMA OneMore ==
    ASSUME NEW S, NEW m \in [S -> Nat], NEW k \in [S -> Nat], NEW t, AddsUp(m, S, t),
           NEW x \in S, k[x] = m[x] + 1, \A y \in S : y # x => k[y] = m[y]
    PROVE  AddsUp(k, S, t + 1)
<1>1. PICK h : IsSum(h, S, m) /\ h[S] = t
  BY DEF AddsUp
<1> DEFINE g == [s \in SUBSET S |-> h[s] + (IF x \in s THEN 1 ELSE 0)]
<1>2. \A s \in SUBSET S : h[s] \in Nat
  BY <1>1 DEF IsSum
<1>3. g \in [SUBSET S -> Nat] /\ g[{}] = 0 /\ g[S] = t + 1
  BY <1>1, <1>2 DEF IsSum
<1>4. ASSUME NEW s \in SUBSET S, NEW y \in s PROVE g[s] = k[y] + g[s \ {y}]
  <2> DEFINE a == h[s]  b == h[s \ {y}]
  <2>1. a = m[y] + b /\ a \in Nat /\ b \in Nat /\ m[y] \in Nat
    BY <1>1, <1>2 DEF IsSum
  <2>2. g[s] = a + (IF x \in s THEN 1 ELSE 0)
    OBVIOUS
  <2>3. g[s \ {y}] = b + (IF x \in s \ {y} THEN 1 ELSE 0)
    BY <1>2
  <2> HIDE DEF a, b, g
  <2> QED
    BY <2>1, <2>2, <2>3
<1> HIDE DEF g
<1>5. IsSum(g, S, k)
  BY <1>3, <1>4 DEF IsSum
<1> QED
  BY <1>3, <1>5 DEF AddsUp

\* m with each of the first n instructions of q counted under its code.
CountedUp(m, S, q, n) == [c \in S |-> m[c] + Cardinality({i \in 1 .. n : q[i].code = c})]

LEMMA EachIsCounted ==
    ASSUME NEW S, NEW m \in [S -> Nat], NEW t \in Nat, AddsUp(m, S, t),
           NEW q, NEW N \in Nat, \A i \in 1 .. N : q[i].code \in S
    PROVE  AddsUp(CountedUp(m, S, q, N), S, t + N)
<1> DEFINE At(n, c) == {i \in 1 .. n : q[i].code = c}
           K(n) == [c \in S |-> m[c] + Cardinality(At(n, c))]
           M == {n \in Nat : n <= N => AddsUp(K(n), S, t + n)}
<1>1. \A n \in Nat : \A c : IsFiniteSet(At(n, c)) /\ Cardinality(At(n, c)) \in Nat
  <2> SUFFICES ASSUME NEW n \in Nat, NEW c
               PROVE  IsFiniteSet(At(n, c)) /\ Cardinality(At(n, c)) \in Nat
    OBVIOUS
  <2>1. IsFiniteSet(1 .. n)
    BY FS_Interval
  <2>2. IsFiniteSet(At(n, c))
    <3>1. At(n, c) \subseteq 1 .. n
      OBVIOUS
    <3> HIDE DEF At
    <3> QED
      BY <2>1, <3>1, FS_Subset
  <2> QED
    BY <2>2, FS_CardinalityType
<1>2. 0 \in M
  <2>1. \A c : At(0, c) = {}
    OBVIOUS
  <2>2. K(0) = m
    <3> HIDE DEF At
    <3>1. \A c \in S : m[c] + Cardinality(At(0, c)) = m[c]
      BY <2>1, FS_EmptySet
    <3> QED
      BY <3>1
  <2> HIDE DEF K
  <2> QED
    BY <2>2
<1>3. ASSUME NEW n \in M PROVE n + 1 \in M
  <2> SUFFICES ASSUME n + 1 <= N PROVE AddsUp(K(n + 1), S, t + (n + 1))
    OBVIOUS
  <2>1. n \in Nat /\ n + 1 \in 1 .. N
    OBVIOUS
  <2>2. AddsUp(K(n), S, t + n)
    BY <2>1
  <2> DEFINE x == q[n + 1].code
  <2>3. x \in S
    BY <2>1
  <2>4. At(n + 1, x) = At(n, x) \cup {n + 1} /\ n + 1 \notin At(n, x)
    BY <2>1
  <2>5. \A c : c # x => At(n + 1, c) = At(n, c)
    BY <2>1
  <2> HIDE DEF x, At
  <2>6. Cardinality(At(n + 1, x)) = Cardinality(At(n, x)) + 1
    BY <1>1, <2>1, <2>4, FS_AddElement
  <2>7. K(n) \in [S -> Nat] /\ K(n + 1) \in [S -> Nat]
    <3>1. n + 1 \in Nat
      BY <2>1
    <3>2. \A c \in S : m[c] + Cardinality(At(n, c)) \in Nat /\ m[c] + Cardinality(At(n + 1, c)) \in Nat
      BY <1>1, <2>1, <3>1
    <3> QED
      BY <3>2
  <2>8. K(n + 1)[x] = K(n)[x] + 1
    <3> DEFINE a == Cardinality(At(n, x))
    <3>1. a \in Nat /\ m[x] \in Nat
      BY <1>1, <2>1, <2>3
    <3>2. K(n + 1)[x] = m[x] + (a + 1) /\ K(n)[x] = m[x] + a
      BY <2>3, <2>6
    <3> HIDE DEF a, K
    <3> QED
      BY <3>1, <3>2
  <2>9. \A y \in S : y # x => K(n + 1)[y] = K(n)[y]
    BY <2>5
  <2>10. t + (n + 1) = (t + n) + 1
    BY <2>1
  <2> HIDE DEF K
  <2>11. AddsUp(K(n + 1), S, (t + n) + 1)
    BY <2>2, <2>3, <2>7, <2>8, <2>9, OneMore
  <2> QED
    BY <2>10, <2>11
<1>4. M \in SUBSET Nat
  OBVIOUS
<1>5. M = Nat
  <2> HIDE DEF M
  <2> QED
    BY <1>2, <1>3, <1>4, InductiveSet
<1>6. AddsUp(K(N), S, t + N)
  <2> HIDE DEF K
  <2> QED
    BY <1>5
<1> QED
  BY <1>6 DEF CountedUp

-----------------------------------------------------------------------------
(* The counters.                                                           *)

Counts == {"cycles", "totalCommit", "stalls_total", "stalls_mem_any", "rs_empty_cycles",
           "cycles_ge_1_uop_exec", "cycles_ge_2_uop_exec", "cycles_ge_3_uop_exec"}

RobEntry == [code : Codes, status : {"waiting", "executing", "finished"}]

\* Everything that was dispatched fits the slots of the cycles so far; a cycle
\* is a stall or not; a stall on memory is not one with an empty buffer; and
\* every instruction retired is counted under its code.
SInv ==
    /\ rob \in Seq(RobEntry)
    /\ insnCountMap \in [Codes -> Nat]
    /\ count \in [Counts -> Nat]
    /\ count.totalCommit + Len(rob) <= count.cycles * windowSize
    /\ count.stalls_total + count.cycles_ge_1_uop_exec = count.cycles
    /\ count.stalls_mem_any + count.rs_empty_cycles <= count.stalls_total
    /\ count.cycles_ge_3_uop_exec <= count.cycles_ge_2_uop_exec
    /\ count.cycles_ge_2_uop_exec <= count.cycles_ge_1_uop_exec
    /\ AddsUp(insnCountMap, Codes, count.totalCommit)

LEMMA SomeRetire ==
    ASSUME rob \in Seq(RobEntry)
    PROVE  Retiring \in 0 .. Len(rob)
<1>1. Len(rob) \in Nat /\ retireSize \in Nat
  BY StatisticsAssumption
<1> DEFINE S == {n \in 0 .. Len(rob) : n = retireSize \/ n = Len(rob) \/ rob[n + 1].status # "finished"}
<1>2. S \in SUBSET Nat /\ Len(rob) \in S
  BY <1>1
<1>3. PICK n \in S : \A k \in S : n <= k
  BY <1>2, LeastNumber
<1>4. n \in 0 .. Len(rob) /\ (n < retireSize /\ n < Len(rob) => rob[n + 1].status # "finished")
  BY <1>1
<1>5. n <= retireSize
  <2> SUFFICES ASSUME retireSize < n PROVE FALSE
    BY <1>1, <1>4
  <2>1. retireSize \in S
    BY <1>1, <1>4
  <2> QED
    BY <1>1, <1>3, <1>4, <2>1
<1>6. \A i \in 1 .. n : rob[i].status = "finished"
  <2> SUFFICES ASSUME NEW i \in 1 .. n, rob[i].status # "finished" PROVE FALSE
    OBVIOUS
  <2>1. i - 1 \in 0 .. Len(rob) /\ (i - 1) + 1 = i /\ ~(n <= i - 1)
    BY <1>1, <1>4
  <2>2. i - 1 \in S
    BY <2>1
  <2> QED
    BY <1>3, <2>1, <2>2
<1> QED
  BY <1>4, <1>5, <1>6 DEF Retiring

\* What Core::issue adds to the counters at the end of a cycle: one of its two
\* kinds, and no stall on memory with an empty buffer.
LEMMA CountersStep ==
    ASSUME SInv, NEW entries, NEW ready, IsFiniteSet(ready), ready \subseteq DOMAIN entries,
           NEW c, c = Counted(entries, ready), Retiring \in Nat
    PROVE  /\ c \in [Counts -> Nat]
           /\ c.cycles = count.cycles + 1 /\ c.totalCommit = count.totalCommit + Retiring
           /\ c.stalls_total + c.cycles_ge_1_uop_exec = c.cycles
           /\ c.stalls_mem_any + c.rs_empty_cycles <= c.stalls_total
           /\ c.cycles_ge_3_uop_exec <= c.cycles_ge_2_uop_exec
           /\ c.cycles_ge_2_uop_exec <= c.cycles_ge_1_uop_exec
<1> DEFINE card == Cardinality(ready)
           e == One(RsEmpty(entries))  s == One(ready = {})
           l == One(ready = {} /\ ExecutingLoads(entries) # {})
           u1 == One(card >= 1)  u2 == One(card >= 2)  u3 == One(card >= 3)
<1>1. card \in Nat /\ (card = 0 <=> ready = {})
  BY FS_CardinalityType, FS_EmptySet
<1>2. e \in {0, 1} /\ s \in {0, 1} /\ l \in {0, 1} /\ u1 \in {0, 1} /\ u2 \in {0, 1} /\ u3 \in {0, 1}
  BY DEF One
<1>3. s + u1 = 1
  <2> HIDE DEF card
  <2> QED
    BY <1>1 DEF One
<1>4. u3 <= u2 /\ u2 <= u1
  <2> HIDE DEF card
  <2> QED
    BY <1>1 DEF One
<1>5. l + e <= s
  <2>1. CASE entries = <<>>
    <3>1. DOMAIN entries = {}
      BY <2>1
    <3>2. ready = {} /\ ExecutingLoads(entries) = {}
      BY <3>1 DEF ExecutingLoads
    <3> QED
      BY <1>2, <3>2 DEF One
  <2>2. CASE entries # <<>>
    BY <2>2 DEF One, RsEmpty
  <2> QED
    BY <2>1, <2>2
<1>6. /\ c.cycles = count.cycles + 1 /\ c.totalCommit = count.totalCommit + Retiring
      /\ c.rs_empty_cycles = count.rs_empty_cycles + e
      /\ c.stalls_total = count.stalls_total + s
      /\ c.stalls_mem_any = count.stalls_mem_any + l
      /\ c.cycles_ge_1_uop_exec = count.cycles_ge_1_uop_exec + u1
      /\ c.cycles_ge_2_uop_exec = count.cycles_ge_2_uop_exec + u2
      /\ c.cycles_ge_3_uop_exec = count.cycles_ge_3_uop_exec + u3
      /\ DOMAIN c = Counts /\ c = [x \in Counts |-> c[x]]
  <2>1. c = [count EXCEPT !.cycles = @ + 1, !.totalCommit = @ + Retiring, !.rs_empty_cycles = @ + e,
                          !.stalls_total = @ + s, !.stalls_mem_any = @ + l,
                          !.cycles_ge_1_uop_exec = @ + u1, !.cycles_ge_2_uop_exec = @ + u2,
                          !.cycles_ge_3_uop_exec = @ + u3]
    BY DEF Counted
  <2>2. count \in [Counts -> Nat]
    BY DEF SInv
  <2> HIDE DEF e, s, l, u1, u2, u3
  <2>3. DOMAIN c = Counts /\ c = [x \in Counts |-> c[x]]
    BY <2>1, <2>2
  <2>4. /\ c.cycles = count.cycles + 1 /\ c.totalCommit = count.totalCommit + Retiring
        /\ c.rs_empty_cycles = count.rs_empty_cycles + e
        /\ c.stalls_total = count.stalls_total + s
    BY <2>1, <2>2 DEF Counts
  <2>5. /\ c.stalls_mem_any = count.stalls_mem_any + l
        /\ c.cycles_ge_1_uop_exec = count.cycles_ge_1_uop_exec + u1
        /\ c.cycles_ge_2_uop_exec = count.cycles_ge_2_uop_exec + u2
        /\ c.cycles_ge_3_uop_exec = count.cycles_ge_3_uop_exec + u3
    BY <2>1, <2>2 DEF Counts
  <2> QED
    BY <2>3, <2>4, <2>5
<1>7. /\ count.cycles \in Nat /\ count.totalCommit \in Nat /\ count.rs_empty_cycles \in Nat
      /\ count.stalls_total \in Nat /\ count.stalls_mem_any \in Nat
      /\ count.cycles_ge_1_uop_exec \in Nat /\ count.cycles_ge_2_uop_exec \in Nat
      /\ count.cycles_ge_3_uop_exec \in Nat
  BY DEF SInv, Counts
<1> HIDE DEF e, s, l, u1, u2, u3
<1>8. /\ c.cycles \in Nat /\ c.totalCommit \in Nat /\ c.rs_empty_cycles \in Nat
      /\ c.stalls_total \in Nat /\ c.stalls_mem_any \in Nat
      /\ c.cycles_ge_1_uop_exec \in Nat /\ c.cycles_ge_2_uop_exec \in Nat
      /\ c.cycles_ge_3_uop_exec \in Nat
  BY <1>2, <1>6, <1>7
<1>9. c \in [Counts -> Nat]
  BY <1>6, <1>8 DEF Counts
<1>10. c.stalls_total + c.cycles_ge_1_uop_exec = c.cycles
  <2>1. count.stalls_total + count.cycles_ge_1_uop_exec = count.cycles
    BY DEF SInv
  <2> QED
    BY <1>2, <1>3, <1>6, <1>7, <2>1
<1>11. c.stalls_mem_any + c.rs_empty_cycles <= c.stalls_total
  <2>1. count.stalls_mem_any + count.rs_empty_cycles <= count.stalls_total
    BY DEF SInv
  <2> QED
    BY <1>2, <1>5, <1>6, <1>7, <2>1
<1>12. c.cycles_ge_3_uop_exec <= c.cycles_ge_2_uop_exec /\ c.cycles_ge_2_uop_exec <= c.cycles_ge_1_uop_exec
  <2>1. /\ count.cycles_ge_3_uop_exec <= count.cycles_ge_2_uop_exec
        /\ count.cycles_ge_2_uop_exec <= count.cycles_ge_1_uop_exec
    BY DEF SInv
  <2> QED
    BY <1>2, <1>4, <1>6, <1>7, <2>1
<1> QED
  BY <1>6, <1>9, <1>10, <1>11, <1>12

LEMMA SInvInit == StatInit => SInv
<1> SUFFICES ASSUME StatInit PROVE SInv
  OBVIOUS
<1>1. rob = <<>> /\ insnCountMap = [c \in Codes |-> 0] /\ count = Zero
  BY DEF StatInit
<1>2. count \in [Counts -> Nat]
  BY <1>1 DEF Zero, Counts
<1>3. AddsUp(insnCountMap, Codes, 0)
  <2> DEFINE h == [s \in SUBSET Codes |-> 0]
  <2>1. IsSum(h, Codes, insnCountMap) /\ h[Codes] = 0
    BY <1>1 DEF IsSum
  <2> QED
    BY <2>1 DEF AddsUp
<1>4. rob \in Seq(RobEntry) /\ Len(rob) = 0
  BY <1>1
<1> QED
  BY <1>1, <1>2, <1>3, <1>4, StatisticsAssumption DEF SInv, Zero

LEMMA SInvStep == SInv /\ [StatNext]_statVars => SInv'
<1> SUFFICES ASSUME SInv, [StatNext]_statVars PROVE SInv'
  OBVIOUS
<1>1. CASE UNCHANGED statVars
  BY <1>1 DEF SInv, statVars
<1>2. CASE StatNext
  <2> DEFINE left == SubSeq(rob, Retiring + 1, Len(rob))
  <2>1. rob \in Seq(RobEntry) /\ Len(rob) \in Nat /\ Retiring \in 0 .. Len(rob)
    BY SomeRetire DEF SInv
  <2>2. left \in Seq(RobEntry) /\ Len(left) = Len(rob) - Retiring /\ DOMAIN left = 1 .. Len(left)
    BY <2>1
  <2>3. PICK n \in 0 .. windowSize : \E news \in [1 .. n -> Codes] :
           \E finished \in SUBSET Entries(left, "executing") :
           \E ready \in SUBSET Entries(left, "waiting") : \E atOnce \in SUBSET ready :
               cycle(left, finished, ready, atOnce, news)
    <3> HIDE DEF left
    <3> QED
      BY <1>2 DEF StatNext, left
  <2>4. PICK news \in [1 .. n -> Codes], finished \in SUBSET Entries(left, "executing"),
             ready \in SUBSET Entries(left, "waiting") :
             \E atOnce \in SUBSET ready : cycle(left, finished, ready, atOnce, news)
    <3> HIDE DEF left
    <3> QED
      BY <2>3
  <2>5. PICK atOnce \in SUBSET ready : cycle(left, finished, ready, atOnce, news)
    BY <2>4
  <2> HIDE DEF left
  <2> DEFINE executed == [i \in DOMAIN left |->
                             IF i \in finished THEN [left[i] EXCEPT !.status = "finished"] ELSE left[i]]
             front == [i \in DOMAIN left |->
                          IF i \in atOnce THEN [left[i] EXCEPT !.status = "finished"]
                          ELSE IF i \in ready THEN [left[i] EXCEPT !.status = "executing"]
                          ELSE executed[i]]
             back == [i \in DOMAIN news |-> [code |-> news[i], status |-> "waiting"]]
  <2>6. insnCountMap' = updateInsnCount /\ count' = Counted(executed, ready) /\ rob' = front \o back
    BY <2>5 DEF cycle
  <2>7. front \in Seq(RobEntry) /\ Len(front) = Len(left)
    <3>1. \A i \in DOMAIN left : left[i] \in RobEntry
      BY <2>2
    <3>2. \A i \in DOMAIN left : executed[i] \in RobEntry
      BY <3>1 DEF RobEntry
    <3> HIDE DEF executed
    <3>3. \A i \in DOMAIN left : front[i] \in RobEntry
      BY <3>1, <3>2 DEF RobEntry
    <3>4. DOMAIN front = 1 .. Len(left) /\ Len(left) \in Nat
      BY <2>2
    <3>5. front = [i \in 1 .. Len(left) |-> front[i]]
      BY <3>4
    <3> HIDE DEF front
    <3>6. front \in [1 .. Len(left) -> RobEntry]
      <4>1. \A i \in 1 .. Len(left) : front[i] \in RobEntry
        BY <2>2, <3>3
      <4> QED
        BY <3>5, <4>1
    <3>7. front \in Seq(RobEntry)
      BY <3>4, <3>6
    <3>8. Len(front) = Len(left)
      BY <3>4, <3>7
    <3> QED
      BY <3>7, <3>8
  <2>8. back \in Seq(RobEntry) /\ Len(back) = n
    <3>1. DOMAIN news = 1 .. n /\ n \in Nat
      BY StatisticsAssumption
    <3>2. \A i \in 1 .. n : [code |-> news[i], status |-> "waiting"] \in RobEntry
      BY DEF RobEntry
    <3> QED
      BY <3>1, <3>2
  <2>9. DOMAIN executed = DOMAIN left
    OBVIOUS
  <2> HIDE DEF executed, front, back
  <2>10. rob' \in Seq(RobEntry) /\ Len(rob') = Len(left) + n
    <3>1. front \o back \in Seq(RobEntry) /\ Len(front \o back) = Len(front) + Len(back)
      BY <2>7, <2>8
    <3> QED
      BY <2>6, <2>7, <2>8, <3>1
  <2>11. IsFiniteSet(ready) /\ ready \subseteq DOMAIN executed
    <3>1. IsFiniteSet(1 .. Len(left)) /\ ready \subseteq 1 .. Len(left)
      BY <2>2, FS_Interval DEF Entries
    <3> QED
      BY <2>2, <2>9, <3>1, FS_Subset
  <2>12. /\ count' \in [Counts -> Nat]
         /\ count'.cycles = count.cycles + 1 /\ count'.totalCommit = count.totalCommit + Retiring
         /\ count'.stalls_total + count'.cycles_ge_1_uop_exec = count'.cycles
         /\ count'.stalls_mem_any + count'.rs_empty_cycles <= count'.stalls_total
         /\ count'.cycles_ge_3_uop_exec <= count'.cycles_ge_2_uop_exec
         /\ count'.cycles_ge_2_uop_exec <= count'.cycles_ge_1_uop_exec
    <3>1. Retiring \in Nat
      BY <2>1
    <3> QED
      BY <2>6, <2>11, <3>1, CountersStep
  <2>13. count'.totalCommit + Len(rob') <= count'.cycles * windowSize
    <3> DEFINE t == count.totalCommit  k == Len(rob)  y == count.cycles  w == windowSize  r == Retiring
               t2 == count'.totalCommit  k2 == Len(rob')  y2 == count'.cycles
    <3>1. t \in Nat /\ k \in Nat /\ y \in Nat /\ w \in Nat /\ r \in 0 .. k /\ n \in 0 .. w
      BY <2>1, StatisticsAssumption DEF SInv, Counts
    <3>2. t + k <= y * w
      BY DEF SInv
    <3>3. t2 = t + r /\ y2 = y + 1 /\ k2 = k - r + n
      BY <2>2, <2>10, <2>12
    <3> HIDE DEF t, k, y, w, r, t2, k2, y2
    <3>4. y2 * w = y * w + w
      BY <3>1, <3>3
    <3>5. t2 + k2 <= y * w + w
      <4>1. y * w \in Nat
        BY <3>1
      <4> QED
        BY <3>1, <3>2, <3>3, <4>1
    <3>6. t2 + k2 <= y2 * w
      BY <3>4, <3>5
    <3> QED
      BY <3>6 DEF t2, k2, y2, w
  <2>14. insnCountMap' \in [Codes -> Nat] /\ AddsUp(insnCountMap', Codes, count'.totalCommit)
    <3>1. \A i \in 1 .. Retiring : rob[i].code \in Codes
      <4>1. \A i \in 1 .. Len(rob) : rob[i] \in RobEntry
        BY <2>1
      <4> QED
        BY <2>1, <4>1 DEF RobEntry
    <3>2. Retiring \in Nat
      BY <2>1
    <3>3. AddsUp(CountedUp(insnCountMap, Codes, rob, Retiring), Codes, count.totalCommit + Retiring)
      <4>1. insnCountMap \in [Codes -> Nat] /\ AddsUp(insnCountMap, Codes, count.totalCommit)
        BY DEF SInv
      <4>2. count.totalCommit \in Nat
        BY DEF SInv, Counts
      <4> QED
        BY <3>1, <3>2, <4>1, <4>2, EachIsCounted
    <3>4. \A c \in Codes : insnCountMap[c] + Cardinality({i \in 1 .. Retiring : rob[i].code = c}) \in Nat
      <4> SUFFICES ASSUME NEW c \in Codes
                   PROVE  insnCountMap[c] + Cardinality({i \in 1 .. Retiring : rob[i].code = c}) \in Nat
        OBVIOUS
      <4>1. IsFiniteSet(1 .. Retiring)
        BY <3>2, FS_Interval
      <4>2. IsFiniteSet({i \in 1 .. Retiring : rob[i].code = c})
        BY <4>1, FS_Subset
      <4>3. Cardinality({i \in 1 .. Retiring : rob[i].code = c}) \in Nat
        BY <4>2, FS_CardinalityType
      <4>4. insnCountMap[c] \in Nat
        BY DEF SInv
      <4> QED
        BY <4>3, <4>4
    <3>5. insnCountMap' = CountedUp(insnCountMap, Codes, rob, Retiring)
      BY <2>6 DEF updateInsnCount, CountedUp
    <3>6. insnCountMap' \in [Codes -> Nat]
      BY <3>4, <3>5 DEF CountedUp
    <3> QED
      BY <2>12, <3>3, <3>5, <3>6
  <2> QED
    BY <2>10, <2>12, <2>13, <2>14 DEF SInv
<1> QED
  BY <1>1, <1>2

-----------------------------------------------------------------------------
(* The report.                                                             *)

LEMMA PricesDoMatch == PricesMatch
BY DEF PricesMatch, InsnClass, PowerLine, getHWFuncUnit, int_opcodes, fp_opcodes, Load,
       int_adder_opcodes, bitwise_opcodes, int_mult_opcodes, fp_mult_opcodes, fp_adder_opcodes

LEMMA SInvReports == SInv => ReportConsistent
<1> SUFFICES ASSUME SInv PROVE ReportConsistent
  OBVIOUS
<1> DEFINE I == Codes \cap int_opcodes  F == Codes \cap fp_opcodes
           A == Codes \cap ialu_opcodes  M == Codes \cap int_mult_opcodes
           O == Codes \ (I \cup F)
<1>1. IsFiniteSet(Codes)
  <2> DEFINE last == 67
  <2>1. last \in Int /\ Codes \subseteq 1 .. last
    BY StatisticsAssumption
  <2> HIDE DEF last
  <2>2. IsFiniteSet(1 .. last)
    BY <2>1, FS_Interval
  <2> QED
    BY <2>1, <2>2, FS_Subset
<1>2. PICK h : IsSum(h, Codes, insnCountMap) /\ h[Codes] = count.totalCommit
  BY DEF SInv, AddsUp
<1>3. I \cap F = {} /\ (I \cup F) \cap O = {} /\ (I \cup F) \cup O = Codes
  BY DEF int_opcodes, fp_opcodes
<1>4. A \cap M = {} /\ A \cup M = I
  BY DEF int_opcodes, ialu_opcodes, int_mult_opcodes
<1>5. /\ Instructions(int_opcodes) = h[I] /\ Instructions(fp_opcodes) = h[F]
      /\ Instructions(ialu_opcodes) = h[A] /\ Instructions(int_mult_opcodes) = h[M]
  <2>1. \A s : Instructions(s) = SumOf(insnCountMap, Codes \cap s)
    BY DEF Instructions, SumOf
  <2>2. \A T \in SUBSET Codes : SumOf(insnCountMap, T) = h[T]
    BY <1>1, <1>2, SumOfPart
  <2> QED
    BY <2>1, <2>2
<1> HIDE DEF I, F, A, M, O
<1>6. I \in SUBSET Codes /\ F \in SUBSET Codes /\ A \in SUBSET Codes /\ M \in SUBSET Codes /\ O \in SUBSET Codes
  BY DEF I, F, A, M, O
<1>7. insnCountMap \in [Codes -> Nat]
  BY DEF SInv
<1>8. h[I] = h[A] + h[M]
  <2>1. h[A \cup M] = h[A] + h[M]
    <3>1. IsSum(h, Codes, insnCountMap)
      BY <1>2
    <3> QED
      BY <1>1, <3>1, <1>4, <1>6, <1>7, SumOfUnion
  <2> QED
    BY <1>4, <2>1
<1>9. h[I \cup F] = h[I] + h[F]
  <2>1. IsSum(h, Codes, insnCountMap) /\ I \cap F = {}
    BY <1>2, <1>3
  <2> QED
    BY <1>1, <2>1, <1>6, <1>7, SumOfUnion
<1>10. h[Codes] = h[I \cup F] + h[O]
  <2>1. I \cup F \in SUBSET Codes
    BY <1>6
  <2> QED
    BY <1>1, <1>2, <1>3, <1>6, <1>7, <2>1, SumOfUnion
<1>11. h[I] \in Nat /\ h[F] \in Nat /\ h[O] \in Nat
  BY <1>2, <1>6 DEF IsSum
<1>12. inst_window_reads >= Instructions(int_opcodes)
  <2> DEFINE i == h[I]  f == h[F]  o == h[O]
  <2>1. count.totalCommit = (i + f) + o /\ i \in Nat /\ f \in Nat /\ o \in Nat
    BY <1>2, <1>9, <1>10, <1>11
  <2>2. inst_window_reads = count.totalCommit - f /\ Instructions(int_opcodes) = i
    BY <1>5 DEF inst_window_reads
  <2> HIDE DEF i, f, o
  <2> QED
    BY <2>1, <2>2
<1>13. count.stalls_mem_any <= backend_bound_cycles
  <2>1. few_threshold \in {count.cycles_ge_3_uop_exec, count.cycles_ge_2_uop_exec}
    BY DEF few_threshold
  <2> DEFINE st == count.stalls_total  m == count.stalls_mem_any  r == count.rs_empty_cycles
             u1 == count.cycles_ge_1_uop_exec  u2 == count.cycles_ge_2_uop_exec
             u3 == count.cycles_ge_3_uop_exec  few == few_threshold
  <2>2. st \in Nat /\ m \in Nat /\ r \in Nat /\ u1 \in Nat /\ u2 \in Nat /\ u3 \in Nat
    BY DEF SInv, Counts
  <2>3. m + r <= st /\ u3 <= u2 /\ u2 <= u1
    BY DEF SInv
  <2>4. few = u3 \/ few = u2
    BY <2>1
  <2>5. backend_bound_cycles = st + u1 - few - r
    BY DEF backend_bound_cycles
  <2> HIDE DEF st, m, r, u1, u2, u3, few
  <2>6. m <= backend_bound_cycles
    BY <2>2, <2>3, <2>4, <2>5
  <2> QED
    BY <2>6 DEF m
<1>14. count.totalCommit <= slots
  <2> DEFINE t == count.totalCommit  k == Len(rob)  y == count.cycles * windowSize
  <2>1. t + k <= y /\ t \in Nat /\ k \in Nat /\ y \in Nat
    BY StatisticsAssumption DEF SInv, Counts
  <2> HIDE DEF t, k, y
  <2>2. t <= y
    BY <2>1
  <2> QED
    BY <2>2 DEF t, y, slots
<1>15. Instructions(int_opcodes) = Instructions(ialu_opcodes) + Instructions(int_mult_opcodes)
  BY <1>5, <1>8
<1>16. count.stalls_total + count.cycles_ge_1_uop_exec = count.cycles
  BY DEF SInv
<1> QED
  BY <1>12, <1>13, <1>14, <1>15, <1>16, PricesDoMatch DEF ReportConsistent

\* The report of every simulation adds up, whatever order its cycles came in
\* (Core::printStats, Core::printForMcpat, PowerAreaModel).
THEOREM ReportAddsUp == StatSpec => []ReportConsistent
<1>1. StatInit => SInv
  BY SInvInit
<1>2. SInv /\ [StatNext]_statVars => SInv'
  BY SInvStep
<1>3. SInv => ReportConsistent
  BY SInvReports
<1> QED
  BY <1>1, <1>2, <1>3, PTL DEF StatSpec

-----------------------------------------------------------------------------
(* Clocks.                                                                 *)

LEMMA RoundsUp ==
    ASSUME NEW x \in Nat, x > 0, NEW k \in Nat \ {0}
    PROVE  LET n == (x + k - 1) \div k IN n \in Nat /\ n * k >= x /\ n * k < x + k
<1> DEFINE y == x + k - 1  q == y \div k
<1>1. y \in Nat
  OBVIOUS
<1>2. \A a \in Nat, b \in Nat \ {0} : a \div b \in Int /\ a = b * (a \div b) + (a % b) /\ a % b \in 0 .. b - 1
  OBVIOUS
<1>3. q \in Int /\ y = k * q + (y % k) /\ y % k \in 0 .. k - 1
  BY <1>1, <1>2
<1> DEFINE r == y % k  p == k * q
<1>4. r \in Int /\ p \in Int /\ y = p + r /\ 0 <= r /\ r < k
  BY <1>3
<1>5. q * k = p
  BY <1>3
<1>6. q >= 0
  BY <1>1, <1>3
<1> HIDE DEF r, p, q
<1>7. p >= x /\ p < x + k
  BY <1>4
<1> QED
  BY <1>3, <1>5, <1>6, <1>7 DEF q

\* The counters are the time of the two clocks since they met last, and the
\* memory's is ahead by less than one of its cycles.
ClockInv ==
    /\ clock \in (Nat \ {0}) \X (Nat \ {0}) /\ cpuCycles \in Nat /\ updates \in Nat
    /\ counter = <<cpuCycles * clock[1], updates * clock[2]>>
    /\ clock[1] = clock[2] => cpuCycles = 0 /\ updates = 0
    /\ counter[1] <= counter[2] /\ counter[2] < counter[1] + clock[2]

LEMMA ClockInvInit == ChannelInit => ClockInv
<1> SUFFICES ASSUME ChannelInit PROVE ClockInv
  OBVIOUS
<1>1. PICK s \in Speeds : clock = setCPUClockSpeed(s)
  BY DEF ChannelInit
<1>2. s.dram \in Nat \ {0} /\ s.cpu \in Nat
  BY MultiChannelAssumption
<1>3. clock \in (Nat \ {0}) \X (Nat \ {0})
  BY <1>1, <1>2 DEF setCPUClockSpeed
<1>4. clock[1] \in Nat \ {0} /\ clock[2] \in Nat \ {0}
  BY <1>3
<1>5. cpuCycles = 0 /\ updates = 0 /\ counter = <<0, 0>>
  BY DEF ChannelInit
<1>6. 0 * clock[1] = 0 /\ 0 * clock[2] = 0
  BY <1>4
<1> QED
  BY <1>3, <1>4, <1>5, <1>6 DEF ClockInv

LEMMA ClockInvStep == ClockInv /\ [update_channels]_channelVars => ClockInv'
<1> SUFFICES ASSUME ClockInv, [update_channels]_channelVars PROVE ClockInv'
  OBVIOUS
<1>1. CASE UNCHANGED channelVars
  BY <1>1 DEF ClockInv, channelVars
<1>2. CASE update_channels
  <2> DEFINE d == clock[1]  k == clock[2]  i == cpuCycles  u == updates
             c1 == counter[1] + d  c2 == counter[2]
             n == IF d = k THEN 1 ELSE Callbacks(c1, c2)
             again == (i + 1) * d = (u + n) * k
  <2>1. /\ counter' = IF d = k THEN counter ELSE Leftover(<<c1, c2 + n * k>>)
        /\ cpuCycles' = IF again THEN 0 ELSE i + 1
        /\ updates' = IF again THEN 0 ELSE u + n
        /\ clock' = clock
    BY <1>2 DEF update_channels
  <2>2. /\ clock \in (Nat \ {0}) \X (Nat \ {0})
        /\ d \in Nat \ {0} /\ k \in Nat \ {0} /\ i \in Nat /\ u \in Nat
    BY DEF ClockInv
  <2>3. counter[1] = i * d /\ counter[2] = u * k /\ counter = <<counter[1], counter[2]>>
    BY DEF ClockInv
  <2>4. counter[1] <= counter[2] /\ counter[2] < counter[1] + k
    BY DEF ClockInv
  <2>5. 0 * d = 0 /\ 0 * k = 0
    BY <2>2
  <2>6. CASE d = k
    <3>1. i = 0 /\ u = 0 /\ n = 1
      BY <2>6 DEF ClockInv
    <3>2. again
      BY <2>2, <2>6, <3>1
    <3>3. counter' = counter /\ cpuCycles' = 0 /\ updates' = 0 /\ clock' = clock
      BY <2>1, <2>6, <3>2
    <3> QED
      BY <3>1, <3>3 DEF ClockInv
  <2>7. CASE d # k
    <3> DEFINE a == i * d  b == u * k
    <3>1. a \in Nat /\ b \in Nat
      BY <2>2
    <3>2. c1 = a + d /\ c2 = b /\ n = Callbacks(c1, c2)
      BY <2>3, <2>7
    <3>3. (i + 1) * d = c1
      BY <2>2, <3>2
    <3>4. n \in Nat /\ n * k \in Nat /\ c2 + n * k >= c1 /\ c2 + n * k < c1 + k
      <4>1. CASE c2 >= c1
        <5>1. n = 0
          BY <3>2, <4>1 DEF Callbacks
        <5>2. n * k = 0
          BY <2>5, <5>1
        <5>3. c2 < a + k
          BY <2>3, <2>4
        <5> HIDE DEF n, a, b, c1, c2
        <5> QED
          BY <2>2, <3>1, <3>2, <4>1, <5>1, <5>2, <5>3
      <4>2. CASE ~(c2 >= c1)
        <5> DEFINE x == c1 - c2
        <5>1. x \in Nat /\ x > 0
          <6> HIDE DEF a, b, c1, c2
          <6> QED
            BY <2>2, <3>1, <3>2, <4>2
        <5>2. n = (x + k - 1) \div k
          BY <3>2, <4>2 DEF Callbacks
        <5> HIDE DEF n, x
        <5>3. n \in Nat /\ n * k >= x /\ n * k < x + k
          BY <2>2, <5>1, <5>2, RoundsUp
        <5>4. n * k \in Nat
          BY <2>2, <5>3
        <5> DEFINE p == n * k
        <5>5. p \in Nat /\ p >= x /\ p < x + k
          BY <5>3, <5>4
        <5>6. x = c1 - c2
          BY DEF x
        <5> HIDE DEF p, c1, c2, a, b
        <5>7. c2 + p >= c1 /\ c2 + p < c1 + k
          BY <2>2, <3>1, <3>2, <5>5, <5>6
        <5> QED
          BY <5>3, <5>4, <5>7 DEF p
      <4> QED
        BY <4>1, <4>2
    <3> HIDE DEF n
    <3> DEFINE e == c2 + n * k
    <3>5. (u + n) * k = e
      <4>1. (u + n) * k = u * k + n * k
        BY <2>2, <3>4
      <4> QED
        BY <3>2, <4>1
    <3>6. again <=> c1 = e
      BY <3>3, <3>5
    <3>7. counter' = IF c1 = e THEN <<0, 0>> ELSE <<c1, e>>
      BY <2>1, <2>7 DEF Leftover
    <3>8. e >= c1 /\ e < c1 + k /\ c1 \in Nat /\ e \in Nat
      <4> HIDE DEF a, b
      <4> QED
        BY <2>2, <3>1, <3>2, <3>4
    <3>9. i + 1 \in Nat /\ u + n \in Nat
      BY <2>2, <3>4
    <3>10. CASE c1 = e
      <4>1. cpuCycles' = 0 /\ updates' = 0 /\ counter' = <<0, 0>> /\ clock' = clock
        BY <2>1, <3>6, <3>7, <3>10
      <4> QED
        BY <2>2, <2>5, <4>1 DEF ClockInv
    <3>11. CASE c1 # e
      <4>1. cpuCycles' = i + 1 /\ updates' = u + n /\ counter' = <<c1, e>> /\ clock' = clock
        BY <2>1, <3>6, <3>7, <3>11
      <4>2. counter' = <<cpuCycles' * clock'[1], updates' * clock'[2]>>
        BY <3>3, <3>5, <4>1
      <4>3. clock'[1] # clock'[2]
        BY <2>7, <4>1
      <4>4. clock' \in (Nat \ {0}) \X (Nat \ {0}) /\ cpuCycles' \in Nat /\ updates' \in Nat
        BY <2>2, <3>9, <4>1
      <4>5. counter'[1] <= counter'[2] /\ counter'[2] < counter'[1] + clock'[2]
        <5>1. counter'[1] = c1 /\ counter'[2] = e /\ clock'[2] = k
          BY <4>1
        <5> HIDE DEF c1, e, k
        <5>2. c1 <= e /\ e < c1 + k
          BY <3>8
        <5> QED
          BY <5>1, <5>2
      <4> QED
        BY <4>2, <4>3, <4>4, <4>5 DEF ClockInv
    <3> QED
      BY <3>10, <3>11
  <2> QED
    BY <2>6, <2>7
<1> QED
  BY <1>1, <1>2

LEMMA ClockInvInStep == ClockInv => ClocksInStep
<1> SUFFICES ASSUME ClockInv PROVE ClocksInStep
  OBVIOUS
<1> DEFINE a == cpuCycles * clock[1]  b == updates * clock[2]  k == clock[2]
<1>1. cpuCycles \in Nat /\ updates \in Nat /\ clock[1] \in Nat /\ k \in Nat \ {0}
  BY DEF ClockInv
<1>2. a \in Nat /\ b \in Nat
  BY <1>1
<1>3. a <= b /\ b < a + k
  BY DEF ClockInv
<1>4. (updates - 1) * k = b - k
  BY <1>1
<1> HIDE DEF a, b
<1>5. b >= a /\ b - k < a
  BY <1>1, <1>2, <1>3
<1> QED
  BY <1>4, <1>5 DEF ClocksInStep, a, b

\* Whatever the two clocks, the memory is updated as often as its own clock
\* asks for (ClockDomainCrosser::update), and never falls behind.
THEOREM ChannelClocks == ChannelSpec => []ClocksInStep
<1>1. ChannelInit => ClockInv
  BY ClockInvInit
<1>2. ClockInv /\ [update_channels]_channelVars => ClockInv'
  BY ClockInvStep
<1>3. ClockInv => ClocksInStep
  BY ClockInvInStep
<1> QED
  BY <1>1, <1>2, <1>3, PTL DEF ChannelSpec
=============================================================================
