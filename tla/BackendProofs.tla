----------------------------- MODULE BackendProofs -----------------------------
(***************************************************************************)
(* Type correctness, precise retirement, the order of loads and stores and *)
(* of accelerator calls in the CPU back end, for every program, every      *)
(* width and every queue size.                                             *)
(*                                                                         *)
(* None of the properties is inductive.  They all rest on where an         *)
(* instruction can be: insnQueue and instList are consecutive stretches of *)
(* the program, an instruction's place in them bounds its status, and its  *)
(* status says in which of the other queues it is.                         *)
(***************************************************************************)
EXTENDS Backend, TLAPS, SequenceTheorems, FiniteSetTheorems

\* The instructions below Last have been dispatched, those below First have
\* left the ROB.
Last == Len(prog) - Len(insnQueue)
First == Last - Len(instList)

ProgramOrder ==
    /\ First \in Nat /\ Last \in Nat
    /\ \A j \in 1 .. Len(insnQueue) : insnQueue[j] = Last + j - 1
    /\ \A j \in 1 .. Len(instList) : instList[j] = First + j - 1

\* Nothing happens to an instruction before it is dispatched, one in the ROB
\* has not retired, one that has left it has.
StatusByAge ==
    \A i \in Ids :
        /\ i >= Last => status[i] = INIT
        /\ First <= i /\ i < Last => status[i] >= ALLOCATED /\ status[i] # COMMITED
        /\ i < First => status[i] = COMMITED \/ (isCosimFunc(i) /\ status[i] = FINISHED)

Waiting(i) == i < Last /\ status[i] \in {ALLOCATED, READY}

\* The issue queues hold what waits to be issued.
IssueQueuesExact ==
    \A i \in Ids :
        /\ i \in Elems(issueQueue) <=> Waiting(i) /\ ~isCosimFunc(i)
        /\ i \in Elems(cosimIssueQueue) <=> Waiting(i) /\ isCosimFunc(i)

\* The queue of accelerator calls is in program order.
CosimQueueOrder ==
    \A j, h \in 1 .. Len(cosimIssueQueue) : j < h => cosimIssueQueue[j] < cosimIssueQueue[h]

\* What is being executed is in inFlightInsn, and a store until it is sent.
InFlightExact ==
    /\ \A j \in 1 .. Len(inFlightInsn) : inFlightInsn[j] < Last /\ status[inFlightInsn[j]] >= ISSUED
    /\ \A i \in Ids : First <= i /\ i < Last /\ status[i] >= ISSUED => i \in Elems(inFlightInsn)
    /\ \A i \in Ids : i < First /\ Kind(i) = "store" /\ i \notin sent => i \in Elems(inFlightInsn)

\* The store queue holds every store that has not been retired and sent.
StoreQueue ==
    /\ \A j \in 1 .. Len(STQ) : STQ[j] < Last /\ Kind(STQ[j]) = "store"
    /\ \A i \in Ids : i < Last /\ Kind(i) = "store" =>
            i \in Elems(STQ) \/ (status[i] = COMMITED /\ i \in sent)

\* A load that L1 has accepted waits for the answer, and gets one.
LoadsWait ==
    /\ \A i \in loading \cup responses : i < Last /\ Kind(i) = "load" /\ status[i] = EXECUTING
    /\ loading \cap responses = {}

\* What has been sent is at least being executed.
SentLate == \A i \in sent : i < Last /\ status[i] >= EXECUTING

\* A sleeping load is on one list, that of the youngest older store to its
\* address, which has not been sent to memory.
Sleepers ==
    /\ \A s \in Ids : \A i \in forwardList[s] : status[i] = SLEEP
    /\ \A i \in Ids : status[i] = SLEEP =>
        /\ i < Last /\ Kind(i) = "load"
        /\ \E s \in Elems(STQ) :
            /\ \A r \in Ids : i \in forwardList[r] <=> r = s
            /\ s < i /\ Addr(s) = Addr(i)
            /\ \A r \in s + 1 .. i - 1 : Kind(r) = "store" => Addr(r) # Addr(i)
            /\ s \notin sent

\* An accelerator call may issue when it is the oldest instruction, and only
\* then is it handed over.
CosimAllowed ==
    /\ \A c \in cosimCanIssue : c <= First /\ c < Last
    /\ \A c \in Ids : c < Last /\ isCosimFunc(c) /\ status[c] >= ISSUED => c \in cosimCanIssue

\* The accelerator holds calls in program order.
SacOrder ==
    /\ \A j \in 1 .. Len(sac) : sac[j] < Last /\ isCosimFunc(sac[j]) /\ status[sac[j]] >= ISSUED
    /\ \A j, h \in 1 .. Len(sac) : j < h => sac[j] < sac[h]

BInv ==
    /\ TypeOK /\ ProgramOrder /\ StatusByAge /\ IssueQueuesExact /\ CosimQueueOrder
    /\ InFlightExact /\ StoreQueue /\ LoadsWait /\ SentLate /\ MemoryOrder /\ Sleepers
    /\ CosimAllowed /\ SacOrder /\ FenceDrains

-----------------------------------------------------------------------------
(***************************************************************************)
(* The helpers on sets and sequences.                                      *)
(***************************************************************************)

\* A set of naturals that is not empty has a least member.
LEMMA LeastMember ==
    ASSUME NEW S \in SUBSET Nat, S # {}
    PROVE  \E n \in S : \A m \in S : n <= m
<1> DEFINE R == OpToRel(<, Nat)
<1>1. IsWellFoundedOn(R, Nat)
  BY NatLessThanWellFounded, Zenon
<1>2. \A x, y \in Nat : <<y, x>> \in R <=> y < x
  BY DEF OpToRel
<1> HIDE DEF R
<1>3. PICK x \in S : \A y \in S : ~(<<y, x>> \in R)
  BY <1>1, WFMin
<1>4. \A y \in S : x \in Nat /\ y \in Nat /\ ~(y < x)
  BY <1>2, <1>3
<1>5. \A y \in S : x <= y
  BY <1>4
<1> QED
  BY <1>3, <1>5

\* A set of naturals that holds 0 and the successor of each of its members is Nat.
LEMMA InductiveSet ==
    ASSUME NEW S \in SUBSET Nat, 0 \in S, \A n \in S : n + 1 \in S
    PROVE  S = Nat
<1> SUFFICES ASSUME Nat \ S # {} PROVE FALSE
  OBVIOUS
<1>1. PICK x \in Nat \ S : \A y \in Nat \ S : x <= y
  BY LeastMember
<1>2. x # 0 /\ x - 1 \in Nat /\ ~(x <= x - 1)
  BY <1>1
<1>3. x - 1 \in S
  BY <1>1, <1>2
<1>4. (x - 1) + 1 \in S
  BY <1>3
<1> QED
  BY <1>1, <1>4

\* Youngest finds the greatest member of a bounded set.
LEMMA YoungestIs ==
    ASSUME NEW n \in Nat, NEW S \in SUBSET (0 .. n), S # {}
    PROVE  Youngest(S) \in S /\ \A r \in S : r <= Youngest(S)
<1> DEFINE B == {b \in Nat : \A r \in S : r <= b}
<1>1. n \in B
  OBVIOUS
<1>2. B \in SUBSET Nat /\ B # {}
  BY <1>1
<1>3. PICK m \in B : \A b \in B : m <= b
  BY <1>2, LeastMember
<1>4. m \in S
  <2> SUFFICES ASSUME m \notin S PROVE FALSE
    OBVIOUS
  <2>1. \A r \in S : r <= m /\ r # m
    BY <1>3
  <2>2. m # 0
    <3>1. PICK r \in S : TRUE
      OBVIOUS
    <3>2. r \in 0 .. n /\ r <= m /\ r # m
      BY <2>1
    <3> QED
      BY <3>2
  <2>3. m - 1 \in B
    BY <2>1, <2>2, <1>3
  <2> QED
    BY <2>3, <1>3
<1>5. \E s \in S : \A r \in S : r <= s
  BY <1>3, <1>4
<1> QED
  BY <1>5 DEF Youngest

\* PrefixIn finds the prefix it speaks of.
LEMMA PrefixInIs ==
    ASSUME NEW X, NEW s \in Seq(X), NEW S
    PROVE  /\ PrefixIn(s, S) \in 0 .. Len(s)
           /\ \A j \in 1 .. PrefixIn(s, S) : s[j] \in S
           /\ PrefixIn(s, S) < Len(s) => s[PrefixIn(s, S) + 1] \notin S
<1> DEFINE P(n) == /\ \A j \in 1 .. n : s[j] \in S
                   /\ n < Len(s) => s[n + 1] \notin S
<1>1. Len(s) \in Nat
  OBVIOUS
<1>2. \E n \in 0 .. Len(s) : P(n)
  <2> DEFINE B == {n \in Nat : n < Len(s) /\ s[n + 1] \notin S}
  <2>1. CASE B = {}
    <3>1. \A j \in 1 .. Len(s) : j - 1 \in Nat /\ j - 1 < Len(s) /\ (j - 1) + 1 = j
      BY <1>1
    <3>2. \A j \in 1 .. Len(s) : s[j] \in S
      BY <2>1, <3>1
    <3>3. P(Len(s))
      BY <1>1, <3>2
    <3> QED
      BY <1>1, <3>3
  <2>2. CASE B # {}
    <3>1. PICK n \in B : \A m \in B : n <= m
      BY <2>2, LeastMember
    <3>2. \A j \in 1 .. n : j - 1 \in Nat /\ j - 1 < Len(s) /\ ~(n <= j - 1) /\ (j - 1) + 1 = j
      BY <1>1, <3>1
    <3>3. \A j \in 1 .. n : s[j] \in S
      BY <3>1, <3>2
    <3> QED
      BY <1>1, <3>1, <3>3
  <2> QED
    BY <2>1, <2>2
<1>3. PrefixIn(s, S) = CHOOSE n \in 0 .. Len(s) : P(n)
  BY DEF PrefixIn
<1> HIDE DEF P
<1>4. PrefixIn(s, S) \in 0 .. Len(s) /\ P(PrefixIn(s, S))
  BY <1>2, <1>3
<1> QED
  BY <1>4 DEF P

\* What is left of a sequence without its first n elements.
LEMMA DropIs ==
    ASSUME NEW X, NEW s \in Seq(X), NEW n \in 0 .. Len(s)
    PROVE  /\ Drop(s, n) \in Seq(X) /\ Len(Drop(s, n)) = Len(s) - n
           /\ \A j \in 1 .. Len(s) - n : Drop(s, n)[j] = s[n + j]
<1>1. Len(s) \in Nat /\ n \in Nat /\ n <= Len(s)
  OBVIOUS
<1>2. \A i \in n + 1 .. Len(s) : s[i] \in X
  BY <1>1, ElementOfSeq
<1> QED
  BY <1>1, <1>2, SubSeqProperties DEF Drop

\* Its elements.
LEMMA DropElems ==
    ASSUME NEW X, NEW s \in Seq(X), NEW n \in 0 .. Len(s)
    PROVE  /\ Elems(Drop(s, n)) \subseteq Elems(s)
           /\ \A x \in Elems(s) : x \in Elems(Drop(s, n)) \/ \E j \in 1 .. n : s[j] = x
<1>1. Len(s) \in Nat /\ n \in Nat /\ n <= Len(s)
  OBVIOUS
<1>2. /\ Len(Drop(s, n)) = Len(s) - n
      /\ \A j \in 1 .. Len(s) - n : Drop(s, n)[j] = s[n + j]
  BY DropIs
<1>3. Elems(Drop(s, n)) \subseteq Elems(s)
  BY <1>1, <1>2 DEF Elems
<1>4. ASSUME NEW x \in Elems(s) PROVE x \in Elems(Drop(s, n)) \/ \E j \in 1 .. n : s[j] = x
  <2>1. PICK j \in 1 .. Len(s) : s[j] = x
    BY DEF Elems
  <2>2. CASE j <= n
    BY <1>1, <2>1, <2>2
  <2>3. CASE j > n
    <3>1. j - n \in 1 .. Len(s) - n /\ n + (j - n) = j
      BY <1>1, <2>3
    <3>2. Drop(s, n)[j - n] = x /\ j - n \in 1 .. Len(Drop(s, n))
      BY <1>2, <2>1, <3>1
    <3> QED
      BY <3>2 DEF Elems
  <2> QED
    BY <1>1, <2>2, <2>3
<1> QED
  BY <1>3, <1>4

\* The elements of two sequences one after the other.
LEMMA ConcatElems ==
    ASSUME NEW X, NEW s \in Seq(X), NEW t \in Seq(X)
    PROVE  Elems(s \o t) = Elems(s) \cup Elems(t)
<1>1. /\ Len(s) \in Nat /\ Len(t) \in Nat /\ Len(s \o t) = Len(s) + Len(t)
      /\ \A i \in 1 .. Len(s) + Len(t) : (s \o t)[i] = IF i <= Len(s) THEN s[i] ELSE t[i - Len(s)]
  BY LenProperties, ConcatProperties
<1> DEFINE u == s \o t
<1> HIDE DEF u
<1>2. /\ Len(u) = Len(s) + Len(t)
      /\ \A i \in 1 .. Len(s) + Len(t) : u[i] = IF i <= Len(s) THEN s[i] ELSE t[i - Len(s)]
  BY <1>1 DEF u
<1>3. ASSUME NEW x \in Elems(u) PROVE x \in Elems(s) \cup Elems(t)
  <2>1. PICK j \in 1 .. Len(s) + Len(t) : u[j] = x
    BY <1>2 DEF Elems
  <2>2. j <= Len(s) \/ j - Len(s) \in 1 .. Len(t)
    BY <1>1
  <2> QED
    BY <1>1, <1>2, <2>1, <2>2 DEF Elems
<1>4. ASSUME NEW x \in Elems(s) PROVE x \in Elems(u)
  BY <1>1, <1>2 DEF Elems
<1>5. ASSUME NEW x \in Elems(t) PROVE x \in Elems(u)
  <2>1. PICK j \in 1 .. Len(t) : t[j] = x
    BY DEF Elems
  <2>2. u[j + Len(s)] = x /\ j + Len(s) \in 1 .. Len(u)
    BY <1>1, <1>2, <2>1
  <2> QED
    BY <2>2 DEF Elems
<1> QED
  BY <1>3, <1>4, <1>5 DEF u

\* f is the function that Only(s, S) defines by recursion.
OnlyTable(X, s, S, f) ==
    /\ f \in [0 .. Len(s) -> Seq(X)]
    /\ Only(s, S) = f[Len(s)]
    /\ f[0] = <<>>
    /\ \A n \in 1 .. Len(s) : f[n] = IF s[n] \in S THEN Append(f[n - 1], s[n]) ELSE f[n - 1]

\* There is such a function.
LEMMA OnlyRecursion ==
    ASSUME NEW X, NEW s \in Seq(X), NEW S
    PROVE  \E f : OnlyTable(X, s, S, f)
<1> DEFINE F(f) == [n \in 0 .. Len(s) |->
                        IF n = 0 THEN <<>>
                        ELSE IF s[n] \in S THEN Append(f[n - 1], s[n]) ELSE f[n - 1]]
<1> DEFINE G(n) == {g \in [0 .. n -> Seq(X)] :
                        /\ g[0] = <<>>
                        /\ \A m \in 1 .. n :
                              g[m] = IF s[m] \in S THEN Append(g[m - 1], s[m]) ELSE g[m - 1]}
<1> DEFINE N == {n \in Nat : n <= Len(s) => G(n) # {}}
<1>1. Len(s) \in Nat /\ \A n \in 1 .. Len(s) : s[n] \in X
  OBVIOUS
<1>2. Only(s, S) = (CHOOSE f : f = F(f))[Len(s)]
  BY DEF Only
<1>3. 0 \in N
  <2>1. [n \in 0 .. 0 |-> <<>>] \in G(0)
    OBVIOUS
  <2> QED
    BY <2>1
<1>4. ASSUME NEW n \in N PROVE n + 1 \in N
  <2> SUFFICES ASSUME n + 1 <= Len(s) PROVE G(n + 1) # {}
    <3> HIDE DEF G
    <3> QED
      OBVIOUS
  <2>1. n \in Nat /\ n <= Len(s) /\ n + 1 \in 1 .. Len(s)
    BY <1>1
  <2>2. PICK g \in G(n) : TRUE
    BY <2>1
  <2> DEFINE v == IF s[n + 1] \in S THEN Append(g[n], s[n + 1]) ELSE g[n]
             h == [m \in 0 .. n + 1 |-> IF m = n + 1 THEN v ELSE g[m]]
  <2>3. g[n] \in Seq(X) /\ v \in Seq(X)
    BY <1>1, <2>1, <2>2, AppendProperties
  <2> HIDE DEF v
  <2>4. h \in [0 .. n + 1 -> Seq(X)] /\ h[0] = <<>>
    BY <2>1, <2>2, <2>3
  <2>5. ASSUME NEW m \in 1 .. n + 1
        PROVE  h[m] = IF s[m] \in S THEN Append(h[m - 1], s[m]) ELSE h[m - 1]
    <3>1. CASE m = n + 1
      <4>1. h[m] = v /\ h[m - 1] = g[n]
        BY <2>1, <3>1
      <4> QED
        BY <4>1, <3>1 DEF v
    <3>2. CASE m # n + 1
      <4>1. m \in 1 .. n /\ h[m] = g[m] /\ h[m - 1] = g[m - 1]
        BY <2>1, <3>2
      <4>2. g[m] = IF s[m] \in S THEN Append(g[m - 1], s[m]) ELSE g[m - 1]
        BY <2>2, <4>1
      <4> QED
        BY <4>1, <4>2
    <3> QED
      BY <3>1, <3>2
  <2>6. h \in G(n + 1)
    BY <2>4, <2>5
  <2> QED
    BY <2>6
<1>5. N = Nat
  <2> HIDE DEF N
  <2> SUFFICES N \in SUBSET Nat
    BY <1>3, <1>4, InductiveSet
  <2> QED
    BY DEF N
<1>6. PICK g \in G(Len(s)) : TRUE
  <2> HIDE DEF G
  <2>1. Len(s) \in N
    BY <1>1, <1>5
  <2> QED
    BY <1>1, <2>1
<1>7. g = F(g)
  <2>1. /\ g \in [0 .. Len(s) -> Seq(X)] /\ g[0] = <<>>
        /\ \A m \in 1 .. Len(s) :
              g[m] = IF s[m] \in S THEN Append(g[m - 1], s[m]) ELSE g[m - 1]
    BY <1>6
  <2>2. ASSUME NEW n \in 0 .. Len(s) PROVE g[n] = F(g)[n]
    <3>1. CASE n = 0
      BY <2>1, <3>1, <1>1
    <3>2. CASE n # 0
      <4>1. n \in 1 .. Len(s)
        BY <3>2, <1>1
      <4>2. F(g)[n] = IF s[n] \in S THEN Append(g[n - 1], s[n]) ELSE g[n - 1]
        BY <3>2
      <4> QED
        BY <4>1, <4>2, <2>1
    <3> QED
      BY <3>1, <3>2
  <2>3. DOMAIN F(g) = 0 .. Len(s) /\ F(g) = [n \in DOMAIN F(g) |-> F(g)[n]]
    OBVIOUS
  <2>4. g = [n \in 0 .. Len(s) |-> g[n]]
    BY <2>1
  <2> HIDE DEF F
  <2> QED
    BY <2>2, <2>3, <2>4
<1> DEFINE f == CHOOSE f : f = F(f)
<1>8. f = F(f)
  BY <1>7
<1>9. Only(s, S) = f[Len(s)]
  BY <1>2
<1> HIDE DEF f
<1>10. f[0] = <<>> /\ \A n \in 1 .. Len(s) :
            f[n] = IF s[n] \in S THEN Append(f[n - 1], s[n]) ELSE f[n - 1]
  <2>1. F(f)[0] = <<>>
    BY <1>1
  <2>2. ASSUME NEW n \in 1 .. Len(s)
        PROVE  F(f)[n] = IF s[n] \in S THEN Append(f[n - 1], s[n]) ELSE f[n - 1]
    <3>1. n \in 0 .. Len(s) /\ n # 0
      BY <1>1
    <3> QED
      BY <3>1
  <2> HIDE DEF F
  <2> QED
    BY <1>8, <2>1, <2>2
<1> DEFINE M == {n \in Nat : n <= Len(s) => f[n] \in Seq(X)}
<1>11. 0 \in M
  BY <1>10
<1>12. ASSUME NEW n \in M PROVE n + 1 \in M
  <2> SUFFICES ASSUME n + 1 <= Len(s) PROVE f[n + 1] \in Seq(X)
    OBVIOUS
  <2>1. n \in Nat /\ n + 1 \in 1 .. Len(s) /\ (n + 1) - 1 = n /\ f[n] \in Seq(X)
    BY <1>1
  <2>2. s[n + 1] \in X
    BY <1>1, <2>1
  <2>3. f[n + 1] = IF s[n + 1] \in S THEN Append(f[n], s[n + 1]) ELSE f[n]
    BY <1>10, <2>1
  <2>4. Append(f[n], s[n + 1]) \in Seq(X)
    BY <2>1, <2>2, AppendProperties
  <2> QED
    BY <2>1, <2>3, <2>4
<1>13. M = Nat
  <2> HIDE DEF M
  <2> SUFFICES M \in SUBSET Nat
    BY <1>11, <1>12, InductiveSet
  <2> QED
    BY DEF M
<1>14. \A n \in 0 .. Len(s) : f[n] \in Seq(X)
  BY <1>1, <1>13
<1>15. f = [n \in 0 .. Len(s) |-> f[n]]
  BY <1>8
<1>16. f \in [0 .. Len(s) -> Seq(X)]
  BY <1>14, <1>15
<1> QED
  BY <1>9, <1>10, <1>16 DEF OnlyTable

\* Only keeps the elements that are in S.
LEMMA OnlyIs ==
    ASSUME NEW X, NEW s \in Seq(X), NEW S
    PROVE  /\ Only(s, S) \in Seq(X) /\ Len(Only(s, S)) <= Len(s)
           /\ \A x : x \in Elems(Only(s, S)) <=> x \in Elems(s) /\ x \in S
<1>1. PICK f : OnlyTable(X, s, S, f)
  BY OnlyRecursion
<1>t. /\ f \in [0 .. Len(s) -> Seq(X)] /\ Only(s, S) = f[Len(s)] /\ f[0] = <<>>
      /\ \A n \in 1 .. Len(s) : f[n] = IF s[n] \in S THEN Append(f[n - 1], s[n]) ELSE f[n - 1]
  BY <1>1 DEF OnlyTable
<1>2. Len(s) \in Nat /\ \A n \in 1 .. Len(s) : s[n] \in X
  OBVIOUS
<1> DEFINE P(n) == /\ Len(f[n]) <= n
                   /\ \A x : x \in Elems(f[n]) <=> x \in S /\ \E j \in 1 .. n : s[j] = x
           N == {n \in Nat : n <= Len(s) => P(n)}
<1>3. 0 \in N
  BY <1>t DEF Elems
<1>4. ASSUME NEW n \in N PROVE n + 1 \in N
  <2> SUFFICES ASSUME n + 1 <= Len(s) PROVE P(n + 1)
    <3> HIDE DEF P
    <3> QED
      OBVIOUS
  <2>1. n \in Nat /\ n + 1 \in 1 .. Len(s) /\ (n + 1) - 1 = n /\ n \in 0 .. Len(s)
    BY <1>2
  <2>2. P(n)
    <3> HIDE DEF P
    <3> QED
      BY <1>2, <2>1
  <2>3. f[n + 1] = IF s[n + 1] \in S THEN Append(f[n], s[n + 1]) ELSE f[n]
    BY <1>t, <2>1
  <2>4. s[n + 1] \in X /\ f[n] \in Seq(X) /\ Len(f[n]) \in Nat
    <3> HIDE DEF P, N
    <3>1. s[n + 1] \in X
      BY <1>2, <2>1
    <3>2. f[n] \in Seq(X)
      BY <1>t, <2>1
    <3> QED
      BY <3>1, <3>2
  <2>5. /\ Len(Append(f[n], s[n + 1])) = Len(f[n]) + 1
        /\ \A x : x \in Elems(Append(f[n], s[n + 1])) <=> x \in Elems(f[n]) \/ x = s[n + 1]
    <3> DEFINE t == f[n]  e == s[n + 1]  u == Append(t, e)
    <3>1. t \in Seq(X) /\ e \in X
      BY <2>4
    <3> HIDE DEF t, e
    <3>2. Len(u) = Len(t) + 1 /\ u[Len(t) + 1] = e /\ Len(t) \in Nat
          /\ \A j \in 1 .. Len(t) : u[j] = t[j]
      BY <3>1, AppendProperties
    <3> HIDE DEF u
    <3>3. \A x : x \in Elems(u) => x \in Elems(t) \/ x = e
      BY <3>2 DEF Elems
    <3>4. \A x : x \in Elems(t) => x \in Elems(u)
      BY <3>2 DEF Elems
    <3>5. e \in Elems(u)
      <4>1. Len(t) + 1 \in 1 .. Len(u)
        BY <3>2
      <4> QED
        BY <4>1, <3>2 DEF Elems
    <3> QED
      BY <3>2, <3>3, <3>4, <3>5 DEF t, e, u
  <2>6. \A x : (\E j \in 1 .. n + 1 : s[j] = x) <=> (\E j \in 1 .. n : s[j] = x) \/ x = s[n + 1]
    BY <2>1
  <2>7. CASE s[n + 1] \in S
    <3>1. f[n + 1] = Append(f[n], s[n + 1])
      BY <2>3, <2>7
    <3>2. Len(f[n + 1]) <= n + 1
      BY <2>1, <2>2, <2>4, <2>5, <3>1
    <3>3. \A x : x \in Elems(f[n + 1]) <=> x \in Elems(f[n]) \/ x = s[n + 1]
      BY <2>5, <3>1
    <3>4. \A x : x \in Elems(f[n]) <=> x \in S /\ \E j \in 1 .. n : s[j] = x
      BY <2>2
    <3>5. \A x : x \in Elems(f[n + 1]) <=> x \in S /\ \E j \in 1 .. n + 1 : s[j] = x
      BY <3>3, <3>4, <2>6, <2>7
    <3> QED
      BY <3>2, <3>5
  <2>8. CASE s[n + 1] \notin S
    <3>1. f[n + 1] = f[n]
      BY <2>3, <2>8
    <3>2. Len(f[n + 1]) <= n + 1
      BY <2>1, <2>2, <2>4, <3>1
    <3>3. \A x : x \in Elems(f[n]) <=> x \in S /\ \E j \in 1 .. n : s[j] = x
      BY <2>2
    <3>4. \A x : x \in Elems(f[n + 1]) <=> x \in S /\ \E j \in 1 .. n + 1 : s[j] = x
      BY <3>1, <3>3, <2>6, <2>8
    <3> QED
      BY <3>2, <3>4
  <2> QED
    BY <2>7, <2>8
<1>5. N = Nat
  <2> HIDE DEF N
  <2> SUFFICES N \in SUBSET Nat
    BY <1>3, <1>4, InductiveSet
  <2> QED
    BY DEF N
<1>6. P(Len(s))
  <2> HIDE DEF P
  <2> QED
    BY <1>2, <1>5
<1>7. \A x : x \in Elems(s) <=> \E j \in 1 .. Len(s) : s[j] = x
  BY DEF Elems
<1>8. f[Len(s)] \in Seq(X)
  BY <1>t, <1>2
<1> QED
  BY <1>t, <1>6, <1>7, <1>8

\* Only keeps their order.
LEMMA OnlyIncreasing ==
    ASSUME NEW s \in Seq(Ids), NEW S, \A i, j \in 1 .. Len(s) : i < j => s[i] < s[j]
    PROVE  \A i, j \in 1 .. Len(Only(s, S)) : i < j => Only(s, S)[i] < Only(s, S)[j]
<1>1. PICK f : OnlyTable(Ids, s, S, f)
  BY OnlyRecursion
<1>t. /\ f \in [0 .. Len(s) -> Seq(Ids)] /\ Only(s, S) = f[Len(s)] /\ f[0] = <<>>
      /\ \A n \in 1 .. Len(s) : f[n] = IF s[n] \in S THEN Append(f[n - 1], s[n]) ELSE f[n - 1]
  BY <1>1 DEF OnlyTable
<1>2. Len(s) \in Nat /\ \A n \in 1 .. Len(s) : s[n] \in Ids
  OBVIOUS
<1> DEFINE P(n) == /\ \A i, j \in 1 .. Len(f[n]) : i < j => f[n][i] < f[n][j]
                   /\ \A i \in 1 .. Len(f[n]) : \E j \in 1 .. n : f[n][i] = s[j]
           N == {n \in Nat : n <= Len(s) => P(n)}
<1>3. 0 \in N
  BY <1>t
<1>4. ASSUME NEW n \in N PROVE n + 1 \in N
  <2> SUFFICES ASSUME n + 1 <= Len(s) PROVE P(n + 1)
    <3> HIDE DEF P
    <3> QED
      OBVIOUS
  <2>1. n \in Nat /\ n + 1 \in 1 .. Len(s) /\ (n + 1) - 1 = n /\ n \in 0 .. Len(s)
    BY <1>2
  <2>2. P(n)
    <3> HIDE DEF P
    <3> QED
      BY <1>2, <2>1
  <2> DEFINE t == f[n]  e == s[n + 1]  u == Append(t, e)
  <2>3. f[n + 1] = IF e \in S THEN u ELSE t
    BY <1>t, <2>1
  <2>4. t \in Seq(Ids) /\ e \in Ids
    BY <1>t, <1>2, <2>1
  <2>5. /\ \A i, j \in 1 .. Len(t) : i < j => t[i] < t[j]
        /\ \A i \in 1 .. Len(t) : \E j \in 1 .. n : t[i] = s[j]
    BY <2>2
  <2>6. ASSUME NEW j \in 1 .. n PROVE s[j] < e
    <3>1. j \in 1 .. Len(s) /\ n + 1 \in 1 .. Len(s) /\ j < n + 1
      BY <2>1, <1>2
    <3> HIDE DEF P, N
    <3> QED
      BY <3>1
  <2>7. \A i \in 1 .. Len(t) : t[i] < e
    BY <2>5, <2>6
  <2>e. e = s[n + 1]
    OBVIOUS
  <2> HIDE DEF t, e
  <2>8. Len(u) = Len(t) + 1 /\ u[Len(t) + 1] = e /\ Len(t) \in Nat
        /\ \A j \in 1 .. Len(t) : u[j] = t[j]
    BY <2>4, AppendProperties
  <2> HIDE DEF u
  <2>9. ASSUME NEW i \in 1 .. Len(u), NEW j \in 1 .. Len(u), i < j PROVE u[i] < u[j]
    <3>1. i \in 1 .. Len(t) /\ u[i] = t[i]
      BY <2>8, <2>9
    <3>2. CASE j = Len(t) + 1
      BY <2>7, <2>8, <3>1, <3>2
    <3>3. CASE j # Len(t) + 1
      <4>1. j \in 1 .. Len(t) /\ u[j] = t[j]
        BY <2>8, <3>3
      <4> QED
        BY <2>5, <2>9, <3>1, <4>1
    <3> QED
      BY <3>2, <3>3
  <2>10. \A i \in 1 .. Len(u) : \E j \in 1 .. n + 1 : u[i] = s[j]
    <3> SUFFICES ASSUME NEW i \in 1 .. Len(u) PROVE \E j \in 1 .. n + 1 : u[i] = s[j]
      OBVIOUS
    <3>1. CASE i = Len(t) + 1
      <4>1. n + 1 \in 1 .. n + 1
        BY <2>1
      <4> QED
        BY <4>1, <2>8, <2>e, <3>1
    <3>2. CASE i # Len(t) + 1
      BY <2>1, <2>5, <2>8, <3>2
    <3> QED
      BY <3>1, <3>2
  <2>11. \A i \in 1 .. Len(t) : \E j \in 1 .. n + 1 : t[i] = s[j]
    BY <2>1, <2>5
  <2>12. CASE e \in S
    BY <2>3, <2>9, <2>10, <2>12
  <2>13. CASE e \notin S
    BY <2>3, <2>5, <2>11, <2>13
  <2> QED
    BY <2>12, <2>13
<1>5. N = Nat
  <2> HIDE DEF N
  <2> SUFFICES N \in SUBSET Nat
    BY <1>3, <1>4, InductiveSet
  <2> QED
    BY DEF N
<1>6. P(Len(s))
  <2> HIDE DEF P
  <2> QED
    BY <1>2, <1>5
<1> QED
  BY <1>t, <1>6

-----------------------------------------------------------------------------
(***************************************************************************)
(* The inductive invariant.                                                *)
(***************************************************************************)

USE DEF INIT, ALLOCATED, READY, ISSUED, EXECUTING, FINISHED, COMMITED, SLEEP

\* First and Last split the program.
LEMMA Ages ==
    ASSUME TypeOK, ProgramOrder
    PROVE  /\ MaxInsns \in Nat /\ Len(prog) \in Nat /\ Len(prog) <= MaxInsns
           /\ First \in Nat /\ Last \in Nat /\ First <= Last /\ Last <= Len(prog)
           /\ Len(insnQueue) \in Nat /\ Last + Len(insnQueue) = Len(prog)
           /\ Len(instList) \in Nat /\ First + Len(instList) = Last
           /\ \A i \in Ids : i \in Nat /\ i \in Int /\ status[i] \in 0 .. 7
           /\ \A i \in Nat : i < Len(prog) => i \in Ids
           /\ \A i : i \in Insns <=> i \in Ids /\ i < Len(prog)
<1>1. /\ prog \in Seq(Templates) /\ insnQueue \in Seq(Ids) /\ instList \in Seq(Ids)
      /\ Len(prog) <= MaxInsns /\ status \in [Ids -> 0 .. 7]
  BY DEF TypeOK
<1>2. Len(prog) \in Nat /\ Len(insnQueue) \in Nat /\ Len(instList) \in Nat
  BY <1>1
<1>3. First \in Nat /\ Last \in Nat
  BY DEF ProgramOrder
<1>4. /\ MaxInsns \in Nat /\ \A i \in Ids : i \in Nat /\ i \in Int
      /\ \A i \in Nat : i < Len(prog) => i \in Ids
  BY <1>1, <1>2, SizeAssumption DEF Ids
<1>5. \A i \in Ids : status[i] \in 0 .. 7
  BY <1>1
<1>6. \A i : i \in Insns <=> i \in Ids /\ i < Len(prog)
  BY <1>1, <1>2, <1>4 DEF Insns, Ids
<1> QED
  BY <1>1, <1>2, <1>3, <1>4, <1>5, <1>6 DEF First, Last

\* The ROB holds the instructions between them.
LEMMA RobIs ==
    ASSUME TypeOK, ProgramOrder
    PROVE  \A i : i \in Elems(instList) <=> i \in Ids /\ First <= i /\ i < Last
<1>1. /\ First \in Nat /\ Last \in Nat /\ First <= Last /\ Last <= Len(prog) /\ Len(prog) \in Nat
      /\ Len(instList) \in Nat /\ First + Len(instList) = Last
      /\ \A i \in Ids : i \in Nat
      /\ \A i \in Nat : i < Len(prog) => i \in Ids
  BY Ages
<1>2. \A j \in 1 .. Len(instList) : instList[j] = First + j - 1
  BY DEF ProgramOrder
<1>3. ASSUME NEW i \in Elems(instList) PROVE i \in Ids /\ First <= i /\ i < Last
  <2>1. PICK j \in 1 .. Len(instList) : i = instList[j]
    BY DEF Elems
  <2> QED
    BY <1>1, <1>2, <2>1
<1>4. ASSUME NEW i \in Ids, First <= i, i < Last PROVE i \in Elems(instList)
  <2>1. i - First + 1 \in 1 .. Len(instList) /\ i = First + (i - First + 1) - 1
    BY <1>1, <1>4
  <2> QED
    BY <1>2, <2>1 DEF Elems
<1> QED
  BY <1>3, <1>4

\* It holds at first.
LEMMA InitBInv == ASSUME Init PROVE BInv
<1>1. TypeOK
  BY SizeAssumption DEF Init, TypeOK, Ids
<1>2. /\ Len(prog) = 0 /\ Len(insnQueue) = 0 /\ Len(instList) = 0 /\ Len(issueQueue) = 0
      /\ Len(cosimIssueQueue) = 0 /\ Len(inFlightInsn) = 0 /\ Len(STQ) = 0 /\ Len(sac) = 0
      /\ Last = 0 /\ First = 0
  <2>1. /\ Len(prog) = 0 /\ Len(insnQueue) = 0 /\ Len(instList) = 0 /\ Len(issueQueue) = 0
    BY DEF Init
  <2>2. /\ Len(cosimIssueQueue) = 0 /\ Len(inFlightInsn) = 0 /\ Len(STQ) = 0 /\ Len(sac) = 0
    BY DEF Init
  <2>3. Last = 0 /\ First = 0
    BY <2>1 DEF Last, First
  <2> QED
    BY <2>1, <2>2, <2>3
<1>3. \A i \in Ids : i >= 0 /\ i \in Int /\ status[i] = INIT /\ ~(i < 0)
  BY SizeAssumption DEF Init, Ids
<1>4. ProgramOrder /\ StatusByAge
  BY <1>2, <1>3 DEF ProgramOrder, StatusByAge
<1>5. IssueQueuesExact /\ CosimQueueOrder /\ InFlightExact /\ StoreQueue
  BY <1>2, <1>3 DEF IssueQueuesExact, CosimQueueOrder, InFlightExact, StoreQueue, Elems, Waiting
<1>6. loading = {} /\ responses = {} /\ sent = {} /\ cosimCanIssue = {}
      /\ \A i \in Ids : forwardList[i] = {}
  BY DEF Init
<1>7. LoadsWait /\ SentLate /\ MemoryOrder /\ Sleepers
  BY <1>3, <1>6 DEF LoadsWait, SentLate, MemoryOrder, Sleepers
<1>8. CosimAllowed /\ SacOrder /\ FenceDrains
  BY <1>2, <1>3, <1>6 DEF CosimAllowed, SacOrder, FenceDrains
<1> QED
  BY <1>1, <1>4, <1>5, <1>7, <1>8 DEF BInv

\* Program and ROB are the same.
LEMMA SameAges ==
    ASSUME UNCHANGED <<prog, insnQueue, instList>>
    PROVE  /\ Last' = Last /\ First' = First /\ Insns' = Insns
           /\ \A i : Kind(i)' = Kind(i) /\ Addr(i)' = Addr(i) /\ Lat(i)' = Lat(i)
           /\ ProgramOrder => ProgramOrder'
  BY DEF Last, First, Insns, Kind, Addr, Lat, ProgramOrder

\* No instruction of the CPU proper is set back in this step.
StepForward == \A i \in Insns : isCosimFunc(i) \/ Progress(status'[i]) >= Progress(status[i])

\* That is so when its status is the same or Progress grows.
LEMMA SameForward ==
    ASSUME BInv,
           \A i \in Ids :
                \/ isCosimFunc(i) \/ status'[i] = status[i]
                \/ status[i] <= EXECUTING /\ status'[i] \in 0 .. 7 /\ status'[i] > status[i]
                \/ status[i] = SLEEP /\ status'[i] = FINISHED
                \/ status[i] = FINISHED /\ status'[i] = COMMITED
    PROVE  StepForward
<1>1. \A i \in Ids : status[i] \in 0 .. 7
  BY Ages DEF BInv
<1>2. \A i \in Insns : i \in Ids
  BY Ages DEF BInv
<1> QED
  BY <1>1, <1>2 DEF StepForward, Progress

\* L1 answers.
LEMMA L1BInv == ASSUME BInv, NEW R \in SUBSET loading, l1_process(R) PROVE BInv' /\ StepForward
<1> USE DEF l1_process, insnVars, queueVars, lsqVars, sacVars
<1>1. /\ Last' = Last /\ First' = First /\ ProgramOrder'
      /\ \A i : Kind(i)' = Kind(i) /\ Addr(i)' = Addr(i)
  BY SameAges DEF BInv
<1>2. TypeOK'
  BY SizeAssumption DEF BInv, TypeOK
<1>3. StatusByAge' /\ IssueQueuesExact' /\ CosimQueueOrder' /\ InFlightExact'
  BY <1>1 DEF BInv, StatusByAge, IssueQueuesExact, CosimQueueOrder, InFlightExact, Waiting, isCosimFunc
<1>4. StoreQueue' /\ SentLate' /\ CosimAllowed' /\ SacOrder' /\ FenceDrains'
  BY <1>1 DEF BInv, StoreQueue, SentLate, CosimAllowed, SacOrder, FenceDrains, isCosimFunc, Insns
<1>5. loading' \cup responses' = loading \cup responses /\ loading' \cap responses' = {}
  BY DEF BInv, LoadsWait
<1>6. LoadsWait' /\ MemoryOrder'
  BY <1>1, <1>5 DEF BInv, LoadsWait, MemoryOrder
<1>7. Sleepers'
  BY <1>1 DEF BInv, Sleepers
<1>fw. StepForward
  BY SameForward
<1> QED
  BY <1>fw, <1>1, <1>2, <1>3, <1>4, <1>6, <1>7 DEF BInv

\* Write back: the answered loads and what has run for its latency.
LEMMA WriteBackBInv == ASSUME BInv, writeBack PROVE BInv' /\ StepForward
<1> USE DEF writeBack, insnVars, queueVars, lsqVars, sacVars
<1>1. /\ Last' = Last /\ First' = First /\ ProgramOrder' /\ Insns' = Insns
      /\ \A i : Kind(i)' = Kind(i) /\ Addr(i)' = Addr(i)
  BY SameAges DEF BInv
<1>2. /\ First \in Nat /\ Last \in Nat /\ First <= Last
      /\ \A i \in Ids : i \in Int /\ status[i] \in 0 .. 7
  BY Ages DEF BInv
<1> DEFINE D == responses \cup {i \in Insns : Completing(i)}
<1>3. \A i \in Ids : status'[i] = IF i \in D THEN FINISHED ELSE status[i]
  BY DEF SetStatus
<1>4. TypeOK'
  <2>1. status' \in [Ids -> 0 .. 7]
    BY <1>2 DEF SetStatus
  <2>2. /\ pc' = "issue" /\ k' = 1 /\ responses' = {}
        /\ UNCHANGED <<prog, deps, insnQueue, instList, issueQueue, cosimIssueQueue, inFlightInsn>>
        /\ UNCHANGED <<cyc, sent, forwardList, cosimCanIssue, LDQ, STQ, doneSeqNum>>
        /\ UNCHANGED <<free_load_ports, free_store_ports, loading, sac, sac_room>>
    OBVIOUS
  <2>3. TypeOK
    BY DEF BInv
  <2> HIDE DEF writeBack, D
  <2> QED
    BY <2>1, <2>2, <2>3 DEF TypeOK
<1>5. \A i \in D : i \in Ids /\ First <= i /\ i < Last /\ status[i] = EXECUTING /\ Kind(i) # "cosim" /\ Kind(i) # "fence"
  <2>1. ASSUME NEW i \in responses
        PROVE  i \in Ids /\ i < Last /\ status[i] = EXECUTING /\ Kind(i) = "load"
    BY DEF BInv, TypeOK, LoadsWait
  <2>2. ASSUME NEW i \in Insns, Completing(i)
        PROVE  i \in Ids /\ i < Last /\ status[i] = EXECUTING /\ Kind(i) \in {"op", "store"}
    <3>1. i \in Elems(inFlightInsn) /\ status[i] = EXECUTING /\ Kind(i) \in {"op", "store"}
      BY <2>2 DEF Completing
    <3>2. PICK j \in 1 .. Len(inFlightInsn) : i = inFlightInsn[j]
      BY <3>1 DEF Elems
    <3>3. i \in Ids
      BY <3>2, ElementOfSeq DEF BInv, TypeOK
    <3>4. i < Last
      BY <3>2 DEF BInv, InFlightExact
    <3> QED
      BY <3>1, <3>3, <3>4
  <2>3. \A i \in D : i \in Ids /\ i < Last /\ status[i] = EXECUTING /\ Kind(i) # "cosim" /\ Kind(i) # "fence"
    BY <2>1, <2>2
  <2> HIDE DEF D
  <2> QED
    BY <2>3, <1>2 DEF BInv, StatusByAge
<1> HIDE DEF D
<1>6. /\ \A i \in Ids : status[i] >= ISSUED <=> status'[i] >= ISSUED
      /\ \A i \in Ids : status[i] >= EXECUTING => status'[i] >= EXECUTING
      /\ \A i \in Ids : i \notin D \/ status[i] < READY => status'[i] = status[i]
      /\ \A i \in Ids : status'[i] = SLEEP <=> status[i] = SLEEP
      /\ \A i \in Ids : status'[i] = COMMITED <=> status[i] = COMMITED
      /\ \A i \in Ids : status'[i] \in {ALLOCATED, READY} <=> status[i] \in {ALLOCATED, READY}
      /\ \A i \in Ids : isCosimFunc(i) => status'[i] = status[i]
  BY <1>2, <1>3, <1>5 DEF isCosimFunc
<1>7. StatusByAge'
  BY <1>1, <1>2, <1>3, <1>5, <1>6 DEF BInv, StatusByAge, isCosimFunc
<1>8. IssueQueuesExact' /\ CosimQueueOrder'
  BY <1>1, <1>2, <1>6 DEF BInv, IssueQueuesExact, CosimQueueOrder, Waiting, isCosimFunc
<1>9. \A j \in 1 .. Len(inFlightInsn) : inFlightInsn[j] \in Ids
  BY ElementOfSeq DEF BInv, TypeOK
<1>10. InFlightExact' /\ StoreQueue'
  BY <1>1, <1>2, <1>6, <1>9 DEF BInv, InFlightExact, StoreQueue
<1>11. LoadsWait'
  <2>1. \A i \in loading : i \in Ids /\ i \notin D /\ i \notin responses
    BY DEF BInv, LoadsWait, TypeOK, D, Completing
  <2> QED
    BY <1>1, <1>3, <2>1 DEF BInv, LoadsWait
<1>12. SentLate' /\ MemoryOrder'
  BY <1>1, <1>6 DEF BInv, SentLate, MemoryOrder, TypeOK
<1>13. Sleepers'
  BY <1>1, <1>6 DEF BInv, Sleepers, TypeOK
<1>14. CosimAllowed'
  BY <1>1, <1>6 DEF BInv, CosimAllowed, isCosimFunc
<1>15. \A j \in 1 .. Len(sac) : sac[j] \in Ids
  BY ElementOfSeq DEF BInv, TypeOK
<1>16. SacOrder'
  BY <1>1, <1>6, <1>15 DEF BInv, SacOrder, isCosimFunc
<1>17. FenceDrains'
  <2>1. \A i \in Insns : i \in Ids
    BY Ages DEF BInv, Insns
  <2> QED
    BY <1>1, <1>6, <2>1 DEF BInv, FenceDrains, isCosimFunc
<1>fw. StepForward
  BY <1>2, <1>3, <1>5, SameForward
<1> QED
  BY <1>fw, <1>1, <1>4, <1>7, <1>8, <1>10, <1>11, <1>12, <1>13, <1>14, <1>16, <1>17 DEF BInv

\* The accelerator commits its oldest commands.
LEMMA StonneBInv ==
    ASSUME BInv, NEW n \in 0 .. Len(sac), NEW room \in BOOLEAN, stonne(n, room)
    PROVE  BInv' /\ StepForward
<1> USE DEF stonne, insnVars, queueVars, lsqVars, l1Vars
<1>1. /\ Last' = Last /\ First' = First /\ ProgramOrder' /\ Insns' = Insns
      /\ \A i : Kind(i)' = Kind(i) /\ Addr(i)' = Addr(i)
  BY SameAges DEF BInv
<1>2. /\ First \in Nat /\ Last \in Nat /\ First <= Last
      /\ \A i \in Ids : i \in Int /\ status[i] \in 0 .. 7
      /\ \A i \in Insns : i \in Ids
  BY Ages DEF BInv
<1>3. sac \in Seq(Ids) /\ Len(sac) \in Nat /\ \A j \in 1 .. Len(sac) : sac[j] \in Ids
  BY ElementOfSeq DEF BInv, TypeOK
<1>4. /\ sac' \in Seq(Ids) /\ Len(sac') = Len(sac) - n
      /\ \A j \in 1 .. Len(sac) - n : sac'[j] = sac[n + j]
  BY <1>3, DropIs
<1> DEFINE D == {sac[j] : j \in 1 .. n}
<1>5. \A i \in Ids : status'[i] = IF i \in D THEN FINISHED ELSE status[i]
  BY DEF SetStatus
<1>6. TypeOK'
  <2>1. status' \in [Ids -> 0 .. 7]
    BY <1>2 DEF SetStatus
  <2> QED
    BY <2>1, <1>4, 1 \in Nat \ {0} DEF BInv, TypeOK
<1>7. \A i \in D : i \in Ids /\ i < Last /\ isCosimFunc(i) /\ status[i] >= ISSUED
  BY <1>3 DEF BInv, SacOrder
<1> HIDE DEF D
<1>8. /\ \A i \in Ids : status[i] >= ISSUED <=> status'[i] >= ISSUED
      /\ \A i \in Ids : status[i] >= EXECUTING => status'[i] >= EXECUTING
      /\ \A i \in Ids : status'[i] \in {ALLOCATED, READY} <=> status[i] \in {ALLOCATED, READY}
      /\ \A i \in Ids : i < Last /\ ~isCosimFunc(i) => status'[i] = status[i]
      /\ \A i \in Ids : status'[i] = INIT <=> status[i] = INIT
  BY <1>2, <1>5, <1>7
<1>9. StatusByAge'
  BY <1>1, <1>2, <1>5, <1>7, <1>8 DEF BInv, StatusByAge, isCosimFunc
<1>10. IssueQueuesExact' /\ CosimQueueOrder'
  BY <1>1, <1>2, <1>8 DEF BInv, IssueQueuesExact, CosimQueueOrder, Waiting, isCosimFunc
<1>11. \A j \in 1 .. Len(inFlightInsn) : inFlightInsn[j] \in Ids
  BY ElementOfSeq DEF BInv, TypeOK
<1>12. InFlightExact'
  BY <1>1, <1>2, <1>8, <1>11 DEF BInv, InFlightExact
<1>13. StoreQueue'
  BY <1>1, <1>8 DEF BInv, StoreQueue, isCosimFunc
<1>14. LoadsWait' /\ SentLate' /\ MemoryOrder'
  BY <1>1, <1>8 DEF BInv, LoadsWait, SentLate, MemoryOrder, TypeOK, isCosimFunc
<1>15. Sleepers'
  <2>1. \A i \in Ids : status'[i] = SLEEP => status[i] = SLEEP
    BY <1>5
  <2>2. \A i \in Ids : status[i] = SLEEP => i < Last /\ ~isCosimFunc(i)
    BY DEF BInv, Sleepers, isCosimFunc
  <2>3. \A i \in Ids : status[i] = SLEEP => status'[i] = SLEEP
    BY <2>2, <1>8
  <2> QED
    BY <1>1, <2>1, <2>3 DEF BInv, Sleepers, TypeOK
<1>16. CosimAllowed'
  BY <1>1, <1>8 DEF BInv, CosimAllowed, isCosimFunc
<1>17. SacOrder'
  <2>1. \A j \in 1 .. Len(sac') : n + j \in 1 .. Len(sac) /\ sac'[j] = sac[n + j] /\ sac[n + j] \in Ids
    BY <1>3, <1>4
  <2>2. \A j \in 1 .. Len(sac') : sac'[j] < Last /\ isCosimFunc(sac'[j]) /\ status'[sac'[j]] >= ISSUED
    BY <2>1, <1>8 DEF BInv, SacOrder
  <2>3. ASSUME NEW j \in 1 .. Len(sac'), NEW h \in 1 .. Len(sac'), j < h PROVE sac'[j] < sac'[h]
    <3>1. n + j < n + h
      BY <2>3, <1>3, <1>4
    <3> QED
      BY <3>1, <2>1 DEF BInv, SacOrder
  <2> QED
    BY <1>1, <2>2, <2>3 DEF SacOrder, isCosimFunc
<1>18. FenceDrains'
  <2> SUFFICES ASSUME NEW f \in Insns, Kind(f) = "fence", status'[f] >= FINISHED,
                      NEW j \in 1 .. Len(sac')
               PROVE  sac'[j] > f
    BY <1>1 DEF FenceDrains
  <2>1. n + j \in 1 .. Len(sac) /\ sac'[j] = sac[n + j]
    BY <1>3, <1>4
  <2>2. CASE f \in D
    <3>1. PICK h \in 1 .. n : f = sac[h]
      BY <2>2 DEF D
    <3>2. h \in 1 .. Len(sac) /\ h < n + j
      BY <1>3, <1>4
    <3>3. sac[h] < sac[n + j]
      BY <2>1, <3>2 DEF BInv, SacOrder
    <3>4. sac[h] \in Int /\ sac[n + j] \in Int
      BY <1>2, <1>3, <2>1, <3>2
    <3> QED
      BY <2>1, <3>1, <3>3, <3>4
  <2>3. CASE f \notin D
    BY <1>2, <1>5, <2>1, <2>3 DEF BInv, FenceDrains
  <2> QED
    BY <2>2, <2>3
<1>fw. StepForward
  BY <1>2, <1>5, <1>7, SameForward
<1> QED
  BY <1>fw, <1>1, <1>6, <1>9, <1>10, <1>12, <1>13, <1>14, <1>15, <1>16, <1>17, <1>18 DEF BInv

\* Retirement takes finished instructions off the head of the ROB.
LEMMA RetiredIs ==
    ASSUME TypeOK, ProgramOrder
    PROVE  /\ Retired \in 0 .. Len(instList)
           /\ \A j \in 1 .. Retired : status[instList[j]] = FINISHED
           /\ \A i : i \in {instList[j] : j \in 1 .. Retired}
                        <=> i \in Ids /\ First <= i /\ i < First + Retired
<1> DEFINE F == {i \in Insns : status[i] = FINISHED}
           n == PrefixIn(instList, F)
<1>1. instList \in Seq(Ids) /\ Len(instList) \in Nat /\ RetireSize \in Nat
  BY SizeAssumption DEF TypeOK
<1>2. n \in 0 .. Len(instList) /\ \A j \in 1 .. n : instList[j] \in F
  BY <1>1, PrefixInIs
<1>3. Retired = Least(n, RetireSize)
  BY DEF Retired
<1> HIDE DEF n
<1>4. Retired \in 0 .. Len(instList) /\ Retired <= n
  BY <1>1, <1>2, <1>3 DEF Least
<1>5. \A j \in 1 .. Retired : status[instList[j]] = FINISHED
  BY <1>1, <1>2, <1>4
<1> HIDE DEF F
<1>6. /\ First \in Nat /\ Last \in Nat /\ Last <= Len(prog) /\ Len(prog) \in Nat
      /\ First + Len(instList) = Last
      /\ \A i \in Ids : i \in Nat
      /\ \A i \in Nat : i < Len(prog) => i \in Ids
  BY Ages
<1>7. \A j \in 1 .. Len(instList) : instList[j] = First + j - 1
  BY DEF ProgramOrder
<1>8. ASSUME NEW j \in 1 .. Retired
      PROVE  instList[j] \in Ids /\ First <= instList[j] /\ instList[j] < First + Retired
  <2> DEFINE m == Retired
  <2>1. j \in 1 .. m /\ m \in 0 .. Len(instList)
    BY <1>4
  <2> HIDE DEF m
  <2>2. j \in 1 .. Len(instList) /\ 1 <= j /\ j <= m /\ j \in Nat /\ m \in Nat
    BY <2>1, <1>1
  <2>3. instList[j] \in Ids /\ instList[j] = First + j - 1
    BY <1>1, <1>7, <2>2, ElementOfSeq
  <2>4. First <= instList[j] /\ instList[j] < First + m
    BY <1>6, <2>2, <2>3
  <2> QED
    BY <2>3, <2>4 DEF m
<1>9. ASSUME NEW i \in Ids, First <= i, i < First + Retired
      PROVE  \E j \in 1 .. Retired : i = instList[j]
  <2>1. i - First + 1 \in 1 .. Retired /\ i - First + 1 \in 1 .. Len(instList)
        /\ i = First + (i - First + 1) - 1
    BY <1>1, <1>4, <1>6, <1>9
  <2> QED
    BY <1>7, <2>1
<1> QED
  BY <1>4, <1>5, <1>8, <1>9

\* A load or store queue drops only what is retired and sent.
LEMMA CommitMemOpsIs ==
    ASSUME NEW q \in Seq(Ids), NEW st, NEW sn
    PROVE  /\ commitMemOps(q, st, sn) \in Seq(Ids)
           /\ Len(commitMemOps(q, st, sn)) <= Len(q)
           /\ Elems(commitMemOps(q, st, sn)) \subseteq Elems(q)
           /\ \A i \in Elems(q) : i \in Elems(commitMemOps(q, st, sn)) \/ (st[i] = COMMITED /\ i \in sent)
<1> DEFINE C == {i \in Insns : st[i] = COMMITED /\ i \in sent /\ i <= sn}
           n == PrefixIn(q, C)
<1>1. n \in 0 .. Len(q) /\ \A j \in 1 .. n : q[j] \in C
  BY PrefixInIs
<1>2. commitMemOps(q, st, sn) = Drop(q, n)
  BY DEF commitMemOps
<1> HIDE DEF n
<1>3. Drop(q, n) \in Seq(Ids) /\ Len(Drop(q, n)) = Len(q) - n
  BY <1>1, DropIs
<1>4. /\ Elems(Drop(q, n)) \subseteq Elems(q)
      /\ \A x \in Elems(q) : x \in Elems(Drop(q, n)) \/ \E j \in 1 .. n : q[j] = x
  BY <1>1, DropElems
<1>5. Len(q) \in Nat
  OBVIOUS
<1>6. Len(Drop(q, n)) <= Len(q)
  BY <1>1, <1>3, <1>5
<1> QED
  BY <1>1, <1>2, <1>3, <1>4, <1>6

\* Core::commit.
LEMMA CommitBInv == ASSUME BInv, commit PROVE BInv' /\ StepForward
<1> USE DEF commit, insnVars, l1Vars, sacVars
<1> DEFINE D == {instList[j] : j \in 1 .. Retired}
           sn == IF Retired = 0 THEN doneSeqNum ELSE instList[Retired]
<1>1. /\ status' = SetStatus(D, COMMITED) /\ doneSeqNum' = sn
      /\ LDQ' = commitMemOps(LDQ, status', sn)
      /\ STQ' = commitMemOps(STQ, status', sn)
      /\ inFlightInsn' = Only(inFlightInsn, {i \in Insns : StillInFlight(i, status')})
      /\ instList' = Drop(instList, Retired)
      /\ cosimCanIssue' = cosimCanIssue \cup AllowCosim
  OBVIOUS
<1>2. /\ UNCHANGED <<prog, deps, insnQueue, issueQueue, cosimIssueQueue, cyc, sent, forwardList, k>>
      /\ UNCHANGED <<free_load_ports, free_store_ports, loading, responses, sac, sac_room>>
      /\ pc' = "stonne"
  OBVIOUS
<1>3. /\ Retired \in 0 .. Len(instList)
      /\ \A j \in 1 .. Retired : status[instList[j]] = FINISHED
      /\ \A i : i \in D <=> i \in Ids /\ First <= i /\ i < First + Retired
  BY RetiredIs DEF BInv
<1>4. \A i \in D : status[i] = FINISHED
  BY <1>3
<1>5. /\ First \in Nat /\ Last \in Nat /\ First <= Last /\ Last <= Len(prog) /\ Len(prog) \in Nat
      /\ Len(instList) \in Nat /\ First + Len(instList) = Last
      /\ \A i \in Ids : i \in Nat /\ i \in Int /\ status[i] \in 0 .. 7
      /\ \A i : i \in Insns <=> i \in Ids /\ i < Len(prog)
  BY Ages DEF BInv
<1>6. \A i \in Ids : status'[i] = IF i \in D THEN COMMITED ELSE status[i]
  BY <1>1 DEF SetStatus
<1>t. /\ instList \in Seq(Ids) /\ LDQ \in Seq(Ids) /\ STQ \in Seq(Ids) /\ inFlightInsn \in Seq(Ids)
      /\ sac \in Seq(Ids) /\ sent \subseteq Ids /\ doneSeqNum \in Ids \cup {0}
  BY DEF BInv, TypeOK
<1> HIDE DEF D
<1>7. /\ instList' \in Seq(Ids) /\ Len(instList') = Len(instList) - Retired
      /\ \A j \in 1 .. Len(instList) - Retired : instList'[j] = instList[Retired + j]
  <2>1. /\ Drop(instList, Retired) \in Seq(Ids)
        /\ Len(Drop(instList, Retired)) = Len(instList) - Retired
        /\ \A j \in 1 .. Len(instList) - Retired : Drop(instList, Retired)[j] = instList[Retired + j]
    <3> DEFINE m == Retired
    <3>1. m \in 0 .. Len(instList)
      BY <1>3
    <3> HIDE DEF m, commit
    <3>2. /\ Drop(instList, m) \in Seq(Ids) /\ Len(Drop(instList, m)) = Len(instList) - m
          /\ \A j \in 1 .. Len(instList) - m : Drop(instList, m)[j] = instList[m + j]
      BY <3>1, <1>t, DropIs
    <3> QED
      BY <3>2 DEF m
  <2> QED
    BY <1>1, <2>1
<1>8. Last' = Last /\ First' = First + Retired
  BY <1>2, <1>3, <1>5, <1>7 DEF Last, First
<1>9. ProgramOrder'
  <2>1. \A j \in 1 .. Len(instList') : instList'[j] = First' + j - 1
    <3>1. \A j \in 1 .. Len(instList') : Retired + j \in 1 .. Len(instList)
      BY <1>3, <1>5, <1>7
    <3>2. \A j \in 1 .. Len(instList) : instList[j] = First + j - 1
      BY DEF BInv, ProgramOrder
    <3> QED
      BY <1>3, <1>5, <1>7, <1>8, <3>1, <3>2
  <2>2. First' \in Nat /\ Last' \in Nat
    BY <1>3, <1>5, <1>8
  <2>3. \A j \in 1 .. Len(insnQueue') : insnQueue'[j] = Last' + j - 1
    BY <1>2, <1>8 DEF BInv, ProgramOrder
  <2> QED
    BY <2>1, <2>2, <2>3 DEF ProgramOrder
<1>10. Insns' = Insns /\ \A i : Kind(i)' = Kind(i) /\ Addr(i)' = Addr(i)
  BY <1>2 DEF Insns, Kind, Addr
<1>11. /\ STQ' \in Seq(Ids) /\ Len(STQ') <= Len(STQ) /\ Elems(STQ') \subseteq Elems(STQ)
       /\ \A i \in Elems(STQ) : i \in Elems(STQ') \/ (status'[i] = COMMITED /\ i \in sent)
  BY <1>1, <1>t, CommitMemOpsIs
<1>12. LDQ' \in Seq(Ids) /\ Len(LDQ') <= Len(LDQ)
  BY <1>1, <1>t, CommitMemOpsIs
<1>13. /\ inFlightInsn' \in Seq(Ids)
       /\ \A x : x \in Elems(inFlightInsn')
                <=> x \in Elems(inFlightInsn) /\ x \in Insns /\ StillInFlight(x, status')
  <2> DEFINE S == {i \in Insns : StillInFlight(i, status')}
  <2>1. \A x : x \in S <=> x \in Insns /\ StillInFlight(x, status')
    OBVIOUS
  <2> HIDE DEF S
  <2>2. /\ Only(inFlightInsn, S) \in Seq(Ids)
        /\ \A x : x \in Elems(Only(inFlightInsn, S)) <=> x \in Elems(inFlightInsn) /\ x \in S
    BY <1>t, OnlyIs
  <2>3. inFlightInsn' = Only(inFlightInsn, S)
    BY <1>1 DEF S
  <2> QED
    BY <2>1, <2>2, <2>3
<1>14. \A c \in AllowCosim : c \in Ids /\ c = First + Retired /\ c < Last
  <2> SUFFICES ASSUME NEW c \in AllowCosim PROVE c \in Ids /\ c = First + Retired /\ c < Last
    OBVIOUS
  <2>1. c \in Elems(instList) /\ c = instList[Retired + 1] /\ Retired < Least(RetireSize, Len(instList))
    BY DEF AllowCosim
  <2>2. Retired < Len(instList)
    BY <2>1, <1>3, <1>5, SizeAssumption DEF Least
  <2>3. Retired + 1 \in 1 .. Len(instList)
    BY <2>2, <1>3, <1>5
  <2>4. instList[Retired + 1] = First + (Retired + 1) - 1
    BY <2>3 DEF BInv, ProgramOrder
  <2>5. c \in Ids
    BY <2>1, <2>3, <1>t, ElementOfSeq
  <2> QED
    BY <2>1, <2>2, <2>4, <2>5, <1>3, <1>5
<1>15. TypeOK'
  <2>1. status' \in [Ids -> 0 .. 7]
    BY <1>1, <1>5 DEF SetStatus
  <2>2. doneSeqNum' \in Ids \cup {0}
    <3>1. CASE Retired = 0
      BY <1>1, <1>t, <3>1
    <3>2. CASE Retired # 0
      <4>1. Retired \in 1 .. Len(instList)
        BY <1>3, <1>5, <3>2
      <4>2. instList[Retired] \in Ids
        BY <1>t, <4>1, ElementOfSeq
      <4> QED
        BY <1>1, <3>2, <4>2
    <3> QED
      BY <3>1, <3>2
  <2>3. cosimCanIssue' \subseteq Ids
    BY <1>1, <1>14 DEF BInv, TypeOK
  <2>4. /\ Len(STQ') <= StqSize /\ Len(LDQ') <= LdqSize
        /\ Len(instList') <= RobSize
    <3>1. Len(STQ) \in Nat /\ Len(LDQ) \in Nat /\ Len(STQ') \in Nat /\ Len(LDQ') \in Nat
      BY <1>t, <1>11, <1>12
    <3>2. Len(STQ) <= StqSize /\ Len(LDQ) <= LdqSize /\ Len(instList) <= RobSize
      BY DEF BInv, TypeOK
    <3>3. StqSize \in Nat /\ LdqSize \in Nat /\ RobSize \in Nat
      BY SizeAssumption
    <3> HIDE DEF commit
    <3> QED
      BY <3>1, <3>2, <3>3, <1>3, <1>5, <1>7, <1>11, <1>12
  <2> QED
    BY <1>2, <2>1, <2>2, <2>3, <2>4, <1>7, <1>11, <1>12, <1>13 DEF BInv, TypeOK
<1>16. /\ \A i \in Ids : status[i] >= ISSUED <=> status'[i] >= ISSUED
       /\ \A i \in Ids : status[i] >= EXECUTING => status'[i] >= EXECUTING
       /\ \A i \in Ids : status[i] >= FINISHED <=> status'[i] >= FINISHED
       /\ \A i \in Ids : status'[i] = SLEEP <=> status[i] = SLEEP
       /\ \A i \in Ids : status[i] = EXECUTING => status'[i] = EXECUTING
       /\ \A i \in Ids : status[i] = COMMITED => status'[i] = COMMITED
       /\ \A i \in Ids : status'[i] \in {ALLOCATED, READY} <=> status[i] \in {ALLOCATED, READY}
  <2>1. \A i \in Ids : status'[i] = status[i] \/ (status[i] = FINISHED /\ status'[i] = COMMITED)
    BY <1>4, <1>6
  <2>2. \A i \in Ids : status[i] \in 0 .. 7
    BY <1>5
  <2> HIDE DEF commit
  <2> QED
    BY <2>1, <2>2
<1>17. StatusByAge'
  BY <1>3, <1>4, <1>5, <1>6, <1>8, <1>10 DEF BInv, StatusByAge, isCosimFunc
<1>18. IssueQueuesExact' /\ CosimQueueOrder'
  BY <1>2, <1>8, <1>10, <1>16 DEF BInv, IssueQueuesExact, CosimQueueOrder, Waiting, isCosimFunc
<1>19. InFlightExact'
  <2>1. \A i \in Elems(inFlightInsn) : i \in Ids /\ i < Last /\ status[i] >= ISSUED
    BY <1>t, ElementOfSeq DEF BInv, InFlightExact, Elems
  <2>2. \A i \in Elems(inFlightInsn') : i < Last' /\ status'[i] >= ISSUED
    BY <1>8, <1>13, <1>16, <2>1
  <2>3. \A j \in 1 .. Len(inFlightInsn') : inFlightInsn'[j] \in Elems(inFlightInsn')
    BY DEF Elems
  <2>4. ASSUME NEW i \in Ids, First' <= i, i < Last', status'[i] >= ISSUED
        PROVE  i \in Elems(inFlightInsn')
    <3>1. i \notin D /\ status[i] = status'[i] /\ First <= i /\ i < Last
      BY <2>4, <1>3, <1>5, <1>6, <1>8
    <3>2. i \in Elems(inFlightInsn) /\ status[i] # COMMITED
      BY <2>4, <3>1 DEF BInv, InFlightExact, StatusByAge
    <3>3. i \in Insns /\ StillInFlight(i, status')
      BY <2>4, <3>1, <3>2, <1>5 DEF StillInFlight
    <3> QED
      BY <3>2, <3>3, <1>13
  <2>5. ASSUME NEW i \in Ids, i < First', Kind(i) = "store", i \notin sent
        PROVE  i \in Elems(inFlightInsn')
    <3>1. i \in Elems(inFlightInsn)
      <4>1. CASE i < First
        BY <2>5, <4>1 DEF BInv, InFlightExact
      <4>2. CASE ~(i < First)
        <5>1. i \in D /\ First <= i /\ i < Last
          BY <2>5, <4>2, <1>3, <1>5, <1>8
        <5>2. status[i] >= ISSUED
          BY <5>1, <1>4
        <5> QED
          BY <5>1, <5>2 DEF BInv, InFlightExact
      <4> QED
        BY <4>1, <4>2
    <3>2. i \in Insns
      BY <2>5, <1>3, <1>5, <1>8
    <3> QED
      BY <2>5, <3>1, <3>2, <1>13 DEF StillInFlight, isMem
  <2> QED
    BY <1>2, <1>10, <2>2, <2>3, <2>4, <2>5 DEF InFlightExact
<1>20. StoreQueue'
  <2>1. \A i \in Elems(STQ) : i < Last /\ Kind(i) = "store"
    BY DEF BInv, StoreQueue, Elems
  <2>2. \A j \in 1 .. Len(STQ') : STQ'[j] \in Elems(STQ')
    BY DEF Elems
  <2>3. \A j \in 1 .. Len(STQ') : STQ'[j] < Last' /\ Kind(STQ'[j]) = "store"
    BY <1>8, <1>11, <2>1, <2>2
  <2>4. ASSUME NEW i \in Ids, i < Last', Kind(i) = "store"
        PROVE  i \in Elems(STQ') \/ (status'[i] = COMMITED /\ i \in sent')
    <3>1. i \in Elems(STQ) \/ (status[i] = COMMITED /\ i \in sent)
      BY <1>8, <2>4 DEF BInv, StoreQueue
    <3> QED
      BY <3>1, <1>2, <1>11, <1>16
  <2> QED
    BY <1>10, <2>3, <2>4 DEF StoreQueue
<1>21. LoadsWait' /\ SentLate' /\ MemoryOrder'
  BY <1>2, <1>8, <1>10, <1>16 DEF BInv, LoadsWait, SentLate, MemoryOrder, TypeOK
<1>22. Sleepers'
  <2>1. \A s \in Ids : \A i \in forwardList[s] : i \in Ids /\ status'[i] = SLEEP
    BY <1>16 DEF BInv, Sleepers, TypeOK
  <2>2. ASSUME NEW i \in Ids, status'[i] = SLEEP
        PROVE  /\ i < Last /\ Kind(i) = "load"
               /\ \E s \in Elems(STQ') :
                    /\ \A r \in Ids : i \in forwardList[r] <=> r = s
                    /\ s < i /\ Addr(s) = Addr(i)
                    /\ \A r \in s + 1 .. i - 1 : Kind(r) = "store" => Addr(r) # Addr(i)
                    /\ s \notin sent
    BY <1>11, <1>16, <2>2 DEF BInv, Sleepers
  <2> QED
    BY <1>2, <1>8, <1>10, <2>1, <2>2 DEF Sleepers
<1>23. CosimAllowed'
  <2>1. \A c \in cosimCanIssue' : c <= First' /\ c < Last'
    <3>1. \A c \in cosimCanIssue : c \in Ids /\ c <= First /\ c < Last
      BY DEF BInv, CosimAllowed, TypeOK
    <3> QED
      BY <1>1, <1>3, <1>5, <1>8, <1>14, <3>1
  <2>2. \A c \in Ids : c < Last' /\ isCosimFunc(c) /\ status'[c] >= ISSUED => c \in cosimCanIssue'
    BY <1>1, <1>8, <1>16 DEF BInv, CosimAllowed
  <2> QED
    BY <1>10, <2>1, <2>2 DEF CosimAllowed, isCosimFunc
<1>24. SacOrder'
  <2>1. \A j \in 1 .. Len(sac) : sac[j] \in Ids
    BY <1>t, ElementOfSeq
  <2> QED
    BY <1>2, <1>8, <1>10, <1>16, <2>1 DEF BInv, SacOrder, isCosimFunc
<1>25. FenceDrains'
  BY <1>2, <1>5, <1>10, <1>16 DEF BInv, FenceDrains
<1>fw. StepForward
  BY <1>4, <1>5, <1>6, SameForward
<1> QED
  BY <1>fw, <1>9, <1>15, <1>17, <1>18, <1>19, <1>20, <1>21, <1>22, <1>23, <1>24, <1>25 DEF BInv

\* The producers of a new instruction are instructions.
LEMMA ProducersIn ==
    ASSUME NEW p \in Seq(Templates), Len(p) <= MaxInsns, NEW t \in Templates
    PROVE  Producers(p, t) \subseteq Ids
<1>1. Len(p) \in Nat /\ MaxInsns \in Nat
  BY SizeAssumption
<1> SUFFICES ASSUME NEW u, Instances(p, u) # {} PROVE Youngest(Instances(p, u)) \in Ids
  BY DEF Producers
<1>2. Instances(p, u) \in SUBSET (0 .. Len(p))
  BY <1>1 DEF Instances
<1>3. Youngest(Instances(p, u)) \in Instances(p, u)
  BY <1>1, <1>2, YoungestIs
<1> QED
  BY <1>1, <1>3 DEF Instances, Ids

\* Core::rename.
LEMMA RenameBInv == ASSUME BInv, NEW t \in Templates, rename(t) PROVE BInv' /\ StepForward
<1> USE DEF rename, lsqVars, l1Vars, sacVars
<1>1. /\ First \in Nat /\ Last \in Nat /\ First <= Last /\ Last <= Len(prog) /\ Len(prog) \in Nat
      /\ Len(instList) \in Nat /\ First + Len(instList) = Last
      /\ Len(insnQueue) \in Nat /\ Last + Len(insnQueue) = Len(prog)
      /\ \A i \in Ids : i \in Nat /\ i \in Int /\ status[i] \in 0 .. 7
      /\ \A i : i \in Insns <=> i \in Ids /\ i < Len(prog)
  BY Ages DEF BInv
<1>2. /\ prog \in Seq(Templates) /\ insnQueue \in Seq(Ids) /\ Len(prog) < MaxInsns /\ MaxInsns \in Nat
      /\ Len(prog) \in Ids /\ k \in Nat
  BY <1>1, SizeAssumption DEF BInv, TypeOK, Ids
<1>3. /\ prog' \in Seq(Templates) /\ Len(prog') = Len(prog) + 1
      /\ \A j \in 1 .. Len(prog) : prog'[j] = prog[j]
  BY <1>2, AppendProperties
<1>4. /\ insnQueue' \in Seq(Ids) /\ Len(insnQueue') = Len(insnQueue) + 1
      /\ \A j \in 1 .. Len(insnQueue) : insnQueue'[j] = insnQueue[j]
      /\ insnQueue'[Len(insnQueue) + 1] = Len(prog)
  BY <1>2, AppendProperties
<1>5. Last' = Last /\ First' = First
  <2>1. Len(instList') = Len(instList)
    OBVIOUS
  <2>2. Len(prog') = Len(prog) + 1 /\ Len(insnQueue') = Len(insnQueue) + 1
    BY <1>3, <1>4
  <2> HIDE DEF rename
  <2>3. Last' = Last
    BY <1>1, <2>2 DEF Last
  <2> QED
    BY <2>1, <2>3 DEF First
<1>6. ASSUME NEW i \in Int, 0 <= i, i < Last PROVE Kind(i)' = Kind(i) /\ Addr(i)' = Addr(i)
  <2>1. i + 1 \in 1 .. Len(prog)
    BY <1>1, <1>6
  <2> QED
    BY <1>3, <2>1 DEF Kind, Addr
<1>7. \A i \in Ids : i < Last => Kind(i)' = Kind(i) /\ Addr(i)' = Addr(i)
  BY <1>1, <1>6
<1>8. TypeOK'
  <2>1. Producers(prog', t) \subseteq Ids
    <3> HIDE DEF rename
    <3>1. prog' \in Seq(Templates) /\ Len(prog') <= MaxInsns
      BY <1>1, <1>2, <1>3
    <3> QED
      BY <3>1, ProducersIn
  <2>2. deps' \in [Ids -> SUBSET Ids]
    BY <2>1 DEF BInv, TypeOK
  <2>3. Len(prog') <= MaxInsns /\ k' \in Nat \ {0}
    BY <1>1, <1>2, <1>3
  <2> QED
    BY <1>3, <1>4, <2>2, <2>3 DEF BInv, TypeOK
<1>9. ProgramOrder'
  <2>1. \A j \in 1 .. Len(insnQueue') : insnQueue'[j] = Last + j - 1
    <3>1. \A j \in 1 .. Len(insnQueue) : insnQueue[j] = Last + j - 1
      BY DEF BInv, ProgramOrder
    <3> DEFINE m == Len(insnQueue)
    <3>2. m \in Nat /\ Len(insnQueue') = m + 1 /\ insnQueue'[m + 1] = Last + m /\ Last \in Nat
      BY <1>1, <1>4
    <3>3. \A j \in 1 .. m : insnQueue'[j] = Last + j - 1
      BY <1>4, <3>1
    <3> HIDE DEF rename, m
    <3>4. \A j \in 1 .. m + 1 : j \in 1 .. m \/ j = m + 1
      BY <3>2
    <3>5. Last + m = Last + (m + 1) - 1
      BY <3>2
    <3> QED
      BY <3>2, <3>3, <3>4, <3>5
  <2> QED
    BY <1>1, <1>5, <2>1 DEF BInv, ProgramOrder
<1>10. StatusByAge' /\ IssueQueuesExact' /\ CosimQueueOrder'
  BY <1>1, <1>5, <1>7 DEF BInv, StatusByAge, IssueQueuesExact, CosimQueueOrder, Waiting, isCosimFunc
<1>11. InFlightExact'
  BY <1>1, <1>5, <1>7 DEF BInv, InFlightExact
<1>12. StoreQueue'
  <2>1. \A j \in 1 .. Len(STQ) : STQ[j] \in Ids
    BY ElementOfSeq DEF BInv, TypeOK
  <2>2. \A j \in 1 .. Len(STQ) : STQ[j] < Last' /\ Kind(STQ[j])' = "store"
    BY <1>5, <1>7, <2>1 DEF BInv, StoreQueue
  <2>3. \A i \in Ids : i < Last' /\ Kind(i)' = "store" =>
            i \in Elems(STQ) \/ (status[i] = COMMITED /\ i \in sent)
    BY <1>5, <1>7 DEF BInv, StoreQueue
  <2> QED
    BY <2>2, <2>3 DEF StoreQueue, Kind
<1>13. LoadsWait' /\ SentLate'
  BY <1>5, <1>7 DEF BInv, LoadsWait, SentLate, TypeOK
<1>14. MemoryOrder'
  <2> SUFFICES ASSUME NEW i \in loading \cup responses, NEW s \in 1 .. i - 1,
                      Kind(s)' = "store", Addr(s)' = Addr(i)'
               PROVE  s \in sent
    BY DEF MemoryOrder
  <2>1. i \in Ids /\ i < Last
    BY DEF BInv, LoadsWait, TypeOK
  <2>2. s \in Int /\ 0 <= s /\ s < Last
    BY <1>1, <2>1
  <2>3. Kind(s) = "store" /\ Addr(s) = Addr(i)
    BY <1>6, <1>7, <2>1, <2>2
  <2> QED
    BY <2>3 DEF BInv, MemoryOrder
<1>15. Sleepers'
  <2>1. ASSUME NEW i \in Ids, status[i] = SLEEP
        PROVE  /\ i < Last' /\ Kind(i)' = "load"
               /\ \E s \in Elems(STQ) :
                    /\ \A r \in Ids : i \in forwardList[r] <=> r = s
                    /\ s < i /\ Addr(s)' = Addr(i)'
                    /\ \A r \in s + 1 .. i - 1 : Kind(r)' = "store" => Addr(r)' # Addr(i)'
                    /\ s \notin sent
    <3>1. i < Last /\ Kind(i) = "load"
      BY <2>1 DEF BInv, Sleepers
    <3>2. PICK s \in Elems(STQ) :
                    /\ \A r \in Ids : i \in forwardList[r] <=> r = s
                    /\ s < i /\ Addr(s) = Addr(i)
                    /\ \A r \in s + 1 .. i - 1 : Kind(r) = "store" => Addr(r) # Addr(i)
                    /\ s \notin sent
      BY <2>1 DEF BInv, Sleepers
    <3>3. s \in Ids
      BY ElementOfSeq DEF BInv, TypeOK, Elems
    <3>4. Addr(s)' = Addr(s) /\ Addr(i)' = Addr(i) /\ Kind(i)' = Kind(i)
      BY <1>1, <1>7, <3>1, <3>2, <3>3
    <3>5. \A r \in s + 1 .. i - 1 : Kind(r)' = Kind(r) /\ Addr(r)' = Addr(r)
      <4> SUFFICES ASSUME NEW r \in s + 1 .. i - 1 PROVE r \in Int /\ 0 <= r /\ r < Last
        BY <1>6
      <4> QED
        BY <1>1, <3>1, <3>3
    <3> QED
      BY <1>5, <3>1, <3>2, <3>4, <3>5
  <2>2. \A s \in Ids : \A i \in forwardList[s] : status[i] = SLEEP
    BY DEF BInv, Sleepers
  <2>3. UNCHANGED <<status, forwardList, STQ, sent>>
    OBVIOUS
  <2> HIDE DEF rename
  <2> QED
    BY <2>1, <2>2, <2>3 DEF Sleepers
<1>16. CosimAllowed'
  BY <1>1, <1>5, <1>7 DEF BInv, CosimAllowed, isCosimFunc
<1>17. \A j \in 1 .. Len(sac) : sac[j] \in Ids
  BY ElementOfSeq DEF BInv, TypeOK
<1>18. SacOrder'
  <2>1. \A j \in 1 .. Len(sac) : sac[j] < Last' /\ isCosimFunc(sac[j]) /\ Kind(sac[j])' = Kind(sac[j])
    BY <1>5, <1>7, <1>17 DEF BInv, SacOrder
  <2> QED
    BY <2>1 DEF BInv, SacOrder, isCosimFunc, Kind
<1>19. FenceDrains'
  <2> SUFFICES ASSUME NEW f \in Insns', Kind(f)' = "fence", status[f] >= FINISHED,
                      NEW j \in 1 .. Len(sac)
               PROVE  sac[j] > f
    BY DEF FenceDrains
  <2>1. f \in Ids
    BY <1>1, <1>2, <1>3 DEF Insns, Ids
  <2>2. f < Last
    <3>1. f \in Nat /\ Last \in Nat
      BY <1>1, <2>1
    <3>2. f >= Last => status[f] = INIT
      BY <2>1 DEF BInv, StatusByAge
    <3> HIDE DEF rename
    <3> QED
      BY <3>1, <3>2
  <2>3. f \in Insns /\ Kind(f) = "fence"
    BY <1>1, <1>7, <2>1, <2>2
  <2> QED
    BY <2>3 DEF BInv, FenceDrains
<1>fw. StepForward
  BY SameForward
<1> QED
  BY <1>fw, <1>8, <1>9, <1>10, <1>11, <1>12, <1>13, <1>14, <1>15, <1>16, <1>18, <1>19 DEF BInv

\* The head of insnQueue is the next stretch of the program.
LEMMA HeadIs ==
    ASSUME TypeOK, ProgramOrder, NEW n \in 0 .. Len(insnQueue)
    PROVE  /\ SubSeq(insnQueue, 1, n) \in Seq(Ids) /\ Len(SubSeq(insnQueue, 1, n)) = n
           /\ \A j \in 1 .. n : SubSeq(insnQueue, 1, n)[j] = Last + j - 1
           /\ \A i : i \in Elems(SubSeq(insnQueue, 1, n)) <=> i \in Ids /\ Last <= i /\ i < Last + n
           /\ \A i : i \in {insnQueue[j] : j \in 1 .. n} <=> i \in Ids /\ Last <= i /\ i < Last + n
<1>1. /\ Last \in Nat /\ Last <= Len(prog) /\ Len(prog) \in Nat
      /\ Len(insnQueue) \in Nat /\ Last + Len(insnQueue) = Len(prog)
      /\ \A i \in Ids : i \in Nat
      /\ \A i \in Nat : i < Len(prog) => i \in Ids
  BY Ages
<1>2. insnQueue \in Seq(Ids) /\ \A j \in 1 .. Len(insnQueue) : insnQueue[j] \in Ids
  BY ElementOfSeq DEF TypeOK
<1>3. \A j \in 1 .. Len(insnQueue) : insnQueue[j] = Last + j - 1
  BY DEF ProgramOrder
<1>4. n \in Nat /\ n <= Len(insnQueue)
  BY <1>1
<1> DEFINE h == SubSeq(insnQueue, 1, n)
<1>5. h \in Seq(Ids) /\ Len(h) = n /\ \A j \in 1 .. n : h[j] = insnQueue[j]
  <2>1. \A j \in 1 .. n : insnQueue[j] \in Ids
    BY <1>1, <1>2, <1>4
  <2> QED
    BY <1>1, <1>2, <1>4, <2>1, SubSeqProperties
<1> HIDE DEF h
<1>6. \A j \in 1 .. n : h[j] = Last + j - 1 /\ insnQueue[j] = Last + j - 1
  BY <1>1, <1>3, <1>4, <1>5
<1>7. ASSUME NEW j \in 1 .. n
      PROVE  Last + j - 1 \in Ids /\ Last <= Last + j - 1 /\ Last + j - 1 < Last + n
  BY <1>1, <1>4
<1>8. ASSUME NEW i \in Ids, Last <= i, i < Last + n
      PROVE  i - Last + 1 \in 1 .. n /\ i = Last + (i - Last + 1) - 1
  BY <1>1, <1>4, <1>8
<1>9. \A i : i \in Elems(h) <=> i \in Ids /\ Last <= i /\ i < Last + n
  BY <1>5, <1>6, <1>7, <1>8 DEF Elems
<1>10. \A i : i \in {insnQueue[j] : j \in 1 .. n} <=> i \in Ids /\ Last <= i /\ i < Last + n
  BY <1>6, <1>7, <1>8
<1> QED
  BY <1>5, <1>6, <1>9, <1>10 DEF h

\* The instructions of some kinds among them, in program order.
LEMMA FirstOfIs ==
    ASSUME TypeOK, ProgramOrder, NEW n \in 0 .. Len(insnQueue), NEW K
    PROVE  /\ FirstOf(n, K) \in Seq(Ids)
           /\ \A i : i \in Elems(FirstOf(n, K))
                        <=> i \in Ids /\ Last <= i /\ i < Last + n /\ Kind(i) \in K
           /\ \A j, m \in 1 .. Len(FirstOf(n, K)) : j < m => FirstOf(n, K)[j] < FirstOf(n, K)[m]
<1> DEFINE h == SubSeq(insnQueue, 1, n)
           S == {i \in Insns : Kind(i) \in K}
<1>1. /\ h \in Seq(Ids) /\ Len(h) = n
      /\ \A j \in 1 .. n : h[j] = Last + j - 1
      /\ \A i : i \in Elems(h) <=> i \in Ids /\ Last <= i /\ i < Last + n
  BY HeadIs
<1>2. FirstOf(n, K) = Only(h, S)
  BY DEF FirstOf
<1>3. /\ Last \in Nat /\ Len(insnQueue) \in Nat /\ Last + Len(insnQueue) = Len(prog)
      /\ \A i \in Ids : i \in Nat
      /\ \A i : i \in Insns <=> i \in Ids /\ i < Len(prog)
  BY Ages
<1>4. \A j, m \in 1 .. Len(h) : j < m => h[j] < h[m]
  BY <1>1, <1>3
<1>5. \A i \in Ids : i < Last + n => (i \in S <=> Kind(i) \in K)
  BY <1>3
<1> HIDE DEF h, S
<1>6. /\ Only(h, S) \in Seq(Ids)
      /\ \A x : x \in Elems(Only(h, S)) <=> x \in Elems(h) /\ x \in S
  BY <1>1, OnlyIs
<1>7. \A j, m \in 1 .. Len(Only(h, S)) : j < m => Only(h, S)[j] < Only(h, S)[m]
  BY <1>1, <1>4, OnlyIncreasing
<1>8. \A i : i \in Elems(Only(h, S)) <=> i \in Ids /\ Last <= i /\ i < Last + n /\ Kind(i) \in K
  BY <1>1, <1>5, <1>6
<1> QED
  BY <1>2, <1>6, <1>7, <1>8

\* Every instruction is of one of the kinds.
LEMMA KindsOnly ==
    ASSUME TypeOK, ProgramOrder, NEW i \in Ids, i < Len(prog)
    PROVE  Kind(i) \in Kinds /\ Lat(i) \in Nat
<1>1. i \in Nat /\ Len(prog) \in Nat
  BY Ages
<1>2. i + 1 \in 1 .. Len(prog) /\ prog \in Seq(Templates)
  BY <1>1 DEF TypeOK
<1>3. prog[i + 1] \in Templates
  BY <1>2, ElementOfSeq
<1> QED
  BY <1>3, TemplatesAssumption DEF Kind, Lat

\* Core::dispatch.
LEMMA DispatchBInv == ASSUME BInv, dispatch PROVE BInv' /\ StepForward
<1> DEFINE A == {"op", "load", "store"}  C == {"cosim", "fence"}
<1>0. PICK n \in 0 .. Least(Width, Len(insnQueue)) :
        /\ CanDispatch(n)
        /\ status' = SetStatus({insnQueue[j] : j \in 1 .. n}, ALLOCATED)
        /\ instList' = instList \o SubSeq(insnQueue, 1, n)
        /\ issueQueue' = issueQueue \o FirstOf(n, A)
        /\ cosimIssueQueue' = cosimIssueQueue \o FirstOf(n, C)
        /\ LDQ' = LDQ \o FirstOf(n, {"load"})
        /\ STQ' = STQ \o FirstOf(n, {"store"})
        /\ insnQueue' = Drop(insnQueue, n)
  BY DEF dispatch
<1>1. /\ UNCHANGED <<k, prog, deps, cyc, sent, forwardList, cosimCanIssue, inFlightInsn, doneSeqNum>>
      /\ UNCHANGED <<free_load_ports, free_store_ports, loading, responses, sac, sac_room>>
      /\ pc' = "rename"
  BY DEF dispatch, insnVars, l1Vars, sacVars
<1>2. /\ First \in Nat /\ Last \in Nat /\ First <= Last /\ Last <= Len(prog) /\ Len(prog) \in Nat
      /\ Len(instList) \in Nat /\ First + Len(instList) = Last
      /\ Len(insnQueue) \in Nat /\ Last + Len(insnQueue) = Len(prog)
      /\ \A i \in Ids : i \in Nat /\ i \in Int /\ status[i] \in 0 .. 7
      /\ \A i : i \in Insns <=> i \in Ids /\ i < Len(prog)
  BY Ages DEF BInv
<1>3. n \in 0 .. Len(insnQueue) /\ n \in Nat
  BY <1>2, SizeAssumption DEF Least
<1>4. /\ SubSeq(insnQueue, 1, n) \in Seq(Ids) /\ Len(SubSeq(insnQueue, 1, n)) = n
      /\ \A j \in 1 .. n : SubSeq(insnQueue, 1, n)[j] = Last + j - 1
      /\ \A i : i \in {insnQueue[j] : j \in 1 .. n} <=> i \in Ids /\ Last <= i /\ i < Last + n
  BY <1>3, HeadIs DEF BInv
<1>t. /\ insnQueue \in Seq(Ids) /\ instList \in Seq(Ids) /\ issueQueue \in Seq(Ids)
      /\ cosimIssueQueue \in Seq(Ids) /\ LDQ \in Seq(Ids) /\ STQ \in Seq(Ids)
      /\ sac \in Seq(Ids) /\ inFlightInsn \in Seq(Ids)
  BY DEF BInv, TypeOK
<1>5. \A i \in Ids : status'[i] = IF Last <= i /\ i < Last + n THEN ALLOCATED ELSE status[i]
  BY <1>0, <1>4 DEF SetStatus
<1>6. /\ insnQueue' \in Seq(Ids) /\ Len(insnQueue') = Len(insnQueue) - n
      /\ \A j \in 1 .. Len(insnQueue) - n : insnQueue'[j] = insnQueue[n + j]
  BY <1>0, <1>3, <1>t, DropIs
<1>7. /\ instList' \in Seq(Ids) /\ Len(instList') = Len(instList) + n
      /\ \A j \in 1 .. Len(instList) : instList'[j] = instList[j]
      /\ \A j \in 1 .. n : instList'[Len(instList) + j] = Last + j - 1
  <2> DEFINE h == SubSeq(insnQueue, 1, n)
  <2>1. h \in Seq(Ids) /\ Len(h) = n /\ \A j \in 1 .. n : h[j] = Last + j - 1
    BY <1>4
  <2>2. instList' = instList \o h
    BY <1>0
  <2> HIDE DEF h
  <2>3. /\ instList' \in Seq(Ids) /\ Len(instList') = Len(instList) + n
        /\ \A j \in 1 .. Len(instList) + n :
              instList'[j] = IF j <= Len(instList) THEN instList[j] ELSE h[j - Len(instList)]
    BY <1>t, <2>1, <2>2, ConcatProperties
  <2>4. \A j \in 1 .. Len(instList) : instList'[j] = instList[j]
    BY <1>2, <1>3, <2>3
  <2>5. ASSUME NEW j \in 1 .. n PROVE instList'[Len(instList) + j] = Last + j - 1
    <3>1. /\ Len(instList) + j \in 1 .. Len(instList) + n /\ ~(Len(instList) + j <= Len(instList))
          /\ (Len(instList) + j) - Len(instList) = j
      BY <1>2, <1>3
    <3>2. instList'[Len(instList) + j] = h[(Len(instList) + j) - Len(instList)]
      BY <2>3, <3>1
    <3> QED
      BY <2>1, <3>1, <3>2
  <2> QED
    BY <2>3, <2>4, <2>5
<1>8. Last' = Last + n /\ First' = First
  BY <1>1, <1>2, <1>3, <1>6, <1>7 DEF Last, First
<1>9. Insns' = Insns /\ \A i : Kind(i)' = Kind(i) /\ Addr(i)' = Addr(i)
  BY <1>1 DEF Insns, Kind, Addr
<1>10. ProgramOrder'
  <2>1. \A j \in 1 .. Len(insnQueue') : insnQueue'[j] = Last' + j - 1
    <3>1. \A j \in 1 .. Len(insnQueue) : insnQueue[j] = Last + j - 1
      BY DEF BInv, ProgramOrder
    <3>2. \A j \in 1 .. Len(insnQueue') : n + j \in 1 .. Len(insnQueue)
      BY <1>2, <1>3, <1>6
    <3> QED
      BY <1>2, <1>3, <1>6, <1>8, <3>1, <3>2
  <2>2. \A j \in 1 .. Len(instList') : instList'[j] = First' + j - 1
    <3>1. \A j \in 1 .. Len(instList) : instList[j] = First + j - 1
      BY DEF BInv, ProgramOrder
    <3> SUFFICES ASSUME NEW j \in 1 .. Len(instList') PROVE instList'[j] = First + j - 1
      BY <1>8
    <3>2. CASE j <= Len(instList)
      BY <1>2, <1>7, <3>1, <3>2
    <3>3. CASE j > Len(instList)
      <4>1. j - Len(instList) \in 1 .. n /\ Len(instList) + (j - Len(instList)) = j
        BY <1>2, <1>3, <1>7, <3>3
      <4>2. instList'[j] = Last + (j - Len(instList)) - 1
        BY <1>7, <4>1
      <4>3. j \in Int /\ First \in Int /\ Len(instList) \in Int /\ First + Len(instList) = Last
        BY <1>2
      <4>4. Last + (j - Len(instList)) - 1 = First + j - 1
        BY <4>3
      <4> QED
        BY <4>2, <4>4
    <3> QED
      BY <1>2, <1>7, <3>2, <3>3
  <2> QED
    BY <1>2, <1>3, <1>8, <2>1, <2>2 DEF ProgramOrder
<1> DEFINE Added(q, K) == /\ q' \in Seq(Ids) /\ Len(q') = Len(q) + Len(FirstOf(n, K))
                          /\ \A i : i \in Elems(q') <=>
                                \/ i \in Elems(q)
                                \/ i \in Ids /\ Last <= i /\ i < Last + n /\ Kind(i) \in K
<1>11. \A K : /\ FirstOf(n, K) \in Seq(Ids)
              /\ \A i : i \in Elems(FirstOf(n, K))
                            <=> i \in Ids /\ Last <= i /\ i < Last + n /\ Kind(i) \in K
  BY <1>3, FirstOfIs DEF BInv
<1>12. ASSUME NEW q \in Seq(Ids), NEW K
       PROVE  /\ q \o FirstOf(n, K) \in Seq(Ids)
              /\ Len(q \o FirstOf(n, K)) = Len(q) + Len(FirstOf(n, K))
              /\ \A i : i \in Elems(q \o FirstOf(n, K)) <=>
                            \/ i \in Elems(q)
                            \/ i \in Ids /\ Last <= i /\ i < Last + n /\ Kind(i) \in K
  <2> DEFINE t == FirstOf(n, K)
  <2>1. t \in Seq(Ids) /\ \A i : i \in Elems(t)
                            <=> i \in Ids /\ Last <= i /\ i < Last + n /\ Kind(i) \in K
    BY <1>11
  <2> HIDE DEF t
  <2>2. Elems(q \o t) = Elems(q) \cup Elems(t)
    BY <2>1, ConcatElems
  <2>3. q \o t \in Seq(Ids) /\ Len(q \o t) = Len(q) + Len(t)
    BY <2>1, ConcatProperties
  <2>4. \A i : i \in Elems(q \o t) <=>
                            \/ i \in Elems(q)
                            \/ i \in Ids /\ Last <= i /\ i < Last + n /\ Kind(i) \in K
    BY <2>1, <2>2
  <2> QED
    BY <2>3, <2>4 DEF t
<1>13. /\ Added(issueQueue, A) /\ Added(cosimIssueQueue, C)
       /\ Added(LDQ, {"load"}) /\ Added(STQ, {"store"})
  BY <1>0, <1>t, <1>12
<1>14. TypeOK'
  <2>1. status' \in [Ids -> 0 .. 7]
    BY <1>0, <1>2 DEF SetStatus
  <2>2. /\ Len(instList') <= RobSize /\ Len(issueQueue') <= IssueQSize
        /\ Len(cosimIssueQueue') <= IssueQSize /\ Len(LDQ') <= LdqSize /\ Len(STQ') <= StqSize
    BY <1>0, <1>7, <1>13 DEF CanDispatch
  <2> QED
    BY <1>1, <1>6, <1>7, <1>13, <2>1, <2>2 DEF BInv, TypeOK
<1>15. \A i \in Ids : i < Len(prog) => (Kind(i) \in A <=> ~isCosimFunc(i))
  BY KindsOnly DEF BInv, Kinds, isCosimFunc
<1>16. StatusByAge'
  BY <1>2, <1>3, <1>5, <1>8, <1>9 DEF BInv, StatusByAge, isCosimFunc
<1>17. IssueQueuesExact'
  <2> SUFFICES ASSUME NEW i \in Ids
               PROVE  /\ i \in Elems(issueQueue') <=> Waiting(i)' /\ ~isCosimFunc(i)
                      /\ i \in Elems(cosimIssueQueue') <=> Waiting(i)' /\ isCosimFunc(i)
    BY <1>9 DEF IssueQueuesExact, isCosimFunc
  <2>1. /\ i \in Elems(issueQueue) <=> Waiting(i) /\ ~isCosimFunc(i)
        /\ i \in Elems(cosimIssueQueue) <=> Waiting(i) /\ isCosimFunc(i)
    BY DEF BInv, IssueQueuesExact
  <2>2. Waiting(i)' <=> Waiting(i) \/ (Last <= i /\ i < Last + n)
    BY <1>2, <1>3, <1>5, <1>8 DEF Waiting
  <2>3. Last <= i /\ i < Last + n => (Kind(i) \in A <=> ~isCosimFunc(i))
    BY <1>2, <1>3, <1>15
  <2>4. Kind(i) \in C <=> isCosimFunc(i)
    BY DEF isCosimFunc
  <2> QED
    BY <1>13, <2>1, <2>2, <2>3, <2>4
<1>18. CosimQueueOrder'
  <2> DEFINE t == FirstOf(n, C)
  <2>1. /\ t \in Seq(Ids) /\ \A j, m \in 1 .. Len(t) : j < m => t[j] < t[m]
        /\ \A i : i \in Elems(t) => Last <= i
    BY <1>3, FirstOfIs DEF BInv
  <2>2. cosimIssueQueue' = cosimIssueQueue \o t
    BY <1>0
  <2> HIDE DEF t
  <2>3. \A i \in Elems(cosimIssueQueue) : i < Last
    <3>1. \A i \in Elems(cosimIssueQueue) : i \in Ids
      BY <1>t, ElementOfSeq DEF Elems
    <3> QED
      BY <3>1 DEF BInv, IssueQueuesExact, Waiting
  <2> DEFINE q == cosimIssueQueue
  <2>4. /\ Len(q) \in Nat /\ Len(t) \in Nat /\ \A j \in 1 .. Len(q) : q[j] \in Ids
        /\ \A j \in 1 .. Len(t) : t[j] \in Ids
    BY <1>t, <2>1, ElementOfSeq
  <2>5. /\ \A j \in 1 .. Len(q) : q[j] < Last /\ q[j] \in Int
        /\ \A j \in 1 .. Len(t) : Last <= t[j] /\ t[j] \in Int
    BY <1>2, <2>1, <2>3, <2>4 DEF Elems
  <2>6. /\ Len(q') = Len(q) + Len(t)
        /\ \A j \in 1 .. Len(q) + Len(t) : q'[j] = IF j <= Len(q) THEN q[j] ELSE t[j - Len(q)]
    BY <1>t, <2>1, <2>2, ConcatProperties
  <2>7. ASSUME NEW j \in 1 .. Len(q'), NEW m \in 1 .. Len(q'), j < m PROVE q'[j] < q'[m]
    <3>1. CASE m <= Len(q)
      <4>1. j \in 1 .. Len(q) /\ m \in 1 .. Len(q)
        BY <2>4, <2>6, <2>7, <3>1
      <4> QED
        BY <2>4, <2>6, <2>7, <4>1 DEF BInv, CosimQueueOrder
    <3>2. CASE j <= Len(q) /\ Len(q) < m
      <4>1. j \in 1 .. Len(q) /\ m - Len(q) \in 1 .. Len(t) /\ q'[j] = q[j] /\ q'[m] = t[m - Len(q)]
        BY <2>4, <2>6, <3>2
      <4>2. q[j] < Last /\ q[j] \in Int
        BY <2>5, <4>1
      <4>3. Last <= t[m - Len(q)] /\ t[m - Len(q)] \in Int
        BY <2>5, <4>1
      <4> HIDE DEF q
      <4>4. q[j] < t[m - Len(q)]
        BY <1>2, <4>2, <4>3
      <4> QED
        BY <4>1, <4>4
    <3>3. CASE Len(q) < j
      <4>1. /\ j - Len(q) \in 1 .. Len(t) /\ m - Len(q) \in 1 .. Len(t)
            /\ q'[j] = t[j - Len(q)] /\ q'[m] = t[m - Len(q)] /\ j - Len(q) < m - Len(q)
        BY <2>4, <2>6, <2>7, <3>3
      <4> QED
        BY <2>1, <4>1
    <3> QED
      BY <2>4, <2>6, <3>1, <3>2, <3>3
  <2> QED
    BY <2>7 DEF CosimQueueOrder
<1>19. \A i \in Ids : i < Last => status'[i] = status[i]
  BY <1>2, <1>5
<1>20. InFlightExact'
  <2>1. \A j \in 1 .. Len(inFlightInsn) : inFlightInsn[j] \in Ids
    BY <1>t, ElementOfSeq
  <2>2. \A j \in 1 .. Len(inFlightInsn) : inFlightInsn[j] < Last' /\ status'[inFlightInsn[j]] >= ISSUED
    <3>1. \A j \in 1 .. Len(inFlightInsn) : inFlightInsn[j] < Last /\ status[inFlightInsn[j]] >= ISSUED
      BY DEF BInv, InFlightExact
    <3> QED
      BY <1>2, <1>3, <1>8, <1>19, <2>1, <3>1
  <2>3. \A i \in Ids : First <= i /\ i < Last' /\ status'[i] >= ISSUED => i \in Elems(inFlightInsn)
    <3>1. \A i \in Ids : First <= i /\ i < Last /\ status[i] >= ISSUED => i \in Elems(inFlightInsn)
      BY DEF BInv, InFlightExact
    <3> QED
      BY <1>2, <1>3, <1>5, <1>8, <3>1
  <2>4. \A i \in Ids : i < First /\ Kind(i) = "store" /\ i \notin sent => i \in Elems(inFlightInsn)
    BY DEF BInv, InFlightExact
  <2> QED
    BY <1>1, <1>8, <1>9, <2>2, <2>3, <2>4 DEF InFlightExact
<1>21. StoreQueue'
  <2>1. \A i \in Elems(STQ) : i \in Ids /\ i < Last /\ Kind(i) = "store"
    BY <1>t, ElementOfSeq DEF BInv, StoreQueue, Elems
  <2>2. \A j \in 1 .. Len(STQ') : STQ'[j] \in Elems(STQ')
    BY DEF Elems
  <2>3. \A i \in Elems(STQ') : i < Last' /\ Kind(i) = "store"
    BY <1>2, <1>3, <1>8, <1>13, <2>1
  <2>4. ASSUME NEW i \in Ids, i < Last', Kind(i) = "store"
        PROVE  i \in Elems(STQ') \/ (status'[i] = COMMITED /\ i \in sent')
    <3>1. CASE i < Last
      BY <1>1, <1>13, <1>19, <2>4, <3>1 DEF BInv, StoreQueue
    <3>2. CASE ~(i < Last)
      BY <1>2, <1>3, <1>8, <1>13, <2>4, <3>2
    <3> QED
      BY <3>1, <3>2
  <2> QED
    BY <1>9, <2>2, <2>3, <2>4 DEF StoreQueue
<1>22. LoadsWait' /\ SentLate' /\ MemoryOrder'
  <2>1. \A i \in Ids : i < Last => i < Last'
    BY <1>2, <1>3, <1>8
  <2>2. LoadsWait'
    BY <1>1, <1>9, <1>19, <2>1 DEF BInv, LoadsWait, TypeOK
  <2>3. SentLate'
    BY <1>1, <1>19, <2>1 DEF BInv, SentLate, TypeOK
  <2>4. MemoryOrder'
    BY <1>1, <1>9 DEF BInv, MemoryOrder
  <2> QED
    BY <2>2, <2>3, <2>4
<1>23. Sleepers'
  <2>1. \A i \in Ids : status'[i] = SLEEP => status[i] = SLEEP
    BY <1>5
  <2>2. \A i \in Ids : status[i] = SLEEP => status'[i] = SLEEP /\ i < Last'
    BY <1>2, <1>3, <1>8, <1>19 DEF BInv, Sleepers
  <2>3. \A s \in Elems(STQ) : s \in Elems(STQ')
    BY <1>13
  <2>4. \A s \in Ids : \A i \in forwardList'[s] : status'[i] = SLEEP
    BY <1>1, <2>2 DEF BInv, Sleepers, TypeOK
  <2>5. ASSUME NEW i \in Ids, status'[i] = SLEEP
        PROVE  /\ i < Last' /\ Kind(i) = "load"
               /\ \E s \in Elems(STQ') :
                    /\ \A r \in Ids : i \in forwardList[r] <=> r = s
                    /\ s < i /\ Addr(s) = Addr(i)
                    /\ \A r \in s + 1 .. i - 1 : Kind(r) = "store" => Addr(r) # Addr(i)
                    /\ s \notin sent
    BY <2>1, <2>2, <2>3, <2>5 DEF BInv, Sleepers
  <2> QED
    BY <1>1, <1>9, <2>4, <2>5 DEF Sleepers
<1>24. CosimAllowed'
  <2>1. \A c \in cosimCanIssue : c \in Ids /\ c <= First /\ c < Last
    BY DEF BInv, CosimAllowed, TypeOK
  <2> QED
    BY <1>1, <1>2, <1>3, <1>5, <1>8, <1>9, <2>1 DEF BInv, CosimAllowed, isCosimFunc
<1>25. SacOrder'
  <2>1. \A j \in 1 .. Len(sac) : sac[j] \in Ids
    BY <1>t, ElementOfSeq
  <2> QED
    BY <1>1, <1>2, <1>3, <1>8, <1>9, <1>19, <2>1 DEF BInv, SacOrder, isCosimFunc
<1>26. FenceDrains'
  <2>1. \A i \in Ids : status'[i] >= FINISHED => status[i] >= FINISHED
    BY <1>2, <1>5
  <2> QED
    BY <1>1, <1>2, <1>9, <2>1 DEF BInv, FenceDrains
<1>fw. StepForward
  <2>1. \A i \in Ids : Last <= i => status[i] = INIT
    BY <1>2 DEF BInv, StatusByAge
  <2> QED
    BY <1>2, <1>5, <2>1, SameForward
<1> QED
  BY <1>fw, <1>10, <1>14, <1>16, <1>17, <1>18, <1>20, <1>21, <1>22, <1>23, <1>24, <1>25, <1>26 DEF BInv

\* The accelerator call that issue hands over, if there is one.
HandedOver == IF CosimIssuing THEN <<Head(cosimIssueQueue)>> ELSE <<>>

\* It is the oldest instruction, it was waiting, and it leaves its queue.
LEMMA HandedOverIs ==
    ASSUME BInv
    PROVE  /\ HandedOver \in Seq(Ids) /\ Len(HandedOver) \in 0 .. Len(cosimIssueQueue)
           /\ Len(HandedOver) <= 1
           /\ \A c \in Elems(HandedOver) :
                /\ c \in Ids /\ c < Last /\ c = First /\ isCosimFunc(c)
                /\ status[c] \in {ALLOCATED, READY} /\ c \in cosimCanIssue
           /\ \A i : i \in Elems(Drop(cosimIssueQueue, Len(HandedOver)))
                        <=> i \in Elems(cosimIssueQueue) /\ i \notin Elems(HandedOver)
<1> DEFINE q == cosimIssueQueue
<1>1. q \in Seq(Ids) /\ Len(q) \in Nat /\ \A j \in 1 .. Len(q) : q[j] \in Ids
  BY ElementOfSeq DEF BInv, TypeOK
<1>2. CASE ~CosimIssuing
  <2>1. HandedOver = <<>>
    BY <1>2 DEF HandedOver
  <2>2. Len(HandedOver) = 0 /\ Elems(HandedOver) = {} /\ HandedOver \in Seq(Ids)
    BY <2>1 DEF Elems
  <2>3. 0 \in 0 .. Len(q)
    BY <1>1
  <2>4. /\ Elems(Drop(q, 0)) \subseteq Elems(q)
        /\ \A x \in Elems(q) : x \in Elems(Drop(q, 0)) \/ \E j \in 1 .. 0 : q[j] = x
    BY <1>1, <2>3, DropElems
  <2>5. \A i : i \in Elems(Drop(q, 0)) <=> i \in Elems(q)
    BY <2>4
  <2> QED
    BY <2>2, <2>3, <2>5
<1>3. CASE CosimIssuing
  <2> DEFINE c == Head(q)
  <2>1. HandedOver = <<c>>
    BY <1>3 DEF HandedOver
  <2>2. q # <<>> /\ c \in cosimCanIssue
    BY <1>3 DEF CosimIssuing
  <2>3. 1 \in 1 .. Len(q) /\ c = q[1]
    BY <1>1, <2>2, EmptySeq, HeadTailProperties
  <2> HIDE DEF c
  <2>4. c \in Ids /\ c \in Elems(q)
    BY <1>1, <2>3 DEF Elems
  <2>5. Waiting(c) /\ isCosimFunc(c)
    BY <2>4 DEF BInv, IssueQueuesExact
  <2>6. c < Last /\ status[c] \in {ALLOCATED, READY} /\ c <= First
    BY <2>2, <2>5 DEF BInv, CosimAllowed, Waiting
  <2>7. c = First
    <3>1. First \in Nat /\ \A i \in Ids : i \in Int
      BY Ages DEF BInv
    <3>2. ~(c < First)
      BY <2>4, <2>6 DEF BInv, StatusByAge
    <3> QED
      BY <2>4, <2>6, <3>1, <3>2
  <2>8. Len(HandedOver) = 1 /\ Elems(HandedOver) = {c} /\ HandedOver \in Seq(Ids)
    <3>1. Len(<<c>>) = 1 /\ <<c>>[1] = c /\ <<c>> \in Seq(Ids)
      BY <2>4
    <3> QED
      BY <2>1, <3>1 DEF Elems
  <2>9. 1 \in 0 .. Len(q)
    BY <1>1, <2>3
  <2>10. /\ Elems(Drop(q, 1)) \subseteq Elems(q)
         /\ \A x \in Elems(q) : x \in Elems(Drop(q, 1)) \/ \E j \in 1 .. 1 : q[j] = x
    BY <1>1, <2>9, DropElems
  <2>11. c \notin Elems(Drop(q, 1))
    <3>1. Len(Drop(q, 1)) = Len(q) - 1 /\ \A j \in 1 .. Len(q) - 1 : Drop(q, 1)[j] = q[1 + j]
      BY <1>1, <2>9, DropIs
    <3>2. \A j \in 1 .. Len(q) - 1 : 1 + j \in 1 .. Len(q) /\ 1 < 1 + j
      BY <1>1
    <3>3. \A j, h \in 1 .. Len(q) : j < h => q[j] < q[h]
      BY DEF BInv, CosimQueueOrder
    <3>4. \A j \in 1 .. Len(q) - 1 : q[1] < q[1 + j]
      BY <2>3, <3>2, <3>3
    <3>5. ~(c < c)
      <4>1. c \in Int
        BY <2>4, Ages DEF BInv
      <4> QED
        BY <4>1
    <3> HIDE DEF q
    <3> QED
      BY <2>3, <3>1, <3>4, <3>5 DEF Elems
  <2>12. \A j \in 1 .. 1 : q[j] = c
    BY <2>3
  <2>13. \A i : i \in Elems(Drop(q, 1)) <=> i \in Elems(q) /\ i # c
    <3> HIDE DEF q
    <3> QED
      BY <2>10, <2>11, <2>12
  <2> QED
    BY <2>2, <2>4, <2>5, <2>6, <2>7, <2>8, <2>9, <2>13
<1> QED
  BY <1>2, <1>3

\* Core::issue.
LEMMA IssueBInv ==
    ASSUME BInv, NEW n \in 0 .. Len(issueQueue), NEW S \in SUBSET Elems(issueQueue), issue(n, S)
    PROVE  BInv' /\ StepForward
<1> DEFINE cs == HandedOver
<1>1. /\ status' = [i \in Ids |->
                        IF i \in S THEN (IF NoLatency(i) THEN FINISHED ELSE ISSUED)
                        ELSE IF i \in ReadyIn(n) THEN READY
                        ELSE IF i \in Elems(cs) THEN ISSUED
                        ELSE status[i]]
      /\ issueQueue' = Only(issueQueue, Elems(issueQueue) \ S)
      /\ cosimIssueQueue' = Drop(cosimIssueQueue, Len(cs))
      /\ inFlightInsn' = inFlightInsn \o Only(issueQueue, S) \o cs
      /\ sac' = sac \o cs
  BY DEF issue, HandedOver
<1>2. /\ S \subseteq ReadyIn(n) /\ pc' = "dispatch"
      /\ UNCHANGED <<k, prog, deps, cyc, sent, forwardList, cosimCanIssue, insnQueue, instList>>
      /\ UNCHANGED <<LDQ, STQ, doneSeqNum, free_load_ports, free_store_ports, loading, responses, sac_room>>
  BY DEF issue, insnVars, lsqVars, l1Vars
<1>3. /\ Last' = Last /\ First' = First /\ ProgramOrder' /\ Insns' = Insns
      /\ \A i : Kind(i)' = Kind(i) /\ Addr(i)' = Addr(i)
  BY <1>2, SameAges DEF BInv
<1>4. /\ First \in Nat /\ Last \in Nat /\ First <= Last
      /\ \A i \in Ids : i \in Int /\ status[i] \in 0 .. 7
      /\ \A i \in Insns : i \in Ids
  BY Ages DEF BInv
<1>t. /\ issueQueue \in Seq(Ids) /\ cosimIssueQueue \in Seq(Ids) /\ inFlightInsn \in Seq(Ids)
      /\ sac \in Seq(Ids) /\ Len(sac) \in Nat /\ \A j \in 1 .. Len(sac) : sac[j] \in Ids
      /\ Len(issueQueue) \in Nat /\ Len(cosimIssueQueue) \in Nat
  BY ElementOfSeq DEF BInv, TypeOK
<1>5. /\ cs \in Seq(Ids) /\ Len(cs) \in 0 .. Len(cosimIssueQueue) /\ Len(cs) <= 1
      /\ \A c \in Elems(cs) :
            /\ c \in Ids /\ c < Last /\ c = First /\ isCosimFunc(c)
            /\ status[c] \in {ALLOCATED, READY} /\ c \in cosimCanIssue
      /\ \A i : i \in Elems(Drop(cosimIssueQueue, Len(cs)))
                    <=> i \in Elems(cosimIssueQueue) /\ i \notin Elems(cs)
  BY HandedOverIs
<1> HIDE DEF cs
<1>6. \A i \in Elems(issueQueue) : i \in Ids /\ i < Last /\ ~isCosimFunc(i) /\ status[i] \in {ALLOCATED, READY}
  <2>1. \A i \in Elems(issueQueue) : i \in Ids
    BY <1>t, ElementOfSeq DEF Elems
  <2> QED
    BY <2>1 DEF BInv, IssueQueuesExact, Waiting
<1>7. ReadyIn(n) \subseteq Elems(issueQueue)
  BY <1>t DEF ReadyIn, Elems
<1>8. /\ \A i \in S : status'[i] \in {ISSUED, FINISHED}
      /\ \A i \in ReadyIn(n) \ S : status'[i] = READY
      /\ \A i \in Elems(cs) : status'[i] = ISSUED
      /\ \A i \in Ids : i \notin ReadyIn(n) /\ i \notin Elems(cs) => status'[i] = status[i]
  BY <1>1, <1>2, <1>5, <1>6, <1>7
<1>9. /\ \A i \in Ids : status[i] \notin {ALLOCATED, READY} => status'[i] = status[i]
      /\ \A i \in Ids : status'[i] \in {ALLOCATED, READY} <=>
                            /\ status[i] \in {ALLOCATED, READY}
                            /\ i \notin S /\ i \notin Elems(cs)
      /\ \A i \in Ids : \/ status'[i] = status[i]
                        \/ i < Last /\ status'[i] \in {READY, ISSUED, FINISHED}
  BY <1>2, <1>4, <1>5, <1>6, <1>7, <1>8
<1>10. /\ issueQueue' \in Seq(Ids) /\ Len(issueQueue') <= Len(issueQueue)
       /\ \A i : i \in Elems(issueQueue') <=> i \in Elems(issueQueue) /\ i \notin S
  <2> DEFINE T == Elems(issueQueue) \ S
  <2>1. \A i : i \in T <=> i \in Elems(issueQueue) /\ i \notin S
    OBVIOUS
  <2> HIDE DEF T
  <2>2. /\ Only(issueQueue, T) \in Seq(Ids) /\ Len(Only(issueQueue, T)) <= Len(issueQueue)
        /\ \A i : i \in Elems(Only(issueQueue, T)) <=> i \in Elems(issueQueue) /\ i \in T
    BY <1>t, OnlyIs
  <2>3. issueQueue' = Only(issueQueue, T)
    BY <1>1 DEF T
  <2> QED
    BY <2>1, <2>2, <2>3
<1>11. /\ cosimIssueQueue' \in Seq(Ids) /\ Len(cosimIssueQueue') = Len(cosimIssueQueue) - Len(cs)
       /\ \A j \in 1 .. Len(cosimIssueQueue') : cosimIssueQueue'[j] = cosimIssueQueue[Len(cs) + j]
       /\ \A i : i \in Elems(cosimIssueQueue') <=> i \in Elems(cosimIssueQueue) /\ i \notin Elems(cs)
  <2> DEFINE q == cosimIssueQueue  m == Len(cs)
  <2>1. q \in Seq(Ids) /\ m \in 0 .. Len(q)
    BY <1>5, <1>t
  <2>2. /\ q' = Drop(q, m)
        /\ \A i : i \in Elems(Drop(q, m)) <=> i \in Elems(q) /\ i \notin Elems(cs)
    BY <1>1, <1>5
  <2> HIDE DEF q, m
  <2>3. /\ Drop(q, m) \in Seq(Ids) /\ Len(Drop(q, m)) = Len(q) - m
        /\ \A j \in 1 .. Len(q) - m : Drop(q, m)[j] = q[m + j]
    BY <2>1, DropIs
  <2> QED
    BY <2>2, <2>3 DEF q, m
<1>12. /\ inFlightInsn' \in Seq(Ids)
       /\ \A i : i \in Elems(inFlightInsn') <=> i \in Elems(inFlightInsn) \/ i \in S \/ i \in Elems(cs)
  <2> DEFINE a == Only(issueQueue, S)
  <2>1. a \in Seq(Ids) /\ \A i : i \in Elems(a) <=> i \in Elems(issueQueue) /\ i \in S
    BY <1>t, OnlyIs
  <2>2. inFlightInsn' = (inFlightInsn \o a) \o cs
    BY <1>1
  <2> HIDE DEF a
  <2>3. inFlightInsn \o a \in Seq(Ids) /\ Elems(inFlightInsn \o a) = Elems(inFlightInsn) \cup Elems(a)
    BY <1>t, <2>1, ConcatElems, ConcatProperties
  <2> DEFINE b == inFlightInsn \o a
  <2>4. b \in Seq(Ids) /\ Elems(b) = Elems(inFlightInsn) \cup Elems(a) /\ inFlightInsn' = b \o cs
    BY <2>2, <2>3
  <2> HIDE DEF b
  <2>5. b \o cs \in Seq(Ids) /\ Elems(b \o cs) = Elems(b) \cup Elems(cs)
    BY <1>5, <2>4, ConcatElems, ConcatProperties
  <2> QED
    BY <2>1, <2>4, <2>5
<1>13. /\ sac' \in Seq(Ids) /\ Len(sac') = Len(sac) + Len(cs)
       /\ \A j \in 1 .. Len(sac) : sac'[j] = sac[j]
       /\ \A j \in 1 .. Len(sac') : j <= Len(sac) \/ (j = Len(sac) + 1 /\ sac'[j] \in Elems(cs))
  <2>1. /\ sac' \in Seq(Ids) /\ Len(sac') = Len(sac) + Len(cs)
        /\ \A j \in 1 .. Len(sac) + Len(cs) : sac'[j] = IF j <= Len(sac) THEN sac[j] ELSE cs[j - Len(sac)]
    BY <1>1, <1>5, <1>t, ConcatProperties
  <2>2. Len(cs) \in Nat
    BY <1>5
  <2>3. \A j \in 1 .. Len(sac) : sac'[j] = sac[j]
    BY <1>t, <2>1, <2>2
  <2>4. ASSUME NEW j \in 1 .. Len(sac'), ~(j <= Len(sac))
        PROVE  j = Len(sac) + 1 /\ sac'[j] \in Elems(cs)
    <3>1. j = Len(sac) + 1 /\ j - Len(sac) \in 1 .. Len(cs)
      BY <1>5, <1>t, <2>1, <2>2, <2>4
    <3>2. sac'[j] = cs[j - Len(sac)]
      BY <2>1, <2>4
    <3> QED
      BY <3>1, <3>2 DEF Elems
  <2> QED
    BY <2>1, <2>3, <2>4
<1>14. TypeOK'
  <2>1. status' \in [Ids -> 0 .. 7]
    BY <1>1, <1>4
  <2>2. Len(issueQueue') <= IssueQSize /\ Len(cosimIssueQueue') <= IssueQSize
    <3>1. Len(issueQueue) <= IssueQSize /\ Len(cosimIssueQueue) <= IssueQSize
      BY DEF BInv, TypeOK
    <3>2. IssueQSize \in Nat /\ Len(issueQueue') \in Nat /\ Len(cs) \in Nat
      BY <1>5, <1>10, SizeAssumption
    <3> QED
      BY <3>1, <3>2, <1>t, <1>10, <1>11
  <2> QED
    BY <1>2, <1>10, <1>11, <1>12, <1>13, <2>1, <2>2 DEF BInv, TypeOK
<1>15. StatusByAge'
  BY <1>3, <1>4, <1>9 DEF BInv, StatusByAge, isCosimFunc
<1>16. IssueQueuesExact'
  <2> SUFFICES ASSUME NEW i \in Ids
               PROVE  /\ i \in Elems(issueQueue') <=> Waiting(i)' /\ ~isCosimFunc(i)
                      /\ i \in Elems(cosimIssueQueue') <=> Waiting(i)' /\ isCosimFunc(i)
    BY <1>3 DEF IssueQueuesExact, isCosimFunc
  <2>1. /\ i \in Elems(issueQueue) <=> Waiting(i) /\ ~isCosimFunc(i)
        /\ i \in Elems(cosimIssueQueue) <=> Waiting(i) /\ isCosimFunc(i)
    BY DEF BInv, IssueQueuesExact
  <2>2. Waiting(i)' <=> Waiting(i) /\ i \notin S /\ i \notin Elems(cs)
    BY <1>3, <1>9 DEF Waiting
  <2>3. (i \in S => ~isCosimFunc(i)) /\ (i \in Elems(cs) => isCosimFunc(i))
    BY <1>5, <1>6
  <2> QED
    BY <1>10, <1>11, <2>1, <2>2, <2>3
<1>17. CosimQueueOrder'
  <2> SUFFICES ASSUME NEW j \in 1 .. Len(cosimIssueQueue'), NEW h \in 1 .. Len(cosimIssueQueue'), j < h
               PROVE  cosimIssueQueue'[j] < cosimIssueQueue'[h]
    BY DEF CosimQueueOrder
  <2>1. /\ Len(cs) + j \in 1 .. Len(cosimIssueQueue) /\ Len(cs) + h \in 1 .. Len(cosimIssueQueue)
        /\ Len(cs) + j < Len(cs) + h
    BY <1>5, <1>11, <1>t
  <2> QED
    BY <1>11, <2>1 DEF BInv, CosimQueueOrder
<1>18. InFlightExact'
  <2>1. \A i \in Elems(inFlightInsn) : i \in Ids /\ i < Last /\ status[i] >= ISSUED
    BY <1>t, ElementOfSeq DEF BInv, InFlightExact, Elems
  <2>2. \A i \in Elems(inFlightInsn') : i < Last /\ status'[i] >= ISSUED
    BY <1>5, <1>6, <1>8, <1>9, <1>12, <2>1
  <2>3. \A j \in 1 .. Len(inFlightInsn') : inFlightInsn'[j] \in Elems(inFlightInsn')
    BY DEF Elems
  <2>4. ASSUME NEW i \in Ids, First <= i, i < Last, status'[i] >= ISSUED
        PROVE  i \in Elems(inFlightInsn')
    <3>1. CASE i \in S \/ i \in Elems(cs)
      BY <1>12, <3>1
    <3>2. CASE i \notin S /\ i \notin Elems(cs)
      <4>1. status[i] >= ISSUED
        BY <1>4, <1>8, <2>4, <3>2
      <4> QED
        BY <1>12, <2>4, <4>1 DEF BInv, InFlightExact
    <3> QED
      BY <3>1, <3>2
  <2>5. \A i \in Ids : i < First /\ Kind(i) = "store" /\ i \notin sent => i \in Elems(inFlightInsn')
    BY <1>12 DEF BInv, InFlightExact
  <2> QED
    BY <1>2, <1>3, <2>2, <2>3, <2>4, <2>5 DEF InFlightExact
<1>19. StoreQueue'
  BY <1>2, <1>3, <1>9 DEF BInv, StoreQueue
<1>20. LoadsWait' /\ MemoryOrder'
  <2>1. \A i \in loading \cup responses : i \in Ids /\ status[i] = EXECUTING
    BY DEF BInv, LoadsWait, TypeOK
  <2>2. \A i \in loading \cup responses : status'[i] = EXECUTING
    BY <1>9, <2>1
  <2> QED
    BY <1>2, <1>3, <2>2 DEF BInv, LoadsWait, MemoryOrder
<1>21. SentLate'
  <2>1. \A i \in sent : i \in Ids /\ i < Last /\ status[i] >= EXECUTING
    BY DEF BInv, SentLate, TypeOK
  <2>2. \A i \in sent : status'[i] = status[i]
    BY <1>9, <2>1
  <2> QED
    BY <1>2, <1>3, <2>1, <2>2 DEF SentLate
<1>22. Sleepers'
  <2>1. \A i \in Ids : status'[i] = SLEEP <=> status[i] = SLEEP
    BY <1>4, <1>8, <1>9
  <2> QED
    BY <1>2, <1>3, <2>1 DEF BInv, Sleepers, TypeOK
<1>23. CosimAllowed'
  <2>1. ASSUME NEW c \in Ids, c < Last, isCosimFunc(c), status'[c] >= ISSUED PROVE c \in cosimCanIssue
    <3>1. CASE c \in Elems(cs)
      BY <1>5, <3>1
    <3>2. CASE c \notin Elems(cs)
      <4>1. status[c] = status'[c]
        BY <1>6, <1>7, <1>8, <2>1, <3>2
      <4> QED
        BY <2>1, <4>1 DEF BInv, CosimAllowed
    <3> QED
      BY <3>1, <3>2
  <2> QED
    BY <1>2, <1>3, <2>1 DEF BInv, CosimAllowed, isCosimFunc
<1>24. \A j \in 1 .. Len(sac) : /\ sac[j] < Last /\ isCosimFunc(sac[j]) /\ status[sac[j]] >= ISSUED
                                /\ sac[j] <= First
  BY <1>t DEF BInv, SacOrder, CosimAllowed
<1>25. SacOrder'
  <2>1. ASSUME NEW j \in 1 .. Len(sac')
        PROVE  sac'[j] < Last /\ isCosimFunc(sac'[j]) /\ status'[sac'[j]] >= ISSUED
    <3>1. CASE j <= Len(sac)
      <4>1. j \in 1 .. Len(sac) /\ sac'[j] = sac[j] /\ sac[j] \in Ids
        BY <1>13, <1>t, <3>1
      <4>2. status'[sac[j]] = status[sac[j]]
        BY <1>9, <1>24, <4>1
      <4> QED
        BY <1>24, <4>1, <4>2
    <3>2. CASE ~(j <= Len(sac))
      <4>1. sac'[j] \in Elems(cs)
        BY <1>13, <3>2
      <4> QED
        BY <1>5, <1>8, <4>1
    <3> QED
      BY <3>1, <3>2
  <2>2. ASSUME NEW j \in 1 .. Len(sac'), NEW h \in 1 .. Len(sac'), j < h PROVE sac'[j] < sac'[h]
    <3>1. j \in 1 .. Len(sac) /\ sac'[j] = sac[j] /\ sac[j] \in Ids
      BY <1>5, <1>13, <1>t, <2>2
    <3>2. CASE h <= Len(sac)
      <4>1. h \in 1 .. Len(sac) /\ sac'[h] = sac[h]
        BY <1>13, <1>t, <3>2
      <4> QED
        BY <2>2, <3>1, <4>1 DEF BInv, SacOrder
    <3>3. CASE ~(h <= Len(sac))
      <4>1. sac'[h] \in Elems(cs)
        BY <1>13, <3>3
      <4>2. sac'[h] = First /\ status[First] \in {ALLOCATED, READY}
        BY <1>5, <4>1
      <4>3. sac[j] # First /\ sac[j] <= First /\ sac[j] \in Int
        BY <1>4, <1>24, <3>1, <4>2
      <4>4. sac[j] < First
        BY <1>4, <4>3
      <4> QED
        BY <3>1, <4>2, <4>4
    <3> QED
      BY <3>2, <3>3
  <2> QED
    BY <1>3, <2>1, <2>2 DEF SacOrder, isCosimFunc
<1>26. FenceDrains'
  <2> SUFFICES ASSUME NEW f \in Insns, Kind(f) = "fence", status'[f] >= FINISHED,
                      NEW j \in 1 .. Len(sac')
               PROVE  sac'[j] > f
    BY <1>3 DEF FenceDrains
  <2>1. f \in Ids /\ isCosimFunc(f) /\ f \notin ReadyIn(n)
    BY <1>4, <1>6, <1>7 DEF isCosimFunc
  <2>2. f \notin Elems(cs) /\ status[f] = status'[f]
    BY <1>8, <2>1
  <2>3. CASE j <= Len(sac)
    <3>1. j \in 1 .. Len(sac) /\ sac'[j] = sac[j]
      BY <1>13, <1>t, <2>3
    <3> QED
      BY <2>2, <3>1 DEF BInv, FenceDrains
  <2>4. CASE ~(j <= Len(sac))
    <3>1. sac'[j] \in Elems(cs)
      BY <1>13, <2>4
    <3>2. sac'[j] = First /\ f # First
      BY <1>5, <2>2, <3>1
    <3>3. f < Last
      BY <1>4, <2>1, <2>2 DEF BInv, StatusByAge
    <3>4. f \in cosimCanIssue
      BY <1>4, <2>1, <2>2, <3>3 DEF BInv, CosimAllowed
    <3>5. f <= First
      BY <3>4 DEF BInv, CosimAllowed
    <3>6. f \in Int
      BY <1>4, <2>1
    <3>7. First > f
      BY <1>4, <3>2, <3>5, <3>6
    <3> QED
      BY <3>2, <3>7
  <2> QED
    BY <2>3, <2>4
<1>fw. StepForward
  BY <1>4, <1>5, <1>6, <1>7, <1>8, <1>9, SameForward
<1> QED
  BY <1>fw, <1>3, <1>14, <1>15, <1>16, <1>17, <1>18, <1>19, <1>20, <1>21, <1>22, <1>23, <1>25, <1>26 DEF BInv

\* What every step of Core::execute leaves alone.
ExecuteFrame ==
    /\ UNCHANGED <<prog, deps, insnQueue, instList, issueQueue, cosimIssueQueue, inFlightInsn>>
    /\ UNCHANGED <<pc, LDQ, STQ, doneSeqNum, responses, sac, sac_room, cosimCanIssue>>
    /\ k' \in Nat \ {0}

\* How execution may move an instruction on.
Executed(i) ==
    /\ i < Last /\ status[i] >= ISSUED
    /\ status'[i] \in {EXECUTING, FINISHED, SLEEP}
    /\ i < First => isCosimFunc(i) /\ status'[i] = FINISHED
    /\ Kind(i) = "fence" /\ status[i] < FINISHED => status'[i] = EXECUTING
    /\ ~isCosimFunc(i) => status[i] = ISSUED \/ (status[i] = SLEEP /\ status'[i] = FINISHED)

\* A step of execution keeps the invariant if it moves instructions on in that
\* way, sends what is being executed, and keeps the order of loads and stores.
LEMMA ExecuteKeeps ==
    ASSUME BInv, ExecuteFrame,
           status' \in [Ids -> 0 .. 7], cyc' \in [Ids -> Nat], forwardList' \in [Ids -> SUBSET Ids],
           sent' \subseteq Ids, loading' \subseteq Ids,
           free_load_ports' \in 0 .. L1LoadPorts, free_store_ports' \in 0 .. L1StorePorts,
           \A i \in Ids : status'[i] = status[i] \/ Executed(i),
           sent \subseteq sent', \A i \in sent' \ sent : i < Last /\ status'[i] >= EXECUTING,
           LoadsWait', MemoryOrder', Sleepers'
    PROVE  BInv' /\ StepForward
<1> USE DEF ExecuteFrame
<1>1. /\ Last' = Last /\ First' = First /\ ProgramOrder' /\ Insns' = Insns
      /\ \A i : Kind(i)' = Kind(i) /\ Addr(i)' = Addr(i)
  BY SameAges DEF BInv
<1>2. /\ First \in Nat /\ Last \in Nat /\ First <= Last
      /\ \A i \in Ids : i \in Int /\ status[i] \in 0 .. 7
      /\ \A i \in Insns : i \in Ids
  BY Ages DEF BInv
<1>3. TypeOK'
  BY DEF BInv, TypeOK
<1>4. /\ \A i \in Ids : status[i] >= ISSUED <=> status'[i] >= ISSUED
      /\ \A i \in Ids : status'[i] \in {ALLOCATED, READY} <=> status[i] \in {ALLOCATED, READY}
      /\ \A i \in Ids : status'[i] = INIT <=> status[i] = INIT
  BY <1>2 DEF Executed
<1>5. StatusByAge'
  BY <1>1, <1>2, <1>4 DEF BInv, StatusByAge, Executed, isCosimFunc
<1>6. IssueQueuesExact' /\ CosimQueueOrder'
  BY <1>1, <1>2, <1>4 DEF BInv, IssueQueuesExact, CosimQueueOrder, Waiting, isCosimFunc
<1>7. InFlightExact'
  <2>1. \A j \in 1 .. Len(inFlightInsn) : inFlightInsn[j] \in Ids
    BY ElementOfSeq DEF BInv, TypeOK
  <2> QED
    BY <1>1, <1>4, <2>1 DEF BInv, InFlightExact
<1>8. StoreQueue'
  <2>1. ASSUME NEW i \in Ids, i < Last, Kind(i) = "store", status[i] = COMMITED
        PROVE  status'[i] = COMMITED
    <3>1. i < First
      BY <1>2, <2>1 DEF BInv, StatusByAge
    <3> QED
      BY <2>1, <3>1 DEF Executed, isCosimFunc
  <2> QED
    BY <1>1, <2>1 DEF BInv, StoreQueue
<1>9. SentLate'
  <2>1. ASSUME NEW i \in sent PROVE i < Last /\ status'[i] >= EXECUTING
    <3>1. i \in Ids /\ i < Last /\ status[i] >= EXECUTING
      BY DEF BInv, SentLate, TypeOK
    <3> QED
      BY <1>2, <3>1 DEF Executed
  <2> QED
    BY <1>1, <2>1 DEF SentLate
<1>10. CosimAllowed'
  BY <1>1, <1>4 DEF BInv, CosimAllowed, isCosimFunc
<1>11. SacOrder'
  <2>1. \A j \in 1 .. Len(sac) : sac[j] \in Ids
    BY ElementOfSeq DEF BInv, TypeOK
  <2> QED
    BY <1>1, <1>4, <2>1 DEF BInv, SacOrder, isCosimFunc
<1>12. FenceDrains'
  <2>1. \A i \in Insns : Kind(i) = "fence" /\ status'[i] >= FINISHED => status[i] >= FINISHED
    BY <1>2 DEF Executed
  <2> QED
    BY <1>1, <2>1 DEF BInv, FenceDrains
<1>fw. StepForward
  BY <1>2, SameForward DEF Executed
<1> QED
  BY <1>fw, <1>1, <1>3, <1>5, <1>6, <1>7, <1>8, <1>9, <1>10, <1>11, <1>12 DEF BInv

\* What the search of the store queue answers.
LEMMA ForwardDataIs ==
    ASSUME BInv, NEW i \in Ids
    PROVE  /\ forwardData(i) = {} =>
                \A s \in Elems(STQ) : s # 0 /\ s < i => Addr(s) # Addr(i)
           /\ forwardData(i) # {} =>
                LET s == CHOOSE s \in forwardData(i) : TRUE IN
                /\ s \in Elems(STQ) /\ s \in Ids /\ s < i /\ Addr(s) = Addr(i)
                /\ \A r \in Elems(STQ) : r # 0 /\ r < i /\ Addr(r) = Addr(i) => r <= s
<1> DEFINE O == OlderStores(i) \ {0}
<1>1. /\ \A s : s \in O <=> s \in Elems(STQ) /\ s # 0 /\ s < i /\ Addr(s) = Addr(i)
      /\ forwardData(i) = IF O = {} THEN {} ELSE {Youngest(O)}
  BY DEF forwardData, OlderStores
<1>2. \A s \in Elems(STQ) : s \in Ids
  BY ElementOfSeq DEF BInv, TypeOK, Elems
<1>3. MaxInsns \in Nat /\ O \in SUBSET (0 .. MaxInsns)
  BY <1>1, <1>2, SizeAssumption DEF Ids
<1> HIDE DEF O
<1>4. CASE O = {}
  BY <1>1, <1>4
<1>5. CASE O # {}
  <2>1. Youngest(O) \in O /\ \A r \in O : r <= Youngest(O)
    BY <1>3, <1>5, YoungestIs
  <2>2. forwardData(i) = {Youngest(O)}
    BY <1>1, <1>5
  <2>3. (CHOOSE s \in forwardData(i) : TRUE) = Youngest(O)
    BY <2>2
  <2> QED
    BY <1>1, <1>2, <2>1, <2>2, <2>3
<1> QED
  BY <1>4, <1>5

\* Execution of anything but loads and stores.
LEMMA ExecuteOtherBInv ==
    ASSUME BInv, ExecuteFrame, cyc' \in [Ids -> Nat], NEW i \in Ids, i < Last, status[i] >= ISSUED,
           ~isMem(i), NEW v \in {EXECUTING, FINISHED}, status' = [status EXCEPT ![i] = v],
           i < First => isCosimFunc(i) /\ v = FINISHED,
           isCosimFunc(i) \/ status[i] = ISSUED,
           Kind(i) = "fence" /\ status[i] < FINISHED => v = EXECUTING,
           UNCHANGED <<sent, forwardList, free_load_ports, free_store_ports, loading>>
    PROVE  BInv' /\ StepForward
<1>1. /\ Last' = Last /\ \A j : Kind(j)' = Kind(j) /\ Addr(j)' = Addr(j)
  BY SameAges DEF ExecuteFrame
<1>2. status \in [Ids -> 0 .. 7] /\ responses' = responses /\ STQ' = STQ
  BY DEF BInv, TypeOK, ExecuteFrame
<1>3. /\ status' \in [Ids -> 0 .. 7] /\ status'[i] = v
      /\ \A j \in Ids : j # i => status'[j] = status[j]
  BY <1>2
<1>4. \A j \in Ids : Kind(j) = "load" => status'[j] = status[j]
  BY <1>3 DEF isMem
<1>5. LoadsWait' /\ MemoryOrder'
  BY <1>1, <1>2, <1>4 DEF BInv, LoadsWait, MemoryOrder, TypeOK
<1>6. Sleepers'
  <2>1. \A j \in Ids : status'[j] = SLEEP => status[j] = SLEEP
    BY <1>3
  <2>2. \A j \in Ids : status[j] = SLEEP => status'[j] = SLEEP
    BY <1>4 DEF BInv, Sleepers
  <2> QED
    BY <1>1, <1>2, <2>1, <2>2 DEF BInv, Sleepers, TypeOK
<1>7. \A j \in Ids : status'[j] = status[j] \/ Executed(j)
  BY <1>3 DEF Executed
<1> QED
  BY <1>3, <1>5, <1>6, <1>7, ExecuteKeeps DEF BInv, TypeOK

\* A load that has just been issued is nowhere yet.
LEMMA IssuedLoadIs ==
    ASSUME BInv, NEW i \in Ids, i < Last, Kind(i) = "load", status[i] = ISSUED
    PROVE  /\ First <= i /\ i \notin loading /\ i \notin responses
           /\ \A s \in Ids : i \notin forwardList[s]
           /\ \A s \in Elems(STQ) : s # i
<1>1. First \in Nat /\ i \in Int
  BY Ages DEF BInv
<1>2. First <= i
  BY <1>1 DEF BInv, StatusByAge
<1> QED
  BY <1>2 DEF BInv, LoadsWait, Sleepers, StoreQueue, Elems

\* A load is given the data of a store that has it.
LEMMA ForwardedBInv ==
    ASSUME BInv, ExecuteFrame, cyc' \in [Ids -> Nat], NEW i \in Ids, i < Last, status[i] = ISSUED,
           Kind(i) = "load", status' = [status EXCEPT ![i] = FINISHED], sent' = sent \cup {i},
           UNCHANGED <<forwardList, free_load_ports, free_store_ports, loading>>
    PROVE  BInv' /\ StepForward
<1>1. /\ Last' = Last /\ \A j : Kind(j)' = Kind(j) /\ Addr(j)' = Addr(j)
  BY SameAges DEF ExecuteFrame
<1>2. status \in [Ids -> 0 .. 7] /\ responses' = responses /\ STQ' = STQ
  BY DEF BInv, TypeOK, ExecuteFrame
<1>3. /\ status' \in [Ids -> 0 .. 7] /\ status'[i] = FINISHED
      /\ \A j \in Ids : j # i => status'[j] = status[j]
  BY <1>2
<1>4. /\ First <= i /\ i \notin loading /\ i \notin responses
      /\ \A s \in Ids : i \notin forwardList[s]
      /\ \A s \in Elems(STQ) : s # i
  BY IssuedLoadIs
<1>5. LoadsWait' /\ MemoryOrder'
  BY <1>1, <1>2, <1>3, <1>4 DEF BInv, LoadsWait, MemoryOrder, TypeOK
<1>6. Sleepers'
  <2>1. \A j \in Ids : status'[j] = SLEEP <=> status[j] = SLEEP
    BY <1>3
  <2>2. ASSUME NEW j \in Ids, status'[j] = SLEEP
        PROVE  /\ j < Last /\ Kind(j) = "load"
               /\ \E s \in Elems(STQ) :
                    /\ \A r \in Ids : j \in forwardList[r] <=> r = s
                    /\ s < j /\ Addr(s) = Addr(j)
                    /\ \A r \in s + 1 .. j - 1 : Kind(r) = "store" => Addr(r) # Addr(j)
                    /\ s \notin sent'
    BY <1>4, <2>1, <2>2 DEF BInv, Sleepers
  <2>3. \A s \in Ids : \A j \in forwardList[s] : status'[j] = SLEEP
    BY <2>1 DEF BInv, Sleepers, TypeOK
  <2> QED
    BY <1>1, <1>2, <2>2, <2>3 DEF Sleepers
<1>7. \A j \in Ids : status'[j] = status[j] \/ Executed(j)
  <2>1. First \in Nat /\ i \in Int
    BY Ages DEF BInv
  <2> QED
    BY <1>3, <1>4, <2>1 DEF Executed
<1>8. /\ sent' \subseteq Ids /\ sent \subseteq sent'
      /\ \A j \in sent' \ sent : j < Last /\ status'[j] >= EXECUTING
  BY <1>3 DEF BInv, TypeOK
<1> QED
  BY <1>3, <1>5, <1>6, <1>7, <1>8, ExecuteKeeps DEF BInv, TypeOK

\* A load goes to L1.
LEMMA LoadSentBInv ==
    ASSUME BInv, ExecuteFrame, cyc' \in [Ids -> Nat], NEW i \in Ids, i < Last, status[i] = ISSUED,
           Kind(i) = "load", forwardData(i) = {}, free_load_ports > 0,
           status' = [status EXCEPT ![i] = EXECUTING], sent' = sent \cup {i},
           free_load_ports' = free_load_ports - 1, loading' = loading \cup {i},
           UNCHANGED <<forwardList, free_store_ports>>
    PROVE  BInv' /\ StepForward
<1>1. /\ Last' = Last /\ \A j : Kind(j)' = Kind(j) /\ Addr(j)' = Addr(j)
  BY SameAges DEF ExecuteFrame
<1>2. status \in [Ids -> 0 .. 7] /\ responses' = responses /\ STQ' = STQ
  BY DEF BInv, TypeOK, ExecuteFrame
<1>3. /\ status' \in [Ids -> 0 .. 7] /\ status'[i] = EXECUTING
      /\ \A j \in Ids : j # i => status'[j] = status[j]
  BY <1>2
<1>4. /\ First <= i /\ i \notin loading /\ i \notin responses
      /\ \A s \in Ids : i \notin forwardList[s]
      /\ \A s \in Elems(STQ) : s # i
  BY IssuedLoadIs
<1>a. First \in Nat /\ Last \in Nat /\ i \in Nat /\ Last <= Len(prog) /\ Len(prog) \in Nat
      /\ \A j \in Nat : j < Len(prog) => j \in Ids
  BY Ages DEF BInv
<1>5. LoadsWait'
  <2>1. LoadsWait /\ loading \subseteq Ids /\ responses \subseteq Ids
    BY DEF BInv, TypeOK
  <2>2. i < Last' /\ Kind(i)' = "load" /\ status'[i] = EXECUTING
    BY <1>1, <1>3
  <2>3. \A j \in loading \cup responses : j < Last' /\ Kind(j)' = "load" /\ status'[j] = EXECUTING
    BY <1>1, <1>3, <1>4, <2>1 DEF LoadsWait
  <2>4. loading' \cup responses' = (loading \cup responses) \cup {i}
    BY <1>2
  <2>5. loading' \cap responses' = {}
    BY <1>2, <1>4, <2>1 DEF LoadsWait
  <2> QED
    BY <2>2, <2>3, <2>4, <2>5 DEF LoadsWait
<1>6. MemoryOrder'
  <2>1. ASSUME NEW j \in loading' \cup responses, NEW s \in 1 .. j - 1, Kind(s) = "store", Addr(s) = Addr(j)
        PROVE  s \in sent'
    <3>1. CASE j # i
      BY <2>1, <3>1 DEF BInv, MemoryOrder
    <3>2. CASE j = i
      <4>1. s \in Nat /\ s # 0 /\ s < i /\ s < Last
        BY <1>a, <3>2
      <4>2. s \in Ids
        BY <1>a, <4>1
      <4>3. s \notin Elems(STQ)
        BY <2>1, <3>2, <4>1, ForwardDataIs
      <4> QED
        BY <2>1, <4>1, <4>2, <4>3 DEF BInv, StoreQueue
    <3> QED
      BY <3>1, <3>2
  <2> QED
    BY <1>1, <1>2, <2>1 DEF MemoryOrder
<1>7. Sleepers'
  <2>1. \A j \in Ids : status'[j] = SLEEP <=> status[j] = SLEEP
    BY <1>3
  <2>2. ASSUME NEW j \in Ids, status'[j] = SLEEP
        PROVE  /\ j < Last /\ Kind(j) = "load"
               /\ \E s \in Elems(STQ) :
                    /\ \A r \in Ids : j \in forwardList[r] <=> r = s
                    /\ s < j /\ Addr(s) = Addr(j)
                    /\ \A r \in s + 1 .. j - 1 : Kind(r) = "store" => Addr(r) # Addr(j)
                    /\ s \notin sent'
    BY <1>4, <2>1, <2>2 DEF BInv, Sleepers
  <2>3. \A s \in Ids : \A j \in forwardList[s] : status'[j] = SLEEP
    BY <2>1 DEF BInv, Sleepers, TypeOK
  <2> QED
    BY <1>1, <1>2, <2>2, <2>3 DEF Sleepers
<1>8. \A j \in Ids : status'[j] = status[j] \/ Executed(j)
  BY <1>3, <1>4, <1>a DEF Executed
<1>9. /\ sent' \subseteq Ids /\ sent \subseteq sent' /\ loading' \subseteq Ids
      /\ \A j \in sent' \ sent : j < Last /\ status'[j] >= EXECUTING
  <2>1. sent \subseteq Ids /\ loading \subseteq Ids
    BY DEF BInv, TypeOK
  <2>2. sent' \subseteq Ids /\ sent \subseteq sent' /\ loading' \subseteq Ids
    BY <2>1
  <2>3. \A j \in sent' \ sent : j = i
    OBVIOUS
  <2>4. i < Last /\ status'[i] >= EXECUTING
    BY <1>3
  <2> QED
    BY <2>2, <2>3, <2>4
<1>10. /\ free_load_ports' \in 0 .. L1LoadPorts /\ free_store_ports' \in 0 .. L1StorePorts
       /\ forwardList' \in [Ids -> SUBSET Ids]
  BY SizeAssumption DEF BInv, TypeOK
<1> QED
  BY <1>3, <1>5, <1>6, <1>7, <1>8, <1>9, <1>10, ExecuteKeeps

\* A load goes to sleep on the store whose data it needs.
LEMMA LoadSleepsBInv ==
    ASSUME BInv, ExecuteFrame, cyc' \in [Ids -> Nat], NEW i \in Ids, i < Last, status[i] = ISSUED,
           Kind(i) = "load", NEW s \in Ids, s \in Elems(STQ), s < i, Addr(s) = Addr(i),
           \A r \in Elems(STQ) : r # 0 /\ r < i /\ Addr(r) = Addr(i) => r <= s,
           ~(status[s] >= READY),
           status' = [status EXCEPT ![i] = SLEEP],
           forwardList' = [forwardList EXCEPT ![s] = @ \cup {i}],
           UNCHANGED <<sent, free_load_ports, free_store_ports, loading>>
    PROVE  BInv' /\ StepForward
<1>1. /\ Last' = Last /\ \A j : Kind(j)' = Kind(j) /\ Addr(j)' = Addr(j)
  BY SameAges DEF ExecuteFrame
<1>2. /\ status \in [Ids -> 0 .. 7] /\ responses' = responses /\ STQ' = STQ
      /\ forwardList \in [Ids -> SUBSET Ids]
  BY DEF BInv, TypeOK, ExecuteFrame
<1>3. /\ status' \in [Ids -> 0 .. 7] /\ status'[i] = SLEEP
      /\ \A j \in Ids : j # i => status'[j] = status[j]
  BY <1>2
<1>4. /\ First <= i /\ i \notin loading /\ i \notin responses
      /\ \A r \in Ids : i \notin forwardList[r]
      /\ \A r \in Elems(STQ) : r # i
  BY IssuedLoadIs
<1>5. /\ forwardList' \in [Ids -> SUBSET Ids]
      /\ \A r \in Ids : forwardList'[r] = IF r = s THEN forwardList[s] \cup {i} ELSE forwardList[r]
  BY <1>2
<1>a. First \in Nat /\ Last \in Nat /\ i \in Nat /\ s \in Nat /\ Last <= Len(prog) /\ Len(prog) \in Nat
      /\ \A j \in Nat : j < Len(prog) => j \in Ids
  BY Ages DEF BInv
<1>6. LoadsWait' /\ MemoryOrder'
  <2>1. LoadsWait /\ MemoryOrder /\ loading \subseteq Ids /\ responses \subseteq Ids
    BY DEF BInv, TypeOK
  <2>2. \A j \in loading \cup responses : j \in Ids /\ j # i
    BY <1>4, <2>1
  <2>3. LoadsWait'
    BY <1>1, <1>2, <1>3, <2>1, <2>2 DEF LoadsWait
  <2>4. MemoryOrder'
    BY <1>1, <1>2, <2>1 DEF MemoryOrder
  <2> QED
    BY <2>3, <2>4
<1>7. s \notin sent /\ First <= s
  <2>1. status[s] \in 0 .. 7 /\ status[s] < READY
    BY <1>2
  <2>2. s \notin sent
    BY <2>1 DEF BInv, SentLate
  <2>3. ~(s < First)
    BY <2>1 DEF BInv, StatusByAge
  <2> QED
    BY <1>a, <2>2, <2>3
<1>8. ASSUME NEW r \in s + 1 .. i - 1, Kind(r) = "store", Addr(r) = Addr(i) PROVE FALSE
  <2>1. r \in Nat /\ r # 0 /\ s < r /\ r < i /\ r < Last /\ First <= r /\ ~(r <= s)
    BY <1>a, <1>7
  <2>2. r \in Ids
    BY <1>a, <2>1
  <2>3. r \notin Elems(STQ)
    BY <1>8, <2>1
  <2>4. status[r] = COMMITED
    BY <1>8, <2>1, <2>2, <2>3 DEF BInv, StoreQueue
  <2> QED
    BY <2>1, <2>2, <2>4 DEF BInv, StatusByAge
<1>9. Sleepers'
  <2>1. \A r \in Ids : \A j \in forwardList'[r] : status'[j] = SLEEP
    <3>1. \A r \in Ids : \A j \in forwardList[r] : j \in Ids /\ status[j] = SLEEP
      BY <1>2 DEF BInv, Sleepers
    <3> QED
      BY <1>3, <1>5, <3>1
  <2>2. ASSUME NEW j \in Ids, status'[j] = SLEEP
        PROVE  /\ j < Last /\ Kind(j) = "load"
               /\ \E w \in Elems(STQ) :
                    /\ \A r \in Ids : j \in forwardList'[r] <=> r = w
                    /\ w < j /\ Addr(w) = Addr(j)
                    /\ \A r \in w + 1 .. j - 1 : Kind(r) = "store" => Addr(r) # Addr(j)
                    /\ w \notin sent
    <3>1. CASE j = i
      <4>1. \A r \in Ids : i \in forwardList'[r] <=> r = s
        BY <1>4, <1>5
      <4> QED
        BY <1>7, <1>8, <3>1, <4>1
    <3>2. CASE j # i
      <4>1. status[j] = SLEEP
        BY <1>3, <2>2, <3>2
      <4>2. \A r \in Ids : j \in forwardList'[r] <=> j \in forwardList[r]
        BY <1>5, <3>2
      <4> QED
        BY <4>1, <4>2 DEF BInv, Sleepers
    <3> QED
      BY <3>1, <3>2
  <2> QED
    BY <1>1, <1>2, <2>1, <2>2 DEF Sleepers
<1>10. \A j \in Ids : status'[j] = status[j] \/ Executed(j)
  BY <1>3, <1>4, <1>a DEF Executed
<1>11. /\ sent' \subseteq Ids /\ sent \subseteq sent' /\ loading' \subseteq Ids
       /\ \A j \in sent' \ sent : j < Last /\ status'[j] >= EXECUTING
  BY DEF BInv, TypeOK
<1>12. /\ free_load_ports' \in 0 .. L1LoadPorts /\ free_store_ports' \in 0 .. L1StorePorts
  BY DEF BInv, TypeOK
<1> QED
  BY <1>3, <1>5, <1>6, <1>9, <1>10, <1>11, <1>12, ExecuteKeeps

\* A store is executed: it wakes the loads that sleep on it, and is sent when
\* it has retired.
LEMMA ExecuteStoreBInv ==
    ASSUME BInv, ExecuteFrame, cyc' \in [Ids -> Nat], NEW i \in Ids, i < Last, status[i] >= ISSUED,
           status[i] # FINISHED, executeStore(i)
    PROVE  BInv' /\ StepForward
<1> DEFINE W == forwardList[i]
           sends == status[i] = COMMITED /\ i \notin sent /\ free_store_ports > 0
<1>1. /\ Last' = Last /\ \A j : Kind(j)' = Kind(j) /\ Addr(j)' = Addr(j)
  BY SameAges DEF ExecuteFrame
<1>2. /\ status \in [Ids -> 0 .. 7] /\ responses' = responses /\ STQ' = STQ
      /\ forwardList \in [Ids -> SUBSET Ids] /\ sent \subseteq Ids
      /\ free_load_ports \in 0 .. L1LoadPorts /\ free_store_ports \in 0 .. L1StorePorts
      /\ L1StorePorts \in Nat /\ loading \subseteq Ids
  BY SizeAssumption DEF BInv, TypeOK, ExecuteFrame
<1>3. /\ Kind(i) = "store"
      /\ sent' = sent \cup W \cup (IF sends THEN {i} ELSE {})
      /\ free_store_ports' = IF sends THEN free_store_ports - 1 ELSE free_store_ports
      /\ status' = [j \in Ids |-> IF j \in W THEN FINISHED
                                  ELSE IF j = i /\ status[i] = ISSUED THEN EXECUTING
                                  ELSE status[j]]
      /\ forwardList' = [forwardList EXCEPT ![i] = {}]
      /\ UNCHANGED <<free_load_ports, loading>>
  BY DEF executeStore, Woken
<1>4. First \in Nat /\ Last \in Nat /\ i \in Nat /\ \A j \in Ids : j \in Int
  BY Ages DEF BInv
<1>5. \A j \in W : j \in Ids /\ status[j] = SLEEP /\ j < Last /\ Kind(j) = "load"
  BY <1>2 DEF BInv, Sleepers
<1>6. \A j \in W : First <= j
  <2>1. \A j \in W : ~(j < First)
    BY <1>5 DEF BInv, StatusByAge
  <2> HIDE DEF W
  <2>2. \A j \in W : j \in Int /\ ~(j < First)
    BY <1>4, <1>5, <2>1
  <2> QED
    BY <1>4, <2>2
<1>7. i \notin W
  BY <1>3, <1>5
<1>8. status[i] # SLEEP
  BY <1>3 DEF BInv, Sleepers
<1>9. /\ status' \in [Ids -> 0 .. 7]
      /\ \A j \in W : status'[j] = FINISHED
      /\ status'[i] = IF status[i] = ISSUED THEN EXECUTING ELSE status[i]
      /\ \A j \in Ids : j \notin W /\ j # i => status'[j] = status[j]
  BY <1>2, <1>3, <1>5, <1>7
<1>10. /\ forwardList' \in [Ids -> SUBSET Ids]
       /\ \A r \in Ids : forwardList'[r] = IF r = i THEN {} ELSE forwardList[r]
  BY <1>2, <1>3
<1> HIDE DEF W
<1>11. /\ sent' \subseteq Ids /\ sent \subseteq sent' /\ free_store_ports' \in 0 .. L1StorePorts
       /\ \A j \in sent' : j \in sent \/ j \in W \/ (j = i /\ status[i] = COMMITED)
  BY <1>2, <1>3, <1>5
<1>12. \A j \in sent' \ sent : j < Last /\ status'[j] >= EXECUTING
  BY <1>5, <1>9, <1>11
<1>13. LoadsWait'
  <2>1. \A j \in loading \cup responses : j \in Ids /\ j < Last /\ Kind(j) = "load" /\ status[j] = EXECUTING
    BY DEF BInv, LoadsWait, TypeOK
  <2>2. \A j \in loading \cup responses : status'[j] = EXECUTING
    BY <1>3, <1>5, <1>9, <2>1
  <2> QED
    BY <1>1, <1>2, <1>3, <2>1, <2>2 DEF BInv, LoadsWait
<1>14. MemoryOrder'
  BY <1>1, <1>2, <1>3, <1>11 DEF BInv, MemoryOrder
<1>15. Sleepers'
  <2>1. \A r \in Ids : \A j \in forwardList[r] : j \in Ids /\ status[j] = SLEEP
    BY <1>2 DEF BInv, Sleepers
  <2>2. ASSUME NEW r \in Ids, NEW j \in forwardList'[r] PROVE status'[j] = SLEEP
    <3>1. r # i /\ j \in forwardList[r]
      BY <1>10
    <3>2. j \in Ids /\ status[j] = SLEEP
      BY <2>1, <3>1
    <3>3. j \notin W
      <4>1. PICK s \in Elems(STQ) : \A x \in Ids : j \in forwardList[x] <=> x = s
        BY <3>2 DEF BInv, Sleepers
      <4> QED
        BY <3>1, <4>1 DEF W
    <3> QED
      BY <1>8, <1>9, <3>2, <3>3
  <2>3. ASSUME NEW j \in Ids, status'[j] = SLEEP
        PROVE  /\ j < Last /\ Kind(j) = "load"
               /\ \E s \in Elems(STQ) :
                    /\ \A r \in Ids : j \in forwardList'[r] <=> r = s
                    /\ s < j /\ Addr(s) = Addr(j)
                    /\ \A r \in s + 1 .. j - 1 : Kind(r) = "store" => Addr(r) # Addr(j)
                    /\ s \notin sent'
    <3>1. status[j] = SLEEP /\ j \notin W
      BY <1>8, <1>9, <2>3
    <3>2. j < Last /\ Kind(j) = "load"
      BY <3>1 DEF BInv, Sleepers
    <3>3. PICK s \in Elems(STQ) :
                    /\ \A r \in Ids : j \in forwardList[r] <=> r = s
                    /\ s < j /\ Addr(s) = Addr(j)
                    /\ \A r \in s + 1 .. j - 1 : Kind(r) = "store" => Addr(r) # Addr(j)
                    /\ s \notin sent
      BY <3>1 DEF BInv, Sleepers
    <3>4. s \in Ids /\ Kind(s) = "store"
      BY ElementOfSeq DEF BInv, TypeOK, StoreQueue, Elems
    <3>5. s # i
      BY <3>1, <3>3, <3>4 DEF W
    <3>6. s \notin sent'
      BY <1>5, <1>11, <3>3, <3>4, <3>5
    <3>7. \A r \in Ids : j \in forwardList'[r] <=> r = s
      BY <1>10, <3>3, <3>5
    <3> QED
      BY <3>2, <3>3, <3>6, <3>7
  <2> QED
    BY <1>1, <1>2, <2>2, <2>3 DEF Sleepers
<1>16. ASSUME NEW j \in Ids PROVE status'[j] = status[j] \/ Executed(j)
  <2>1. CASE j \in W
    BY <1>4, <1>5, <1>6, <1>9, <2>1 DEF Executed
  <2>2. CASE j = i /\ status[i] = ISSUED
    <3>1. ~(i < First)
      BY <1>3, <2>2 DEF BInv, StatusByAge
    <3> QED
      BY <1>3, <1>7, <1>9, <2>2, <3>1 DEF Executed
  <2>3. CASE j \notin W /\ ~(j = i /\ status[i] = ISSUED)
    BY <1>9, <2>3
  <2> QED
    BY <2>1, <2>2, <2>3
<1>17. loading' \subseteq Ids /\ free_load_ports' \in 0 .. L1LoadPorts
  BY <1>2, <1>3
<1> QED
  BY <1>9, <1>10, <1>11, <1>12, <1>13, <1>14, <1>15, <1>16, <1>17, ExecuteKeeps

\* Nothing but the cycle count changes.
LEMMA ExecuteIdleBInv ==
    ASSUME BInv, ExecuteFrame, cyc' \in [Ids -> Nat],
           UNCHANGED <<status, sent, forwardList, free_load_ports, free_store_ports, loading>>
    PROVE  BInv' /\ StepForward
<1>1. /\ Last' = Last /\ \A j : Kind(j)' = Kind(j) /\ Addr(j)' = Addr(j)
  BY SameAges DEF ExecuteFrame
<1>2. responses' = responses /\ STQ' = STQ
  BY DEF ExecuteFrame
<1>3. LoadsWait' /\ MemoryOrder' /\ Sleepers'
  BY <1>1, <1>2 DEF BInv, LoadsWait, MemoryOrder, Sleepers
<1> QED
  BY <1>3, ExecuteKeeps DEF BInv, TypeOK

\* Core::execute, for one instruction.
LEMMA ExecuteBInv == ASSUME BInv, execute PROVE BInv' /\ StepForward
<1> DEFINE i == inFlightInsn[k]
<1>1. /\ inFlightInsn \in Seq(Ids) /\ k \in Nat \ {0} /\ cyc \in [Ids -> Nat]
      /\ status \in [Ids -> 0 .. 7]
  BY DEF BInv, TypeOK
<1>2. /\ pc = "execute" /\ k <= Len(inFlightInsn)
      /\ IF FinishesAtOnce(i)
         THEN /\ status' = [status EXCEPT ![i] = FINISHED]
              /\ UNCHANGED <<cyc, sent, forwardList, free_load_ports, free_store_ports, loading>>
         ELSE IF status[i] = FINISHED
         THEN UNCHANGED <<status, cyc, sent, forwardList, free_load_ports, free_store_ports, loading>>
         ELSE /\ cyc' = [cyc EXCEPT ![i] = Least(@ + 1, Lat(i))]
              /\ executeLoad(i) \/ executeStore(i) \/ executeOther(i)
  BY DEF execute
<1>3. ExecuteFrame
  BY <1>1 DEF execute, ExecuteFrame, insnVars, queueVars, lsqVars, sacVars
<1>4. k \in 1 .. Len(inFlightInsn)
  BY <1>1, <1>2
<1>5. i \in Ids /\ i < Last /\ status[i] >= ISSUED
  BY <1>1, <1>4, ElementOfSeq DEF BInv, InFlightExact
<1> HIDE DEF i
<1>6. Kind(i) \in Kinds /\ Lat(i) \in Nat /\ First \in Nat /\ i \in Int /\ status[i] \in 0 .. 7
  <2>1. Last <= Len(prog) /\ Last \in Nat /\ Len(prog) \in Nat /\ i \in Nat /\ First \in Nat
        /\ status[i] \in 0 .. 7
    BY <1>5, Ages DEF BInv
  <2>2. i < Len(prog)
    BY <1>5, <2>1
  <2> QED
    BY <1>5, <2>1, <2>2, KindsOnly DEF BInv
<1>7. CASE FinishesAtOnce(i)
  <2>1. Kind(i) = "cosim" /\ ~isMem(i) /\ isCosimFunc(i)
    BY <1>7 DEF FinishesAtOnce, isMem, isCosimFunc
  <2>2. cyc' \in [Ids -> Nat] /\ status' = [status EXCEPT ![i] = FINISHED]
        /\ UNCHANGED <<sent, forwardList, free_load_ports, free_store_ports, loading>>
    BY <1>1, <1>2, <1>7
  <2>3. FINISHED \in {EXECUTING, FINISHED}
    OBVIOUS
  <2> QED
    BY <1>3, <1>5, <2>1, <2>2, <2>3, ExecuteOtherBInv
<1>8. CASE ~FinishesAtOnce(i) /\ status[i] = FINISHED
  <2>1. cyc' \in [Ids -> Nat]
        /\ UNCHANGED <<status, sent, forwardList, free_load_ports, free_store_ports, loading>>
    BY <1>1, <1>2, <1>8
  <2> QED
    BY <1>3, <2>1, ExecuteIdleBInv
<1>9. CASE ~FinishesAtOnce(i) /\ status[i] # FINISHED
  <2>1. cyc' = [cyc EXCEPT ![i] = Least(@ + 1, Lat(i))]
    BY <1>2, <1>9
  <2>2. cyc' \in [Ids -> Nat]
    <3>1. Least(cyc[i] + 1, Lat(i)) \in Nat
      BY <1>1, <1>5, <1>6 DEF Least
    <3> QED
      BY <1>1, <2>1, <3>1
  <2>3. CASE executeLoad(i)
    <3>1. Kind(i) = "load" /\ UNCHANGED free_store_ports
      BY <2>3 DEF executeLoad
    <3>2. CASE status[i] # ISSUED \/ (forwardData(i) = {} /\ ~(free_load_ports > 0))
      <4>1. UNCHANGED <<status, sent, forwardList, free_load_ports, loading>>
        BY <2>3, <3>2 DEF executeLoad
      <4> QED
        BY <1>3, <2>2, <3>1, <4>1, ExecuteIdleBInv
    <3>3. CASE status[i] = ISSUED /\ forwardData(i) = {} /\ free_load_ports > 0
      <4>1. /\ status' = [status EXCEPT ![i] = EXECUTING] /\ sent' = sent \cup {i}
            /\ free_load_ports' = free_load_ports - 1 /\ loading' = loading \cup {i}
            /\ UNCHANGED <<forwardList, free_store_ports>>
        BY <2>3, <3>3 DEF executeLoad
      <4> QED
        BY <1>3, <1>5, <2>2, <3>1, <3>3, <4>1, LoadSentBInv
    <3>4. CASE status[i] = ISSUED /\ forwardData(i) # {}
      <4> DEFINE s == CHOOSE s \in forwardData(i) : TRUE
      <4>1. /\ s \in Elems(STQ) /\ s \in Ids /\ s < i /\ Addr(s) = Addr(i)
            /\ \A r \in Elems(STQ) : r # 0 /\ r < i /\ Addr(r) = Addr(i) => r <= s
        BY <1>5, <3>4, ForwardDataIs
      <4>2. /\ UNCHANGED <<free_load_ports, free_store_ports, loading>>
            /\ IF status[s] >= READY
               THEN /\ status' = [status EXCEPT ![i] = FINISHED]
                    /\ sent' = sent \cup {i}
                    /\ UNCHANGED forwardList
               ELSE /\ status' = [status EXCEPT ![i] = SLEEP]
                    /\ forwardList' = [forwardList EXCEPT ![s] = @ \cup {i}]
                    /\ UNCHANGED sent
        BY <2>3, <3>4 DEF executeLoad
      <4> HIDE DEF s
      <4>3. CASE status[s] >= READY
        BY <1>3, <1>5, <2>2, <3>1, <3>4, <4>2, <4>3, ForwardedBInv
      <4>4. CASE ~(status[s] >= READY)
        BY <1>3, <1>5, <2>2, <3>1, <3>4, <4>1, <4>2, <4>4, LoadSleepsBInv
      <4> QED
        BY <4>3, <4>4
    <3> QED
      BY <3>2, <3>3, <3>4
  <2>4. CASE executeStore(i)
    BY <1>3, <1>5, <1>9, <2>2, <2>4, ExecuteStoreBInv
  <2>5. CASE executeOther(i)
    <3>1. /\ ~isMem(i) /\ status' = [status EXCEPT ![i] = IF @ = ISSUED THEN EXECUTING ELSE @]
          /\ UNCHANGED <<sent, forwardList, free_load_ports, free_store_ports, loading>>
      BY <2>5 DEF executeOther
    <3>2. CASE status[i] = ISSUED
      <4>1. status' = [status EXCEPT ![i] = EXECUTING]
        BY <3>1, <3>2
      <4>2. EXECUTING \in {EXECUTING, FINISHED}
        OBVIOUS
      <4>3. ~(i < First)
        BY <1>5, <3>2 DEF BInv, StatusByAge
      <4> QED
        BY <1>3, <1>5, <2>2, <3>1, <3>2, <4>1, <4>2, <4>3, ExecuteOtherBInv
    <3>3. CASE status[i] # ISSUED
      <4>1. status' = status
        BY <1>1, <3>1, <3>3
      <4> QED
        BY <1>3, <2>2, <3>1, <4>1, ExecuteIdleBInv
    <3> QED
      BY <3>2, <3>3
  <2> QED
    BY <1>2, <1>9, <2>3, <2>4, <2>5
<1> QED
  BY <1>7, <1>8, <1>9

\* Every step keeps the invariant and sets nothing back.
LEMMA NextBInv == ASSUME BInv, [Next]_vars PROVE BInv' /\ StepForward
<1>1. CASE UNCHANGED vars
  <2>1. /\ Last' = Last /\ First' = First /\ ProgramOrder' /\ Insns' = Insns
        /\ \A i : Kind(i)' = Kind(i) /\ Addr(i)' = Addr(i)
    BY <1>1, SameAges DEF BInv, vars, insnVars, queueVars
  <2> USE <1>1, <2>1 DEF vars, insnVars, queueVars, lsqVars, l1Vars, sacVars, BInv
  <2>2. TypeOK'
    BY DEF TypeOK
  <2>3. StatusByAge' /\ IssueQueuesExact' /\ CosimQueueOrder'
    BY DEF StatusByAge, IssueQueuesExact, CosimQueueOrder, Waiting, isCosimFunc
  <2>4. InFlightExact' /\ StoreQueue' /\ LoadsWait' /\ SentLate'
    BY DEF InFlightExact, StoreQueue, LoadsWait, SentLate
  <2>5. MemoryOrder' /\ Sleepers'
    BY DEF MemoryOrder, Sleepers
  <2>6. CosimAllowed' /\ SacOrder' /\ FenceDrains'
    BY DEF CosimAllowed, SacOrder, FenceDrains, isCosimFunc
  <2>7. StepForward
    BY SameForward
  <2> QED
    BY <2>2, <2>3, <2>4, <2>5, <2>6, <2>7
<1> QED
  BY <1>1, CommitBInv, StonneBInv, ExecuteBInv, WriteBackBInv, IssueBInv, DispatchBInv,
     RenameBInv, L1BInv DEF Next

\* Where each instruction is, in every reachable state: Core::run keeps the
\* queues, the ROB and the statuses in step.
THEOREM BackendInvariant == Spec => []BInv
<1>1. Init => BInv
  BY InitBInv
<1>2. BInv /\ [Next]_vars => BInv'
  BY NextBInv
<1> QED
  BY <1>1, <1>2, PTL DEF Spec

\* No instruction of the CPU proper is ever set back: neither the write back
\* of a load, nor a wake-up, nor a second pass of execute over a retired store
\* undoes what was reached.
THEOREM NothingSetBack == Spec => NeverSetBack
<1>1. BInv /\ [Next]_vars => [StepForward]_vars
  BY NextBInv
<1>2. NeverSetBack <=> [][StepForward]_vars
  BY PTL DEF NeverSetBack, StepForward
<1> QED
  BY <1>1, <1>2, BackendInvariant, PTL DEF Spec

\* What BInv says of retirement.
LEMMA BInvRetirement == ASSUME BInv PROVE PreciseRetirement
<1> SUFFICES ASSUME NEW i \in Insns, status[i] >= ALLOCATED, i \notin Elems(instList)
             PROVE  /\ status[i] = COMMITED \/ (isCosimFunc(i) /\ status[i] = FINISHED)
                    /\ i \notin loading \cup responses
                    /\ \A s \in Ids : i \notin forwardList[s]
                    /\ \A j \in Elems(instList) : i < j
  BY DEF PreciseRetirement
<1>1. /\ First \in Nat /\ Last \in Nat /\ i \in Ids /\ i \in Int
      /\ \A j \in Ids : j \in Int
  BY Ages DEF BInv
<1>2. \A j : j \in Elems(instList) <=> j \in Ids /\ First <= j /\ j < Last
  BY RobIs DEF BInv
<1>3. i < Last
  BY <1>1 DEF BInv, StatusByAge
<1>4. i < First
  BY <1>1, <1>2, <1>3
<1>5. status[i] = COMMITED \/ (isCosimFunc(i) /\ status[i] = FINISHED)
  BY <1>1, <1>4 DEF BInv, StatusByAge
<1>6. \A j \in Elems(instList) : i < j
  <2>1. \A j \in Elems(instList) : j \in Int /\ First <= j
    BY <1>1, <1>2
  <2> QED
    BY <1>1, <1>4, <2>1
<1> QED
  BY <1>1, <1>5, <1>6 DEF BInv, LoadsWait, Sleepers

\* Retirement is precise: what has left the ROB has done its work and nothing
\* older is still in it (Window::retireInstruction).
THEOREM RetirementIsPrecise == Spec => []PreciseRetirement
  BY BackendInvariant, BInvRetirement, PTL

\* What BInv says of loads and stores.
LEMMA BInvLoads == ASSUME BInv PROVE LoadsSeeStores
<1>1. /\ First \in Nat /\ Last \in Nat /\ \A i \in Ids : i \in Int /\ status[i] \in 0 .. 7
      /\ \A i \in Insns : i \in Ids
  BY Ages DEF BInv
<1>2. SleepersHaveAWaker
  <2>1. \A s \in Ids : \A i \in forwardList[s] : status[i] = SLEEP
    BY DEF BInv, Sleepers
  <2>2. ASSUME NEW i \in Insns, status[i] = SLEEP
        PROVE  \E s \in Elems(STQ) :
                    /\ {r \in Ids : i \in forwardList[r]} = {s}
                    /\ s < i /\ Addr(s) = Addr(i)
                    /\ \A r \in s + 1 .. i - 1 : Kind(r) = "store" => Addr(r) # Addr(i)
                    /\ s \in Elems(issueQueue) \cup Elems(inFlightInsn)
    <3>1. PICK s \in Elems(STQ) :
                    /\ \A r \in Ids : i \in forwardList[r] <=> r = s
                    /\ s < i /\ Addr(s) = Addr(i)
                    /\ \A r \in s + 1 .. i - 1 : Kind(r) = "store" => Addr(r) # Addr(i)
                    /\ s \notin sent
      BY <1>1, <2>2 DEF BInv, Sleepers
    <3>2. s \in Ids /\ s < Last /\ Kind(s) = "store"
      BY ElementOfSeq DEF BInv, TypeOK, StoreQueue, Elems
    <3>3. {r \in Ids : i \in forwardList[r]} = {s}
      BY <3>1, <3>2
    <3>4. s \in Elems(issueQueue) \cup Elems(inFlightInsn)
      <4>1. CASE s < First
        BY <3>1, <3>2, <4>1 DEF BInv, InFlightExact
      <4>2. CASE ~(s < First) /\ status[s] >= ISSUED
        BY <1>1, <3>2, <4>2 DEF BInv, InFlightExact
      <4>3. CASE ~(s < First) /\ ~(status[s] >= ISSUED)
        <5>1. status[s] >= ALLOCATED
          BY <1>1, <3>2, <4>3 DEF BInv, StatusByAge
        <5>2. Waiting(s) /\ ~isCosimFunc(s)
          BY <1>1, <3>2, <4>3, <5>1 DEF Waiting, isCosimFunc
        <5> QED
          BY <3>2, <5>2 DEF BInv, IssueQueuesExact
      <4> QED
        BY <4>1, <4>2, <4>3
    <3> QED
      BY <3>1, <3>3, <3>4
  <2> QED
    BY <2>1, <2>2 DEF SleepersHaveAWaker
<1>3. StoresReachMemory
  <2> SUFFICES ASSUME NEW s \in Insns, Kind(s) = "store", status[s] = COMMITED, s \notin sent
               PROVE  s \in Elems(inFlightInsn) /\ s \in Elems(STQ)
    BY DEF StoresReachMemory
  <2>1. s \in Ids /\ s < First
    BY <1>1 DEF BInv, StatusByAge
  <2>2. s < Last
    BY <1>1, <2>1, Ages DEF BInv
  <2> QED
    BY <2>1, <2>2 DEF BInv, InFlightExact, StoreQueue
<1> QED
  BY <1>2, <1>3 DEF BInv, LoadsSeeStores

\* Loads see the stores before them: no load reads memory that an older store
\* is still to write, a sleeping load waits for the right store, which will
\* still be executed, and no retired store is lost (LSUnit).
THEOREM LoadsAreOrdered == Spec => []LoadsSeeStores
  BY BackendInvariant, BInvLoads, PTL

\* What BInv says of accelerator calls.
LEMMA BInvAccelerator == ASSUME BInv PROVE AcceleratorInOrder
<1>1. /\ First \in Nat /\ Last \in Nat /\ \A i \in Ids : i \in Int /\ status[i] \in 0 .. 7
      /\ \A i \in Insns : i \in Ids
  BY Ages DEF BInv
<1>2. \A j : j \in Elems(instList) <=> j \in Ids /\ First <= j /\ j < Last
  BY RobIs DEF BInv
<1>3. CosimAtHead
  <2> SUFFICES ASSUME NEW c \in Insns, isCosimFunc(c), status[c] >= ISSUED, NEW i \in 0 .. c - 1
               PROVE  i \notin Elems(instList) /\ (isCosimFunc(i) => i \notin Elems(cosimIssueQueue))
    BY DEF CosimAtHead
  <2>1. c \in Ids /\ c < Last
    BY <1>1 DEF BInv, StatusByAge
  <2>2. c <= First
    BY <2>1 DEF BInv, CosimAllowed
  <2>3. i \in Ids /\ i < First
    BY <1>1, <2>1, <2>2, SizeAssumption DEF Ids
  <2>4. status[i] \in {FINISHED, COMMITED}
    BY <2>3 DEF BInv, StatusByAge
  <2>5. i \notin Elems(instList)
    BY <1>1, <1>2, <2>3
  <2>6. i \notin Elems(cosimIssueQueue)
    BY <2>3, <2>4 DEF BInv, IssueQueuesExact, Waiting
  <2> QED
    BY <2>5, <2>6
<1> QED
  BY <1>3 DEF BInv, AcceleratorInOrder

\* Accelerator calls are handed over in program order and not before every
\* older instruction has retired, and a finished fence has drained the
\* accelerator (cosimCanIssue, set_dyn_inst_finished).
THEOREM AcceleratorIsOrdered == Spec => []AcceleratorInOrder
  BY BackendInvariant, BInvAccelerator, PTL

-----------------------------------------------------------------------------
(***************************************************************************)
(* The assertion of Core::writeBack that no load gets there merely issued. *)
(* It holds when L1 has a port for every load that can be issued in one    *)
(* cycle, which is so in every configuration that is shipped: a load that  *)
(* finds no port is left ISSUED.                                           *)
(***************************************************************************)

\* The loads that the next execute has to find a port for.
IssuedLoads == {i \in Ids : i < Last /\ Kind(i) = "load" /\ status[i] = ISSUED}

\* There are never more of them than ports, and execute deals with every one
\* it passes.
PortsSuffice ==
    /\ pc \in {"commit", "stonne", "execute"} => Cardinality(IssuedLoads) <= free_load_ports
    /\ pc = "execute" => \A j \in 1 .. Len(inFlightInsn) : j < k =>
            isCosimFunc(inFlightInsn[j]) \/ status[inFlightInsn[j]] # ISSUED
    /\ pc = "issue" => IssuedLoads = {}
    /\ pc \in {"dispatch", "rename"} => Cardinality(IssuedLoads) <= LoadUnits

\* Fewer loads need no more ports.
LEMMA FewerLoads ==
    ASSUME NEW A \in SUBSET Ids, NEW B \in SUBSET A
    PROVE  /\ Cardinality(A) \in Nat /\ Cardinality(B) \in Nat
           /\ Cardinality(B) <= Cardinality(A)
           /\ \A x \in A : x \notin B => Cardinality(B) <= Cardinality(A) - 1
           /\ \A x \in A : Cardinality(A) > 0
<1>1. IsFiniteSet(Ids)
  <2>1. MaxInsns \in Nat
    BY SizeAssumption
  <2>2. 0 \in Int /\ MaxInsns - 1 \in Int
    BY <2>1
  <2> QED
    BY <2>2, FS_Interval DEF Ids
<1>2. IsFiniteSet(A)
  BY <1>1, FS_Subset
<1>3. IsFiniteSet(B) /\ Cardinality(B) <= Cardinality(A)
  BY <1>2, FS_Subset
<1>4. Cardinality(A) \in Nat /\ Cardinality(B) \in Nat
  BY <1>2, <1>3, FS_CardinalityType
<1>5. ASSUME NEW x \in A PROVE Cardinality(A) > 0
  <2>1. Cardinality(A) # 0
    BY <1>2, FS_EmptySet
  <2> QED
    BY <1>4, <2>1
<1>6. ASSUME NEW x \in A, x \notin B PROVE Cardinality(B) <= Cardinality(A) - 1
  <2>1. Cardinality(A \ {x}) = Cardinality(A) - 1 /\ IsFiniteSet(A \ {x})
    BY <1>2, FS_RemoveElement
  <2>2. B \subseteq A \ {x}
    BY <1>6
  <2>3. Cardinality(B) <= Cardinality(A \ {x})
    BY <2>1, <2>2, FS_Subset
  <2> QED
    BY <2>1, <2>3
<1> QED
  BY <1>3, <1>4, <1>5, <1>6

\* What execute does to the instruction it has come to.
LEMMA ExecuteStatus ==
    ASSUME BInv, execute, NEW i \in Ids, i = inFlightInsn[k]
    PROVE  /\ \A j \in Ids : status'[j] = ISSUED => status[j] = ISSUED
           /\ \/ free_load_ports' = free_load_ports
              \/ /\ free_load_ports' = free_load_ports - 1
                 /\ Kind(i) = "load" /\ status[i] = ISSUED /\ status'[i] # ISSUED
           /\ \/ isCosimFunc(i)
              \/ status'[i] # ISSUED
              \/ Kind(i) = "load" /\ status[i] = ISSUED /\ ~(free_load_ports > 0)
<1>1. status \in [Ids -> 0 .. 7]
  BY DEF BInv, TypeOK
<1>2. IF FinishesAtOnce(i)
      THEN /\ status' = [status EXCEPT ![i] = FINISHED]
           /\ UNCHANGED <<cyc, sent, forwardList, free_load_ports, free_store_ports, loading>>
      ELSE IF status[i] = FINISHED
      THEN UNCHANGED <<status, cyc, sent, forwardList, free_load_ports, free_store_ports, loading>>
      ELSE /\ cyc' = [cyc EXCEPT ![i] = Least(@ + 1, Lat(i))]
           /\ executeLoad(i) \/ executeStore(i) \/ executeOther(i)
  BY DEF execute
<1>3. CASE FinishesAtOnce(i) \/ status[i] = FINISHED
  BY <1>1, <1>2, <1>3
<1>4. CASE executeLoad(i)
  <2>1. CASE status[i] # ISSUED \/ (forwardData(i) = {} /\ ~(free_load_ports > 0))
    BY <1>1, <1>4, <2>1 DEF executeLoad
  <2>2. CASE status[i] = ISSUED /\ forwardData(i) = {} /\ free_load_ports > 0
    BY <1>1, <1>4, <2>2 DEF executeLoad
  <2>3. CASE status[i] = ISSUED /\ forwardData(i) # {}
    BY <1>1, <1>4, <2>3 DEF executeLoad
  <2> QED
    BY <2>1, <2>2, <2>3
<1>5. CASE executeStore(i)
  <2>1. /\ status' = [j \in Ids |-> IF j \in Woken(i) THEN FINISHED
                                    ELSE IF j = i /\ status[i] = ISSUED THEN EXECUTING
                                    ELSE status[j]]
        /\ free_load_ports' = free_load_ports
    BY <1>5 DEF executeStore
  <2> QED
    BY <1>1, <2>1
<1>6. CASE executeOther(i)
  BY <1>1, <1>6 DEF executeOther
<1> QED
  BY <1>2, <1>3, <1>4, <1>5, <1>6

\* Every step keeps PortsSuffice.
LEMMA NextPorts ==
    ASSUME BInv, BInv', PortsSuffice, [Next]_vars, LoadUnits <= L1LoadPorts
    PROVE  PortsSuffice'
<1>1. /\ First \in Nat /\ Last \in Nat /\ First <= Last /\ Len(prog) \in Nat
      /\ \A i \in Ids : i \in Nat /\ i \in Int /\ status[i] \in 0 .. 7
      /\ \A i : i \in Insns <=> i \in Ids /\ i < Len(prog)
  BY Ages DEF BInv
<1>2. /\ LoadUnits \in Nat /\ L1LoadPorts \in Nat /\ free_load_ports \in Nat
      /\ \A j \in 1 .. Len(inFlightInsn) : inFlightInsn[j] \in Ids
      /\ inFlightInsn \in Seq(Ids) /\ k \in Nat \ {0} /\ Len(inFlightInsn) \in Nat
  <2>1. inFlightInsn \in Seq(Ids) /\ k \in Nat \ {0} /\ free_load_ports \in 0 .. L1LoadPorts
    BY DEF BInv, TypeOK
  <2>2. Len(inFlightInsn) \in Nat /\ \A j \in 1 .. Len(inFlightInsn) : inFlightInsn[j] \in Ids
    BY <2>1, ElementOfSeq
  <2>3. LoadUnits \in Nat /\ L1LoadPorts \in Nat
    BY SizeAssumption
  <2> QED
    BY <2>1, <2>2, <2>3
<1>3. IssuedLoads \in SUBSET Ids
  BY DEF IssuedLoads
<1>f. ASSUME NEW A \in SUBSET Ids, NEW B \in SUBSET A
      PROVE  /\ Cardinality(A) \in Nat /\ Cardinality(B) \in Nat /\ Cardinality(B) <= Cardinality(A)
             /\ \A x \in A : x \notin B => Cardinality(B) <= Cardinality(A) - 1
             /\ \A x \in A : Cardinality(A) > 0
  BY FewerLoads
<1>4. CASE commit
  <2>1. /\ pc = "commit" /\ pc' = "stonne" /\ free_load_ports' = free_load_ports
        /\ UNCHANGED <<prog, insnQueue>>
        /\ status' = SetStatus({instList[j] : j \in 1 .. Retired}, COMMITED)
    BY <1>4 DEF commit, l1Vars, insnVars
  <2>2. \A i \in Ids : status'[i] = ISSUED => status[i] = ISSUED
    BY <2>1 DEF SetStatus
  <2>3. IssuedLoads' \in SUBSET IssuedLoads
    BY <2>1, <2>2 DEF IssuedLoads, Last, Kind
  <2>4. Cardinality(IssuedLoads') <= Cardinality(IssuedLoads) /\ Cardinality(IssuedLoads') \in Nat
        /\ Cardinality(IssuedLoads) \in Nat
    BY <1>f, <1>3, <2>3
  <2>5. Cardinality(IssuedLoads) <= free_load_ports
    BY <2>1 DEF PortsSuffice
  <2>6. Cardinality(IssuedLoads') <= free_load_ports'
    BY <1>2, <2>1, <2>4, <2>5
  <2> QED
    BY <2>1, <2>6 DEF PortsSuffice
<1>5. ASSUME NEW n \in 0 .. Len(sac), NEW room \in BOOLEAN, stonne(n, room) PROVE PortsSuffice'
  <2>1. /\ pc = "stonne" /\ pc' = "execute" /\ k' = 1 /\ free_load_ports' = free_load_ports
        /\ UNCHANGED <<prog, insnQueue>>
        /\ status' = SetStatus({sac[j] : j \in 1 .. n}, FINISHED)
    BY <1>5 DEF stonne, l1Vars, insnVars, queueVars
  <2>2. \A i \in Ids : status'[i] = ISSUED => status[i] = ISSUED
    BY <2>1 DEF SetStatus
  <2>3. IssuedLoads' \in SUBSET IssuedLoads
    BY <2>1, <2>2 DEF IssuedLoads, Last, Kind
  <2>4. Cardinality(IssuedLoads') <= Cardinality(IssuedLoads) /\ Cardinality(IssuedLoads') \in Nat
        /\ Cardinality(IssuedLoads) \in Nat
    BY <1>f, <1>3, <2>3
  <2>5. Cardinality(IssuedLoads) <= free_load_ports
    BY <2>1 DEF PortsSuffice
  <2>6. Cardinality(IssuedLoads') <= free_load_ports'
    BY <1>2, <2>1, <2>4, <2>5
  <2>7. \A j \in 1 .. Len(inFlightInsn') : ~(j < k')
    BY <2>1
  <2> QED
    BY <2>1, <2>6, <2>7 DEF PortsSuffice
<1>6. CASE execute
  <2> DEFINE i == inFlightInsn[k]
  <2>1. /\ pc = "execute" /\ pc' = "execute" /\ k <= Len(inFlightInsn) /\ k' = k + 1
        /\ UNCHANGED <<prog, insnQueue, inFlightInsn>>
    BY <1>6 DEF execute, insnVars, queueVars
  <2>2. k \in 1 .. Len(inFlightInsn)
    BY <1>2, <2>1
  <2>3. i \in Ids /\ i < Last
    BY <1>2, <2>2 DEF BInv, InFlightExact
  <2>4. /\ \A j \in Ids : status'[j] = ISSUED => status[j] = ISSUED
        /\ \/ free_load_ports' = free_load_ports
           \/ /\ free_load_ports' = free_load_ports - 1
              /\ Kind(i) = "load" /\ status[i] = ISSUED /\ status'[i] # ISSUED
        /\ \/ isCosimFunc(i)
           \/ status'[i] # ISSUED
           \/ Kind(i) = "load" /\ status[i] = ISSUED /\ ~(free_load_ports > 0)
    BY <1>6, <2>3, ExecuteStatus
  <2> HIDE DEF i
  <2>5. IssuedLoads' \in SUBSET IssuedLoads
    BY <2>1, <2>4 DEF IssuedLoads, Last, Kind
  <2>6. /\ Cardinality(IssuedLoads') <= Cardinality(IssuedLoads) /\ Cardinality(IssuedLoads') \in Nat
        /\ Cardinality(IssuedLoads) \in Nat
        /\ i \in IssuedLoads /\ i \notin IssuedLoads'
                => Cardinality(IssuedLoads') <= Cardinality(IssuedLoads) - 1
        /\ i \in IssuedLoads => Cardinality(IssuedLoads) > 0
    BY <1>f, <1>3, <2>5
  <2>7. Cardinality(IssuedLoads) <= free_load_ports
    BY <2>1 DEF PortsSuffice
  <2>8. Cardinality(IssuedLoads') <= free_load_ports'
    <3>1. CASE free_load_ports' = free_load_ports
      BY <1>2, <2>6, <2>7, <3>1
    <3>2. CASE /\ free_load_ports' = free_load_ports - 1
               /\ Kind(i) = "load" /\ status[i] = ISSUED /\ status'[i] # ISSUED
      <4>1. i \in IssuedLoads /\ i \notin IssuedLoads'
        BY <2>3, <3>2 DEF IssuedLoads
      <4> QED
        BY <1>2, <2>6, <2>7, <3>2, <4>1
    <3> QED
      BY <2>4, <3>1, <3>2
  <2>9. isCosimFunc(i) \/ status'[i] # ISSUED
    <3>1. Kind(i) = "load" /\ status[i] = ISSUED => i \in IssuedLoads
      BY <2>3 DEF IssuedLoads
    <3>2. i \in IssuedLoads => free_load_ports > 0
      BY <1>2, <2>6, <2>7
    <3> QED
      BY <2>4, <3>1, <3>2
  <2>10. ASSUME NEW j \in 1 .. Len(inFlightInsn), j < k + 1
         PROVE  isCosimFunc(inFlightInsn[j]) \/ status'[inFlightInsn[j]] # ISSUED
    <3>1. CASE j = k
      BY <2>9, <3>1 DEF i
    <3>2. CASE j # k
      <4>1. j < k
        BY <1>2, <2>10, <3>2
      <4>2. isCosimFunc(inFlightInsn[j]) \/ status[inFlightInsn[j]] # ISSUED
        BY <2>1, <4>1 DEF PortsSuffice
      <4> QED
        BY <1>2, <2>4, <4>2
    <3> QED
      BY <3>1, <3>2
  <2> QED
    BY <2>1, <2>8, <2>10 DEF PortsSuffice, isCosimFunc, Kind
<1>7. CASE writeBack
  <2>1. /\ pc = "execute" /\ pc' = "issue" /\ k > Len(inFlightInsn)
        /\ UNCHANGED <<prog, insnQueue>>
        /\ status' = SetStatus(responses \cup {i \in Insns : Completing(i)}, FINISHED)
    BY <1>7 DEF writeBack, insnVars, queueVars
  <2>2. \A i \in Ids : status'[i] = ISSUED => status[i] = ISSUED
    BY <2>1 DEF SetStatus
  <2>3. IssuedLoads' \in SUBSET IssuedLoads
    BY <2>1, <2>2 DEF IssuedLoads, Last, Kind
  <2>4. ASSUME NEW i \in IssuedLoads PROVE FALSE
    <3>1. i \in Ids /\ i < Last /\ Kind(i) = "load" /\ status[i] = ISSUED
      BY DEF IssuedLoads
    <3>2. ~(i < First)
      BY <3>1 DEF BInv, StatusByAge
    <3>3. i \in Elems(inFlightInsn)
      BY <1>1, <3>1, <3>2 DEF BInv, InFlightExact
    <3>4. PICK j \in 1 .. Len(inFlightInsn) : i = inFlightInsn[j]
      BY <3>3 DEF Elems
    <3>5. j < k
      BY <1>2, <2>1
    <3> QED
      BY <2>1, <3>1, <3>4, <3>5 DEF PortsSuffice, isCosimFunc
  <2>5. IssuedLoads' = {}
    BY <2>3, <2>4
  <2> QED
    BY <2>1, <2>5 DEF PortsSuffice
<1>8. ASSUME NEW n \in 0 .. Len(issueQueue), NEW S \in SUBSET Elems(issueQueue), issue(n, S)
      PROVE  PortsSuffice'
  <2>1. /\ pc = "issue" /\ pc' = "dispatch" /\ FitsUnits(S)
        /\ UNCHANGED <<prog, insnQueue>>
        /\ status' = [i \in Ids |->
                        IF i \in S THEN (IF NoLatency(i) THEN FINISHED ELSE ISSUED)
                        ELSE IF i \in ReadyIn(n) THEN READY
                        ELSE IF i \in Elems(HandedOver) THEN ISSUED
                        ELSE status[i]]
    BY <1>8 DEF issue, insnVars, HandedOver
  <2>2. \A i \in Elems(HandedOver) : isCosimFunc(i)
    BY HandedOverIs
  <2>3. IssuedLoads = {}
    BY <2>1 DEF PortsSuffice
  <2> DEFINE T == {i \in S : Kind(i) = "load"}
  <2>4. T \in SUBSET Ids
    <3>1. issueQueue \in Seq(Ids)
      BY DEF BInv, TypeOK
    <3>2. Elems(issueQueue) \in SUBSET Ids
      BY <3>1, ElementOfSeq DEF Elems
    <3> QED
      BY <3>2
  <2>5. IssuedLoads' \in SUBSET T
    <3> SUFFICES ASSUME NEW i \in Ids, i < Last, Kind(i) = "load", status'[i] = ISSUED PROVE i \in T
      BY <2>1 DEF IssuedLoads, Last, Kind
    <3>1. i \notin IssuedLoads
      BY <2>3
    <3>2. status[i] # ISSUED
      BY <3>1 DEF IssuedLoads
    <3>3. i \notin Elems(HandedOver)
      BY <2>2 DEF isCosimFunc
    <3> QED
      BY <2>1, <3>2, <3>3
  <2>6. Cardinality(T) <= LoadUnits
    BY <2>1 DEF FitsUnits
  <2> HIDE DEF T
  <2>7. Cardinality(IssuedLoads') <= Cardinality(T) /\ Cardinality(IssuedLoads') \in Nat /\ Cardinality(T) \in Nat
    BY <1>f, <2>4, <2>5
  <2>8. Cardinality(IssuedLoads') <= LoadUnits
    BY <1>2, <2>6, <2>7
  <2> QED
    BY <2>1, <2>8 DEF PortsSuffice
<1>9. CASE dispatch
  <2>1. pc = "dispatch" /\ pc' = "rename" /\ UNCHANGED prog
    BY <1>9 DEF dispatch, insnVars
  <2>2. PICK D : status' = SetStatus(D, ALLOCATED)
    BY <1>9 DEF dispatch
  <2>3. \A i \in Ids : status'[i] = ISSUED => status[i] = ISSUED
    BY <2>2 DEF SetStatus
  <2>4. \A i \in Ids : status[i] = ISSUED => i < Last
    BY <1>1 DEF BInv, StatusByAge
  <2>5. IssuedLoads' \in SUBSET IssuedLoads
    BY <2>1, <2>3, <2>4 DEF IssuedLoads, Kind
  <2>6. Cardinality(IssuedLoads') <= Cardinality(IssuedLoads) /\ Cardinality(IssuedLoads') \in Nat
        /\ Cardinality(IssuedLoads) \in Nat
    BY <1>f, <1>3, <2>5
  <2>7. Cardinality(IssuedLoads) <= LoadUnits
    BY <2>1 DEF PortsSuffice
  <2>8. Cardinality(IssuedLoads') <= LoadUnits
    BY <1>2, <2>6, <2>7
  <2> QED
    BY <2>1, <2>8 DEF PortsSuffice
<1>10. ASSUME NEW t \in Templates, rename(t) PROVE PortsSuffice'
  <2>1. pc = "rename" /\ pc' = "rename" /\ status' = status /\ prog' = Append(prog, t)
    BY <1>10 DEF rename
  <2>2. \A i \in Ids : status[i] = ISSUED => i < Last
    BY <1>1 DEF BInv, StatusByAge
  <2>3. \A i \in Ids : i < Last => Kind(i)' = Kind(i)
    <3> SUFFICES ASSUME NEW i \in Ids, i < Last PROVE prog'[i + 1] = prog[i + 1]
      BY DEF Kind
    <3>1. Last <= Len(prog) /\ prog \in Seq(Templates)
      BY Ages DEF BInv, TypeOK
    <3>2. i + 1 \in 1 .. Len(prog)
      BY <1>1, <3>1
    <3> QED
      BY <2>1, <3>1, <3>2, AppendProperties
  <2>4. IssuedLoads' \in SUBSET IssuedLoads
    BY <2>1, <2>2, <2>3 DEF IssuedLoads
  <2>5. Cardinality(IssuedLoads') <= Cardinality(IssuedLoads) /\ Cardinality(IssuedLoads') \in Nat
        /\ Cardinality(IssuedLoads) \in Nat
    BY <1>f, <1>3, <2>4
  <2>6. Cardinality(IssuedLoads) <= LoadUnits
    BY <2>1 DEF PortsSuffice
  <2>7. Cardinality(IssuedLoads') <= LoadUnits
    BY <1>2, <2>5, <2>6
  <2> QED
    BY <2>1, <2>7 DEF PortsSuffice
<1>11. ASSUME NEW R \in SUBSET loading, l1_process(R) PROVE PortsSuffice'
  <2>1. /\ pc = "rename" /\ pc' = "commit" /\ free_load_ports' = L1LoadPorts
        /\ UNCHANGED <<status, prog, insnQueue>>
    BY <1>11 DEF l1_process, insnVars, queueVars
  <2>2. IssuedLoads' = IssuedLoads
    BY <2>1 DEF IssuedLoads, Last, Kind
  <2>3. Cardinality(IssuedLoads) <= LoadUnits /\ Cardinality(IssuedLoads) \in Nat
    BY <1>f, <1>3, <2>1 DEF PortsSuffice
  <2>4. Cardinality(IssuedLoads') <= free_load_ports'
    BY <1>2, <2>1, <2>2, <2>3
  <2> QED
    BY <2>1, <2>4 DEF PortsSuffice
<1>12. CASE UNCHANGED vars
  <2>1. UNCHANGED <<pc, k, status, prog, insnQueue, inFlightInsn, free_load_ports>>
    BY <1>12 DEF vars, insnVars, queueVars, l1Vars
  <2>2. IssuedLoads' = IssuedLoads
    BY <2>1 DEF IssuedLoads, Last, Kind
  <2> QED
    BY <2>1, <2>2 DEF PortsSuffice, isCosimFunc, Kind
<1> QED
  BY <1>4, <1>5, <1>6, <1>7, <1>8, <1>9, <1>10, <1>11, <1>12 DEF Next

\* With a port of L1 for every load unit no queue is overfilled and no
\* assertion of Core::writeBack or LDSTQ::completeInstruction fails.
THEOREM LimitsKept ==
    ASSUME LoadUnits <= L1LoadPorts PROVE Spec => []WithinLimits
<1>1. Init => PortsSuffice
  <2> SUFFICES ASSUME Init PROVE PortsSuffice
    OBVIOUS
  <2>1. /\ pc = "commit" /\ free_load_ports = L1LoadPorts /\ L1LoadPorts \in Nat
        /\ \A i \in Ids : status[i] = INIT
    BY SizeAssumption DEF Init
  <2>2. IssuedLoads = {}
    BY <2>1 DEF IssuedLoads
  <2>3. Cardinality(IssuedLoads) = 0
    BY <2>2, FS_EmptySet
  <2> QED
    BY <2>1, <2>3 DEF PortsSuffice
<1>2. BInv /\ BInv' /\ PortsSuffice /\ [Next]_vars => PortsSuffice'
  BY NextPorts
<1>3. BInv /\ PortsSuffice => WithinLimits
  <2> SUFFICES ASSUME BInv, PortsSuffice PROVE WithinLimits
    OBVIOUS
  <2>1. ASSUME pc = "execute", k > Len(inFlightInsn), NEW i \in Elems(inFlightInsn)
        PROVE  isCosimFunc(i) \/ status[i] \in {EXECUTING, SLEEP, FINISHED, COMMITED}
    <3>1. PICK j \in 1 .. Len(inFlightInsn) : i = inFlightInsn[j]
      BY DEF Elems
    <3>2. inFlightInsn \in Seq(Ids) /\ k \in Nat /\ Len(inFlightInsn) \in Nat
      BY DEF BInv, TypeOK
    <3>3. i \in Ids /\ status[i] >= ISSUED
      BY <3>1, <3>2, ElementOfSeq DEF BInv, InFlightExact
    <3>4. status[i] \in 0 .. 7
      BY <3>3, Ages DEF BInv
    <3>5. j < k
      BY <2>1, <3>2
    <3>6. isCosimFunc(i) \/ status[i] # ISSUED
      BY <2>1, <3>1, <3>5 DEF PortsSuffice
    <3> QED
      BY <3>3, <3>4, <3>6
  <2> QED
    BY <2>1 DEF BInv, LoadsWait, WithinLimits, WriteBackAsserts
<1> QED
  BY <1>1, <1>2, <1>3, BackendInvariant, PTL DEF Spec
=============================================================================
