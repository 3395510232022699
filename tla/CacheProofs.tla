------------------------------ MODULE CacheProofs ------------------------------
(***************************************************************************)
(* Requests and lines are kept in the memory hierarchy: proofs about       *)
(* module CacheHierarchy.  The inductive invariant CInv counts where each  *)
(* transaction is held, for the cache it was made for and for the one      *)
(* below; CInvOne adds, for a cache of latency 1, that what is decided in  *)
(* its pipeline is still so when it is acted on (OneCopy).                 *)
(***************************************************************************)
EXTENDS CacheHierarchy, TLAPS, SequenceTheorems, FiniteSetTheorems

-----------------------------------------------------------------------------
(* Naturals, and loops over a sequence.                                    *)

\* A set of naturals that holds 0 and the successor of each of its members is Nat.
LEMMA InductiveSet ==
    ASSUME NEW S \in SUBSET Nat, 0 \in S, \A n \in S : n + 1 \in S
    PROVE  S = Nat
<1> DEFINE R == OpToRel(<, Nat)
<1> SUFFICES ASSUME Nat \ S # {} PROVE FALSE
  OBVIOUS
<1>1. IsWellFoundedOn(R, Nat)
  BY NatLessThanWellFounded, Zenon
<1>2. \A x, y \in Nat : <<y, x>> \in R <=> y < x
  BY DEF OpToRel
<1> HIDE DEF R
<1>3. PICK x \in Nat \ S : \A y \in Nat \ S : ~(<<y, x>> \in R)
  BY <1>1, WFMin
<1>4. \A y \in Nat \ S : x <= y
  <2>1. \A y \in Nat \ S : x \in Nat /\ y \in Nat /\ ~(y < x)
    BY <1>2, <1>3
  <2> QED
    BY <2>1
<1>5. x # 0 /\ x - 1 \in Nat /\ ~(x <= x - 1)
  BY <1>3
<1>6. x - 1 \in S
  BY <1>4, <1>5
<1>7. (x - 1) + 1 \in S
  BY <1>6
<1> QED
  BY <1>3, <1>7

\* The same up to a bound.
LEMMA BoundedInduction ==
    ASSUME NEW L \in Nat, NEW S, 0 \in S, \A n \in 0 .. L : n \in S /\ n < L => n + 1 \in S
    PROVE  \A n \in 0 .. L : n \in S
<1> DEFINE N == {n \in Nat : n <= L => n \in S}
<1>1. 0 \in N
  OBVIOUS
<1>2. ASSUME NEW n \in N PROVE n + 1 \in N
  <2> SUFFICES ASSUME n + 1 <= L PROVE n + 1 \in S
    OBVIOUS
  <2>1. n \in 0 .. L /\ n < L /\ n \in S
    OBVIOUS
  <2> QED
    BY <2>1
<1>3. N \in SUBSET Nat
  OBVIOUS
<1> HIDE DEF N
<1>4. N = Nat
  BY <1>1, <1>2, <1>3, InductiveSet
<1> QED
  BY <1>4 DEF N

\* Max of the sets that a fold over a sequence takes.
LEMMA MaxIs ==
    ASSUME NEW m \in Nat, NEW S \in SUBSET (1 .. m), m \in S
    PROVE  Max(S) = m
<1>1. \A y \in S : m >= y
  OBVIOUS
<1>2. Max(S) \in S /\ \A y \in S : Max(S) >= y
  BY <1>1 DEF Max
<1> DEFINE M == Max(S)
<1> HIDE DEF M
<1>3. M \in 1 .. m /\ M >= m
  BY <1>2 DEF M
<1>4. M = m
  BY <1>3
<1> QED
  BY <1>4 DEF M

\* A set that a fold takes has a largest member.
LEMMA MaxIn ==
    ASSUME NEW L \in Nat, NEW S \in SUBSET (1 .. L), S # {}
    PROVE  Max(S) \in 1 .. L
<1> DEFINE Good(m) == \A Z \in SUBSET (1 .. m) : Z # {} => \E x \in Z : \A y \in Z : x >= y
           N == {m \in 0 .. L : Good(m)}
<1>1. 0 \in N
  <2>1. 1 .. 0 = {} /\ 0 \in 0 .. L
    OBVIOUS
  <2> QED
    BY <2>1
<1>2. ASSUME NEW m \in 0 .. L, m \in N, m < L PROVE m + 1 \in N
  <2>1. ASSUME NEW Z \in SUBSET (1 .. m + 1), Z # {} PROVE \E x \in Z : \A y \in Z : x >= y
    <3>1. CASE m + 1 \in Z
      BY <3>1
    <3>2. CASE m + 1 \notin Z
      <4>1. Z \in SUBSET (1 .. m)
        BY <3>2
      <4> QED
        BY <1>2, <2>1, <4>1
    <3> QED
      BY <3>1, <3>2
  <2>2. m + 1 \in 0 .. L
    BY <1>2
  <2> QED
    BY <2>1, <2>2
<1>3. L \in N
  <2> HIDE DEF N
  <2>1. \A n \in 0 .. L : n \in N
    BY <1>1, <1>2, BoundedInduction
  <2>2. L \in 0 .. L
    OBVIOUS
  <2> QED
    BY <2>1, <2>2
<1>4. PICK x \in S : \A y \in S : x >= y
  BY <1>3
<1>5. Max(S) \in S
  BY <1>4 DEF Max
<1> QED
  BY <1>5

\* The function by which FoldLeft is defined, for a loop of body st that keeps
\* its state in a set X.
IsFold(g, L, X, b, st) ==
    /\ g = [S \in SUBSET (1 .. L) |->
              IF S = {} THEN b ELSE st[<<g[S \ {Max(S)}], Max(S)>>]]
    /\ \A S \in SUBSET (1 .. L) :
          g[S] \in X /\ (S # {} => Max(S) \in 1 .. L /\ g[S \ {Max(S)}] \in X)

\* It exists.
LEMMA FoldExists ==
    ASSUME NEW L \in Nat, NEW X, NEW b \in X, NEW st,
           \A x \in X : \A n \in 1 .. L : st[<<x, n>>] \in X
    PROVE  \E g : IsFold(g, L, X, b, st)
<1> DEFINE Good(m, g) == /\ g \in [SUBSET (1 .. m) -> X]
                         /\ \A S \in SUBSET (1 .. m) :
                               g[S] = IF S = {} THEN b ELSE st[<<g[S \ {Max(S)}], Max(S)>>]
           N == {m \in 0 .. L : \E g : Good(m, g)}
<1>1. 0 \in N
  <2> DEFINE g == [S \in SUBSET (1 .. 0) |-> b]
  <2>1. \A S \in SUBSET (1 .. 0) : S = {}
    OBVIOUS
  <2>2. Good(0, g)
    BY <2>1
  <2>3. 0 \in 0 .. L
    OBVIOUS
  <2> HIDE DEF Good, g
  <2> QED
    BY <2>2, <2>3
<1>2. ASSUME NEW m \in 0 .. L, m \in N, m < L PROVE m + 1 \in N
  <2>1. PICK g : Good(m, g)
    BY <1>2
  <2> DEFINE k == m + 1
             h == [S \in SUBSET (1 .. k) |->
                     IF k \in S THEN st[<<g[S \ {k}], k>>] ELSE g[S]]
  <2>2. k \in Nat /\ k \in 1 .. L /\ 1 .. m = (1 .. k) \ {k}
    BY <1>2
  <2> HIDE DEF k
  <2>3. \A S \in SUBSET (1 .. k) : S \ {k} \in SUBSET (1 .. m) /\ (k \notin S => S \in SUBSET (1 .. m))
    BY <2>2
  <2>4. \A S \in SUBSET (1 .. m) : S \in SUBSET (1 .. k) /\ k \notin S
    BY <2>2
  <2>5. h \in [SUBSET (1 .. k) -> X]
    <3> SUFFICES ASSUME NEW S \in SUBSET (1 .. k)
                 PROVE  (IF k \in S THEN st[<<g[S \ {k}], k>>] ELSE g[S]) \in X
      OBVIOUS
    <3>1. CASE k \in S
      <4>1. g[S \ {k}] \in X
        BY <2>1, <2>3
      <4> QED
        BY <2>2, <3>1, <4>1
    <3>2. CASE k \notin S
      BY <2>1, <2>3, <3>2
    <3> QED
      BY <3>1, <3>2
  <2>6. \A S \in SUBSET (1 .. m) : h[S] = g[S]
    BY <2>4
  <2>7. ASSUME NEW S \in SUBSET (1 .. k)
        PROVE  h[S] = IF S = {} THEN b ELSE st[<<h[S \ {Max(S)}], Max(S)>>]
    <3>1. CASE k \in S
      <4>1. Max(S) = k
        BY <2>2, <3>1, MaxIs
      <4>2. h[S \ {k}] = g[S \ {k}] /\ S # {}
        BY <2>3, <2>6, <3>1
      <4>3. h[S] = st[<<g[S \ {k}], k>>]
        BY <3>1
      <4> QED
        BY <4>1, <4>2, <4>3
    <3>2. CASE k \notin S
      <4>1. S \in SUBSET (1 .. m) /\ h[S] = g[S]
        BY <2>3, <2>6, <3>2
      <4>2. S \ {Max(S)} \in SUBSET (1 .. m)
        BY <4>1
      <4>3. h[S \ {Max(S)}] = g[S \ {Max(S)}]
        BY <2>6, <4>2
      <4>4. g[S] = IF S = {} THEN b ELSE st[<<g[S \ {Max(S)}], Max(S)>>]
        BY <2>1, <4>1
      <4> HIDE DEF h
      <4> QED
        BY <4>1, <4>3, <4>4
    <3> QED
      BY <3>1, <3>2
  <2> HIDE DEF h
  <2>8. Good(k, h)
    BY <2>5, <2>7
  <2>9. k \in 0 .. L
    BY <2>2
  <2> HIDE DEF Good
  <2> QED
    BY <2>8, <2>9 DEF k
<1>3. L \in N
  <2> HIDE DEF N
  <2>1. L \in 0 .. L /\ \A n \in 0 .. L : n \in N
    BY <1>1, <1>2, BoundedInduction
  <2> QED
    BY <2>1
<1>4. PICK g : Good(L, g)
  BY <1>3
<1>5. g = [S \in SUBSET (1 .. L) |-> IF S = {} THEN b ELSE st[<<g[S \ {Max(S)}], Max(S)>>]]
  BY <1>4
<1>6. ASSUME NEW S \in SUBSET (1 .. L)
      PROVE  g[S] \in X /\ (S # {} => Max(S) \in 1 .. L /\ g[S \ {Max(S)}] \in X)
  <2>1. \A Z \in SUBSET (1 .. L) : g[Z] \in X
    BY <1>4
  <2>2. S \ {Max(S)} \in SUBSET (1 .. L)
    OBVIOUS
  <2>3. S # {} => Max(S) \in 1 .. L
    BY MaxIn
  <2> QED
    BY <2>1, <2>2, <2>3
<1> HIDE DEF Good
<1> QED
  BY <1>5, <1>6 DEF IsFold

\* What holds before the loop (D[0]) and is carried from D[n - 1] to D[n] by its
\* n-th step holds after it.
LEMMA LoopCarries ==
    ASSUME NEW L \in Nat, NEW X, NEW D, NEW h, h[{}] \in X, h[{}] \in D[0],
           \A n \in 1 .. L : h[1 .. n - 1] \in X =>
               h[1 .. n] \in X /\ (h[1 .. n - 1] \in D[n - 1] => h[1 .. n] \in D[n])
    PROVE  h[1 .. L] \in X /\ h[1 .. L] \in D[L]
<1> DEFINE N == {n \in 0 .. L : h[1 .. n] \in X /\ h[1 .. n] \in D[n]}
<1>1. 0 \in N
  <2>1. 1 .. 0 = {} /\ 0 \in 0 .. L
    OBVIOUS
  <2> QED
    BY <2>1
<1>2. ASSUME NEW n \in 0 .. L, n \in N, n < L PROVE n + 1 \in N
  <2>1. n + 1 \in 1 .. L /\ (n + 1) - 1 = n /\ n + 1 \in 0 .. L
    BY <1>2
  <2> QED
    BY <1>2, <2>1
<1> HIDE DEF N
<1>3. \A n \in 0 .. L : n \in N
  BY <1>1, <1>2, BoundedInduction
<1>4. L \in 0 .. L
  OBVIOUS
<1> QED
  BY <1>3, <1>4 DEF N

-----------------------------------------------------------------------------
(* How often a transaction occurs.                                         *)

Is(x, t) == IF x = t THEN 1 ELSE 0

\* Occurrences among the first n.
Upto(t, q, n) == Cardinality({i \in 1 .. n : q[i] = t})

\* They are counted one by one.
LEMMA UptoStep ==
    ASSUME NEW t, NEW q, NEW n \in Nat
    PROVE  /\ Upto(t, q, 0) = 0 /\ Upto(t, q, n) \in Nat
           /\ Upto(t, q, n + 1) = Upto(t, q, n) + Is(q[n + 1], t)
<1> DEFINE A(k) == {i \in 1 .. k : q[i] = t}
<1>1. ASSUME NEW k \in Nat PROVE IsFiniteSet(A(k)) /\ Cardinality(A(k)) \in Nat
  <2>1. IsFiniteSet(1 .. k) /\ A(k) \subseteq 1 .. k
    BY FS_Interval
  <2>2. IsFiniteSet(A(k))
    BY <2>1, FS_Subset
  <2> QED
    BY <2>2, FS_CardinalityType
<1>2. A(0) = {}
  OBVIOUS
<1>3. Cardinality(A(0)) = 0
  BY <1>2, FS_EmptySet
<1>4. n + 1 \notin A(n)
  OBVIOUS
<1>5. Cardinality(A(n + 1)) = Cardinality(A(n)) + Is(q[n + 1], t)
  <2>1. CASE q[n + 1] = t
    <3>1. A(n + 1) = A(n) \cup {n + 1}
      BY <2>1
    <3> HIDE DEF A
    <3>2. Cardinality(A(n) \cup {n + 1}) = Cardinality(A(n)) + 1
      BY <1>1, <1>4, FS_AddElement
    <3> QED
      BY <2>1, <3>1, <3>2 DEF Is
  <2>2. CASE q[n + 1] # t
    <3>1. A(n + 1) = A(n)
      BY <2>2
    <3> HIDE DEF A
    <3>2. Cardinality(A(n)) \in Nat
      BY <1>1
    <3> QED
      BY <2>2, <3>1, <3>2 DEF Is
  <2> QED
    BY <2>1, <2>2
<1> QED
  BY <1>1, <1>3, <1>5 DEF Upto

\* They depend on these elements only, and grow with their number.
LEMMA UptoSame ==
    ASSUME NEW t, NEW q, NEW r, NEW n \in Nat, \A i \in 1 .. n : q[i] = r[i]
    PROVE  Upto(t, q, n) = Upto(t, r, n)
<1>1. {i \in 1 .. n : q[i] = t} = {i \in 1 .. n : r[i] = t}
  OBVIOUS
<1> QED
  BY <1>1 DEF Upto

LEMMA UptoGrows ==
    ASSUME NEW t, NEW q, NEW n \in Nat, NEW m \in Nat, n <= m
    PROVE  Upto(t, q, n) <= Upto(t, q, m)
<1>1. {i \in 1 .. n : q[i] = t} \subseteq {i \in 1 .. m : q[i] = t}
  OBVIOUS
<1>2. IsFiniteSet({i \in 1 .. m : q[i] = t})
  <2>1. IsFiniteSet(1 .. m) /\ {i \in 1 .. m : q[i] = t} \subseteq 1 .. m
    BY FS_Interval
  <2> QED
    BY <2>1, FS_Subset
<1> QED
  BY <1>1, <1>2, FS_Subset DEF Upto

\* In a whole sequence, none when t is not there and at least one when it is.
LEMMA TimesIs ==
    ASSUME NEW t, NEW S, NEW s \in Seq(S)
    PROVE  /\ Times(t, s) = Upto(t, s, Len(s)) /\ Times(t, s) \in Nat
           /\ Times(t, s) > 0 <=> \E i \in 1 .. Len(s) : s[i] = t
<1> DEFINE A == {i \in 1 .. Len(s) : s[i] = t}
<1>1. Len(s) \in Nat
  BY LenProperties
<1>2. Times(t, s) = Upto(t, s, Len(s)) /\ Times(t, s) = Cardinality(A)
  BY DEF Times, Upto
<1>3. Times(t, s) \in Nat
  BY <1>1, <1>2, UptoStep
<1>4. IsFiniteSet(A)
  <2>1. IsFiniteSet(1 .. Len(s)) /\ A \subseteq 1 .. Len(s)
    BY <1>1, FS_Interval
  <2> QED
    BY <2>1, FS_Subset
<1>5. Cardinality(A) = 0 <=> A = {}
  BY <1>4, FS_EmptySet
<1>6. A = {} <=> ~\E i \in 1 .. Len(s) : s[i] = t
  OBVIOUS
<1> HIDE DEF A
<1> QED
  BY <1>2, <1>3, <1>5, <1>6

LEMMA TimesEmpty ==
    ASSUME NEW t
    PROVE  Times(t, <<>>) = 0
<1>1. Times(t, <<>>) = Upto(t, <<>>, 0)
  BY DEF Times, Upto
<1> QED
  BY <1>1, UptoStep

LEMMA TimesAppend ==
    ASSUME NEW t, NEW S, NEW s \in Seq(S), NEW x \in S
    PROVE  Times(t, Append(s, x)) = Times(t, s) + Is(x, t)
<1> DEFINE u == Append(s, x)  n == Len(s)
<1>1. n \in Nat /\ Len(u) = n + 1 /\ u[n + 1] = x /\ \A i \in 1 .. n : u[i] = s[i]
  BY AppendProperties, LenProperties
<1> HIDE DEF u
<1>2. Times(t, u) = Upto(t, u, n + 1) /\ Times(t, s) = Upto(t, s, n)
  BY <1>1 DEF Times, Upto
<1> HIDE DEF n
<1>3. Upto(t, u, n + 1) = Upto(t, u, n) + Is(x, t)
  BY <1>1, UptoStep
<1>4. Upto(t, u, n) = Upto(t, s, n)
  BY <1>1, UptoSame
<1> QED
  BY <1>2, <1>3, <1>4 DEF u

LEMMA TimesConcat ==
    ASSUME NEW t, NEW S, NEW s \in Seq(S), NEW r \in Seq(S)
    PROVE  Times(t, s \o r) = Times(t, s) + Times(t, r)
<1> DEFINE u == s \o r  m == Len(s)  k == Len(r)
           N == {n \in 0 .. k : Upto(t, u, m + n) = Times(t, s) + Upto(t, r, n)}
<1>1. /\ m \in Nat /\ k \in Nat /\ Len(u) = m + k
      /\ \A i \in 1 .. m + k : u[i] = IF i <= m THEN s[i] ELSE r[i - m]
  BY ConcatProperties, LenProperties
<1>2. Times(t, u) = Upto(t, u, m + k) /\ Times(t, r) = Upto(t, r, k) /\ Times(t, s) = Upto(t, s, m)
  BY <1>1 DEF Times, Upto
<1> HIDE DEF u, m, k
<1>3. Upto(t, u, m) = Upto(t, s, m) /\ Upto(t, s, m) \in Nat
  <2>1. \A i \in 1 .. m : u[i] = s[i]
    BY <1>1
  <2> QED
    BY <1>1, <2>1, UptoSame, UptoStep
<1>4. 0 \in N
  <2>1. Upto(t, r, 0) = 0 /\ m + 0 = m
    BY <1>1, UptoStep
  <2>2. 0 \in 0 .. k
    BY <1>1
  <2> QED
    BY <1>2, <1>3, <2>1, <2>2
<1>5. ASSUME NEW n \in 0 .. k, n \in N, n < k PROVE n + 1 \in N
  <2>1. n \in Nat /\ m + n \in Nat /\ (m + n) + 1 = m + (n + 1) /\ n + 1 \in 0 .. k
    BY <1>1, <1>5
  <2>2. u[m + (n + 1)] = r[n + 1]
    <3>1. m + (n + 1) \in 1 .. m + k /\ ~(m + (n + 1) <= m) /\ (m + (n + 1)) - m = n + 1
      BY <1>1, <1>5, <2>1
    <3> QED
      BY <1>1, <3>1
  <2>3. Upto(t, u, (m + n) + 1) = Upto(t, u, m + n) + Is(u[(m + n) + 1], t)
    BY <2>1, UptoStep
  <2>4. Upto(t, r, n + 1) = Upto(t, r, n) + Is(r[n + 1], t) /\ Upto(t, r, n) \in Nat
    BY <2>1, UptoStep
  <2>5. Upto(t, u, m + n) = Times(t, s) + Upto(t, r, n)
    BY <1>5
  <2>6. Is(r[n + 1], t) \in Nat
    BY DEF Is
  <2>7. Upto(t, u, m + (n + 1)) = Times(t, s) + Upto(t, r, n + 1)
    BY <1>2, <1>3, <2>1, <2>2, <2>3, <2>4, <2>5, <2>6
  <2> QED
    BY <2>1, <2>7
<1>6. k \in N
  <2> HIDE DEF N
  <2>1. \A n \in 0 .. k : n \in N
    BY <1>1, <1>4, <1>5, BoundedInduction
  <2> QED
    BY <1>1, <2>1
<1> QED
  BY <1>2, <1>6 DEF u

LEMMA TimesRemove ==
    ASSUME NEW t, NEW S, NEW s \in Seq(S), NEW i \in 1 .. Len(s)
    PROVE  /\ RemoveAt(s, i) \in Seq(S) /\ Len(RemoveAt(s, i)) = Len(s) - 1
           /\ Times(t, s) = Times(t, RemoveAt(s, i)) + Is(s[i], t)
           /\ \A j \in 1 .. Len(s) - 1 : RemoveAt(s, i)[j] = IF j < i THEN s[j] ELSE s[j + 1]
<1> DEFINE a == SubSeq(s, 1, i - 1)  b == SubSeq(s, i + 1, Len(s))  c == SubSeq(s, 1, i)
           n == Len(s)
<1>1. n \in Nat /\ i \in Nat /\ i - 1 \in Nat /\ i <= n
  BY LenProperties
<1>2. a \in Seq(S) /\ Len(a) = i - 1 /\ \A j \in 1 .. i - 1 : a[j] = s[j]
  BY <1>1, SubSeqProperties
<1>3. b \in Seq(S) /\ Len(b) = n - i /\ \A j \in 1 .. n - i : b[j] = s[i + j]
  BY <1>1, SubSeqProperties
<1>4. c \in Seq(S) /\ Len(c) = i /\ \A j \in 1 .. i : c[j] = s[j]
  BY <1>1, SubSeqProperties
<1>5. RemoveAt(s, i) = a \o b
  BY DEF RemoveAt
<1> HIDE DEF a, b, c
<1>6. /\ a \o b \in Seq(S) /\ Len(a \o b) = Len(a) + Len(b)
      /\ \A j \in 1 .. Len(a) + Len(b) : (a \o b)[j] = IF j <= Len(a) THEN a[j] ELSE b[j - Len(a)]
  BY <1>2, <1>3, ConcatProperties
<1>7. c \o b = s
  <2> DEFINE u == c \o b
  <2>1. /\ u \in Seq(S) /\ Len(u) = Len(c) + Len(b)
        /\ \A j \in 1 .. Len(c) + Len(b) : u[j] = IF j <= Len(c) THEN c[j] ELSE b[j - Len(c)]
    BY <1>3, <1>4, ConcatProperties
  <2> HIDE DEF u
  <2>2. Len(u) = n
    BY <1>1, <1>3, <1>4, <2>1
  <2>3. ASSUME NEW j \in 1 .. n PROVE u[j] = s[j]
    <3>1. u[j] = IF j <= i THEN c[j] ELSE b[j - i]
      BY <1>1, <1>3, <1>4, <2>1, <2>2
    <3>2. CASE j <= i
      BY <1>1, <1>4, <3>1, <3>2
    <3>3. CASE ~(j <= i)
      <4>1. j - i \in 1 .. n - i /\ i + (j - i) = j
        BY <1>1, <3>3
      <4> QED
        BY <1>3, <3>1, <3>3, <4>1
    <3> QED
      BY <3>2, <3>3
  <2>4. u = s
    BY <2>1, <2>2, <2>3, SeqEqual
  <2> QED
    BY <2>4 DEF u
<1>8. Times(t, a \o b) = Times(t, a) + Times(t, b) /\ Times(t, s) = Times(t, c) + Times(t, b)
  <2>1. Times(t, a \o b) = Times(t, a) + Times(t, b)
    BY <1>2, <1>3, TimesConcat
  <2>2. Times(t, c \o b) = Times(t, c) + Times(t, b)
    BY <1>3, <1>4, TimesConcat
  <2> QED
    BY <1>7, <2>1, <2>2
<1>9. Times(t, c) = Times(t, a) + Is(s[i], t)
  <2>1. Times(t, a) = Upto(t, a, i - 1) /\ Times(t, c) = Upto(t, c, i)
    BY <1>2, <1>4, TimesIs
  <2>2. Upto(t, c, (i - 1) + 1) = Upto(t, c, i - 1) + Is(c[(i - 1) + 1], t) /\ (i - 1) + 1 = i
    BY <1>1, UptoStep
  <2>3. c[i] = s[i]
    BY <1>1, <1>4
  <2>4. \A j \in 1 .. i - 1 : a[j] = c[j]
    BY <1>1, <1>2, <1>4
  <2>5. Upto(t, a, i - 1) = Upto(t, c, i - 1)
    BY <1>1, <2>4, UptoSame
  <2> QED
    BY <2>1, <2>2, <2>3, <2>5
<1>10. Times(t, a) \in Nat /\ Times(t, b) \in Nat /\ Is(s[i], t) \in Nat
  BY <1>2, <1>3, TimesIs DEF Is
<1>11. Times(t, s) = Times(t, a \o b) + Is(s[i], t)
  BY <1>8, <1>9, <1>10
<1>12. Len(a \o b) = n - 1
  BY <1>1, <1>2, <1>3, <1>6
<1>13. ASSUME NEW j \in 1 .. n - 1 PROVE (a \o b)[j] = IF j < i THEN s[j] ELSE s[j + 1]
  <2>1. (a \o b)[j] = IF j <= i - 1 THEN a[j] ELSE b[j - (i - 1)]
    BY <1>1, <1>2, <1>3, <1>6
  <2>2. CASE j < i
    <3>1. j <= i - 1 /\ j \in 1 .. i - 1
      BY <1>1, <2>2
    <3> QED
      BY <1>2, <2>1, <2>2, <3>1
  <2>3. CASE ~(j < i)
    <3>1. ~(j <= i - 1) /\ j - (i - 1) \in 1 .. n - i /\ i + (j - (i - 1)) = j + 1
      BY <1>1, <2>3
    <3> QED
      BY <1>3, <2>1, <2>3, <3>1
  <2> QED
    BY <2>2, <2>3
<1> QED
  BY <1>5, <1>6, <1>11, <1>12, <1>13

\* The set of the first n.
LEMMA PrefixIs ==
    ASSUME NEW L \in Nat, NEW n \in 1 .. L
    PROVE  /\ n - 1 \in 0 .. L /\ n \in 0 .. L /\ (1 .. n) \ {n} = 1 .. n - 1
           /\ 1 .. n \in SUBSET (1 .. L) /\ 1 .. n # {} /\ Max(1 .. n) = n
<1>1. n \in Nat /\ n - 1 \in 0 .. L /\ n \in 0 .. L /\ n \in 1 .. n
  OBVIOUS
<1>2. (1 .. n) \ {n} = 1 .. n - 1
  BY <1>1
<1>3. 1 .. n \in SUBSET (1 .. L)
  BY <1>1
<1>4. Max(1 .. n) = n
  BY <1>1, MaxIs
<1> QED
  BY <1>1, <1>2, <1>3, <1>4

-----------------------------------------------------------------------------
(* The loops of the caches, each folded over a sequence: what every step   *)
(* carries from D[n - 1] to D[n], the loop carries from D[0] to D[L].      *)

\* handleRequests.
LEMMA ArriveLoop ==
    ASSUME NEW c, NEW q, NEW L \in Nat, DOMAIN q = 1 .. L, NEW b, NEW X, NEW D, b \in X, b \in D[0],
           \A x \in X : \A n \in 1 .. L :
               LET y == Arrive(c, x, q[n]) IN y \in X /\ (x \in D[n - 1] => y \in D[n])
    PROVE  LET r == ArriveEach(c, b, q) IN r \in X /\ r \in D[L]
<1> DEFINE st == [p \in X \X (1 .. L) |-> Arrive(c, p[1], q[p[2]])]
<1>1. \A x \in X : \A n \in 1 .. L : st[<<x, n>>] = Arrive(c, x, q[n]) /\ st[<<x, n>>] \in X
  OBVIOUS
<1> HIDE DEF st
<1>2. PICK g : IsFold(g, L, X, b, st)
  BY <1>1, FoldExists
<1>3. g = [S \in SUBSET (1 .. L) |-> IF S = {} THEN b ELSE Arrive(c, g[S \ {Max(S)}], q[Max(S)])]
  BY <1>1, <1>2 DEF IsFold
<1> DEFINE h == CHOOSE k : k = [S \in SUBSET (1 .. L) |-> IF S = {} THEN b ELSE Arrive(c, k[S \ {Max(S)}], q[Max(S)])]
<1>4. h = [S \in SUBSET (1 .. L) |-> IF S = {} THEN b ELSE Arrive(c, h[S \ {Max(S)}], q[Max(S)])]
  BY <1>3
<1>5. ArriveEach(c, b, q) = h[1 .. L]
  BY DEF ArriveEach, FoldLeft, MapThenFoldSet
<1> HIDE DEF h
<1>6. ASSUME NEW n \in 1 .. L PROVE h[1 .. n] = Arrive(c, h[1 .. n - 1], q[n])
  <2>1. 1 .. n \in SUBSET (1 .. L) /\ 1 .. n # {} /\ Max(1 .. n) = n /\ (1 .. n) \ {n} = 1 .. n - 1
    BY PrefixIs
  <2> QED
    BY <1>4, <2>1
<1>7. h[{}] \in X /\ h[{}] \in D[0]
  BY <1>4
<1>8. \A n \in 1 .. L : h[1 .. n - 1] \in X =>
          h[1 .. n] \in X /\ (h[1 .. n - 1] \in D[n - 1] => h[1 .. n] \in D[n])
  BY <1>6
<1>9. h[1 .. L] \in X /\ h[1 .. L] \in D[L]
  BY <1>7, <1>8, LoopCarries
<1> QED
  BY <1>5, <1>9

\* retryStalled.
LEMMA enterMSHRLoop ==
    ASSUME NEW c, NEW q, NEW L \in Nat, DOMAIN q = 1 .. L, NEW b, NEW X, NEW D, b \in X, b \in D[0],
           \A x \in X : \A n \in 1 .. L :
               LET y == enterMSHR(c, x, q[n]) IN y \in X /\ (x \in D[n - 1] => y \in D[n])
    PROVE  LET r == EnterEach(c, b, q) IN r \in X /\ r \in D[L]
<1> DEFINE st == [p \in X \X (1 .. L) |-> enterMSHR(c, p[1], q[p[2]])]
<1>1. \A x \in X : \A n \in 1 .. L : st[<<x, n>>] = enterMSHR(c, x, q[n]) /\ st[<<x, n>>] \in X
  OBVIOUS
<1> HIDE DEF st
<1>2. PICK g : IsFold(g, L, X, b, st)
  BY <1>1, FoldExists
<1>3. g = [S \in SUBSET (1 .. L) |-> IF S = {} THEN b ELSE enterMSHR(c, g[S \ {Max(S)}], q[Max(S)])]
  BY <1>1, <1>2 DEF IsFold
<1> DEFINE h == CHOOSE k : k = [S \in SUBSET (1 .. L) |-> IF S = {} THEN b ELSE enterMSHR(c, k[S \ {Max(S)}], q[Max(S)])]
<1>4. h = [S \in SUBSET (1 .. L) |-> IF S = {} THEN b ELSE enterMSHR(c, h[S \ {Max(S)}], q[Max(S)])]
  BY <1>3
<1>5. EnterEach(c, b, q) = h[1 .. L]
  BY DEF EnterEach, FoldLeft, MapThenFoldSet
<1> HIDE DEF h
<1>6. ASSUME NEW n \in 1 .. L PROVE h[1 .. n] = enterMSHR(c, h[1 .. n - 1], q[n])
  <2>1. 1 .. n \in SUBSET (1 .. L) /\ 1 .. n # {} /\ Max(1 .. n) = n /\ (1 .. n) \ {n} = 1 .. n - 1
    BY PrefixIs
  <2> QED
    BY <1>4, <2>1
<1>7. h[{}] \in X /\ h[{}] \in D[0]
  BY <1>4
<1>8. \A n \in 1 .. L : h[1 .. n - 1] \in X =>
          h[1 .. n] \in X /\ (h[1 .. n - 1] \in D[n - 1] => h[1 .. n] \in D[n])
  BY <1>6
<1>9. h[1 .. L] \in X /\ h[1 .. L] \in D[L]
  BY <1>7, <1>8, LoopCarries
<1> QED
  BY <1>5, <1>9

\* handleResponses.
LEMMA FillLoop ==
    ASSUME NEW c, NEW q, NEW L \in Nat, DOMAIN q = 1 .. L, NEW b, NEW X, NEW D, b \in X, b \in D[0],
           \A x \in X : \A n \in 1 .. L :
               LET y == Fill(c, x, q[n]) IN y \in X /\ (x \in D[n - 1] => y \in D[n])
    PROVE  LET r == FillEach(c, b, q) IN r \in X /\ r \in D[L]
<1> DEFINE st == [p \in X \X (1 .. L) |-> Fill(c, p[1], q[p[2]])]
<1>1. \A x \in X : \A n \in 1 .. L : st[<<x, n>>] = Fill(c, x, q[n]) /\ st[<<x, n>>] \in X
  OBVIOUS
<1> HIDE DEF st
<1>2. PICK g : IsFold(g, L, X, b, st)
  BY <1>1, FoldExists
<1>3. g = [S \in SUBSET (1 .. L) |-> IF S = {} THEN b ELSE Fill(c, g[S \ {Max(S)}], q[Max(S)])]
  BY <1>1, <1>2 DEF IsFold
<1> DEFINE h == CHOOSE k : k = [S \in SUBSET (1 .. L) |-> IF S = {} THEN b ELSE Fill(c, k[S \ {Max(S)}], q[Max(S)])]
<1>4. h = [S \in SUBSET (1 .. L) |-> IF S = {} THEN b ELSE Fill(c, h[S \ {Max(S)}], q[Max(S)])]
  BY <1>3
<1>5. FillEach(c, b, q) = h[1 .. L]
  BY DEF FillEach, FoldLeft, MapThenFoldSet
<1> HIDE DEF h
<1>6. ASSUME NEW n \in 1 .. L PROVE h[1 .. n] = Fill(c, h[1 .. n - 1], q[n])
  <2>1. 1 .. n \in SUBSET (1 .. L) /\ 1 .. n # {} /\ Max(1 .. n) = n /\ (1 .. n) \ {n} = 1 .. n - 1
    BY PrefixIs
  <2> QED
    BY <1>4, <2>1
<1>7. h[{}] \in X /\ h[{}] \in D[0]
  BY <1>4
<1>8. \A n \in 1 .. L : h[1 .. n - 1] \in X =>
          h[1 .. n] \in X /\ (h[1 .. n - 1] \in D[n - 1] => h[1 .. n] \in D[n])
  BY <1>6
<1>9. h[1 .. L] \in X /\ h[1 .. L] \in D[L]
  BY <1>7, <1>8, LoopCarries
<1> QED
  BY <1>5, <1>9

\* sendResponsesL2.
LEMMA AnsweredLoop ==
    ASSUME NEW c, NEW q, NEW L \in Nat, DOMAIN q = 1 .. L, NEW b, NEW X, NEW D, b \in X, b \in D[0],
           \A x \in X : \A n \in 1 .. L :
               LET y == Answered(c, x, q[n]) IN y \in X /\ (x \in D[n - 1] => y \in D[n])
    PROVE  LET r == AnswerEach(c, b, q) IN r \in X /\ r \in D[L]
<1> DEFINE st == [p \in X \X (1 .. L) |-> Answered(c, p[1], q[p[2]])]
<1>1. \A x \in X : \A n \in 1 .. L : st[<<x, n>>] = Answered(c, x, q[n]) /\ st[<<x, n>>] \in X
  OBVIOUS
<1> HIDE DEF st
<1>2. PICK g : IsFold(g, L, X, b, st)
  BY <1>1, FoldExists
<1>3. g = [S \in SUBSET (1 .. L) |-> IF S = {} THEN b ELSE Answered(c, g[S \ {Max(S)}], q[Max(S)])]
  BY <1>1, <1>2 DEF IsFold
<1> DEFINE h == CHOOSE k : k = [S \in SUBSET (1 .. L) |-> IF S = {} THEN b ELSE Answered(c, k[S \ {Max(S)}], q[Max(S)])]
<1>4. h = [S \in SUBSET (1 .. L) |-> IF S = {} THEN b ELSE Answered(c, h[S \ {Max(S)}], q[Max(S)])]
  BY <1>3
<1>5. AnswerEach(c, b, q) = h[1 .. L]
  BY DEF AnswerEach, FoldLeft, MapThenFoldSet
<1> HIDE DEF h
<1>6. ASSUME NEW n \in 1 .. L PROVE h[1 .. n] = Answered(c, h[1 .. n - 1], q[n])
  <2>1. 1 .. n \in SUBSET (1 .. L) /\ 1 .. n # {} /\ Max(1 .. n) = n /\ (1 .. n) \ {n} = 1 .. n - 1
    BY PrefixIs
  <2> QED
    BY <1>4, <2>1
<1>7. h[{}] \in X /\ h[{}] \in D[0]
  BY <1>4
<1>8. \A n \in 1 .. L : h[1 .. n - 1] \in X =>
          h[1 .. n] \in X /\ (h[1 .. n - 1] \in D[n - 1] => h[1 .. n] \in D[n])
  BY <1>6
<1>9. h[1 .. L] \in X /\ h[1 .. L] \in D[L]
  BY <1>7, <1>8, LoopCarries
<1> QED
  BY <1>5, <1>9

\* The dirty victims of sendRequests.
LEMMA WrittenBackLoop ==
    ASSUME NEW q, NEW L \in Nat, DOMAIN q = 1 .. L, NEW b, NEW X, NEW D, b \in X, b \in D[0],
           \A x \in X : \A n \in 1 .. L :
               LET y == WrittenBack(x, q[n]) IN y \in X /\ (x \in D[n - 1] => y \in D[n])
    PROVE  LET r == WriteBackEach(b, q) IN r \in X /\ r \in D[L]
<1> DEFINE st == [p \in X \X (1 .. L) |-> WrittenBack(p[1], q[p[2]])]
<1>1. \A x \in X : \A n \in 1 .. L : st[<<x, n>>] = WrittenBack(x, q[n]) /\ st[<<x, n>>] \in X
  OBVIOUS
<1> HIDE DEF st
<1>2. PICK g : IsFold(g, L, X, b, st)
  BY <1>1, FoldExists
<1>3. g = [S \in SUBSET (1 .. L) |-> IF S = {} THEN b ELSE WrittenBack(g[S \ {Max(S)}], q[Max(S)])]
  BY <1>1, <1>2 DEF IsFold
<1> DEFINE h == CHOOSE k : k = [S \in SUBSET (1 .. L) |-> IF S = {} THEN b ELSE WrittenBack(k[S \ {Max(S)}], q[Max(S)])]
<1>4. h = [S \in SUBSET (1 .. L) |-> IF S = {} THEN b ELSE WrittenBack(h[S \ {Max(S)}], q[Max(S)])]
  BY <1>3
<1>5. WriteBackEach(b, q) = h[1 .. L]
  BY DEF WriteBackEach, FoldLeft, MapThenFoldSet
<1> HIDE DEF h
<1>6. ASSUME NEW n \in 1 .. L PROVE h[1 .. n] = WrittenBack(h[1 .. n - 1], q[n])
  <2>1. 1 .. n \in SUBSET (1 .. L) /\ 1 .. n # {} /\ Max(1 .. n) = n /\ (1 .. n) \ {n} = 1 .. n - 1
    BY PrefixIs
  <2> QED
    BY <1>4, <2>1
<1>7. h[{}] \in X /\ h[{}] \in D[0]
  BY <1>4
<1>8. \A n \in 1 .. L : h[1 .. n - 1] \in X =>
          h[1 .. n] \in X /\ (h[1 .. n - 1] \in D[n - 1] => h[1 .. n] \in D[n])
  BY <1>6
<1>9. h[1 .. L] \in X /\ h[1 .. L] \in D[L]
  BY <1>7, <1>8, LoopCarries
<1> QED
  BY <1>5, <1>9

\* sendRequestsL1.
LEMMA OfferLoop ==
    ASSUME NEW q, NEW L \in Nat, DOMAIN q = 1 .. L, NEW b, NEW X, NEW D, b \in X, b \in D[0],
           \A x \in X : \A n \in 1 .. L :
               LET y == Offer(x, q[n]) IN y \in X /\ (x \in D[n - 1] => y \in D[n])
    PROVE  LET r == OfferEach(b, q) IN r \in X /\ r \in D[L]
<1> DEFINE st == [p \in X \X (1 .. L) |-> Offer(p[1], q[p[2]])]
<1>1. \A x \in X : \A n \in 1 .. L : st[<<x, n>>] = Offer(x, q[n]) /\ st[<<x, n>>] \in X
  OBVIOUS
<1> HIDE DEF st
<1>2. PICK g : IsFold(g, L, X, b, st)
  BY <1>1, FoldExists
<1>3. g = [S \in SUBSET (1 .. L) |-> IF S = {} THEN b ELSE Offer(g[S \ {Max(S)}], q[Max(S)])]
  BY <1>1, <1>2 DEF IsFold
<1> DEFINE h == CHOOSE k : k = [S \in SUBSET (1 .. L) |-> IF S = {} THEN b ELSE Offer(k[S \ {Max(S)}], q[Max(S)])]
<1>4. h = [S \in SUBSET (1 .. L) |-> IF S = {} THEN b ELSE Offer(h[S \ {Max(S)}], q[Max(S)])]
  BY <1>3
<1>5. OfferEach(b, q) = h[1 .. L]
  BY DEF OfferEach, FoldLeft, MapThenFoldSet
<1> HIDE DEF h
<1>6. ASSUME NEW n \in 1 .. L PROVE h[1 .. n] = Offer(h[1 .. n - 1], q[n])
  <2>1. 1 .. n \in SUBSET (1 .. L) /\ 1 .. n # {} /\ Max(1 .. n) = n /\ (1 .. n) \ {n} = 1 .. n - 1
    BY PrefixIs
  <2> QED
    BY <1>4, <2>1
<1>7. h[{}] \in X /\ h[{}] \in D[0]
  BY <1>4
<1>8. \A n \in 1 .. L : h[1 .. n - 1] \in X =>
          h[1 .. n] \in X /\ (h[1 .. n - 1] \in D[n - 1] => h[1 .. n] \in D[n])
  BY <1>6
<1>9. h[1 .. L] \in X /\ h[1 .. L] \in D[L]
  BY <1>7, <1>8, LoopCarries
<1> QED
  BY <1>5, <1>9

\* sendRequestsL2, the misses.
LEMMA SendDownLoop ==
    ASSUME NEW refused, NEW q, NEW L \in Nat, DOMAIN q = 1 .. L, NEW b, NEW X, NEW D, b \in X, b \in D[0],
           \A x \in X : \A n \in 1 .. L :
               LET y == SendDown(refused, x, q[n]) IN y \in X /\ (x \in D[n - 1] => y \in D[n])
    PROVE  LET r == SendEach(refused, b, q) IN r \in X /\ r \in D[L]
<1> DEFINE st == [p \in X \X (1 .. L) |-> SendDown(refused, p[1], q[p[2]])]
<1>1. \A x \in X : \A n \in 1 .. L : st[<<x, n>>] = SendDown(refused, x, q[n]) /\ st[<<x, n>>] \in X
  OBVIOUS
<1> HIDE DEF st
<1>2. PICK g : IsFold(g, L, X, b, st)
  BY <1>1, FoldExists
<1>3. g = [S \in SUBSET (1 .. L) |-> IF S = {} THEN b ELSE SendDown(refused, g[S \ {Max(S)}], q[Max(S)])]
  BY <1>1, <1>2 DEF IsFold
<1> DEFINE h == CHOOSE k : k = [S \in SUBSET (1 .. L) |-> IF S = {} THEN b ELSE SendDown(refused, k[S \ {Max(S)}], q[Max(S)])]
<1>4. h = [S \in SUBSET (1 .. L) |-> IF S = {} THEN b ELSE SendDown(refused, h[S \ {Max(S)}], q[Max(S)])]
  BY <1>3
<1>5. SendEach(refused, b, q) = h[1 .. L]
  BY DEF SendEach, FoldLeft, MapThenFoldSet
<1> HIDE DEF h
<1>6. ASSUME NEW n \in 1 .. L PROVE h[1 .. n] = SendDown(refused, h[1 .. n - 1], q[n])
  <2>1. 1 .. n \in SUBSET (1 .. L) /\ 1 .. n # {} /\ Max(1 .. n) = n /\ (1 .. n) \ {n} = 1 .. n - 1
    BY PrefixIs
  <2> QED
    BY <1>4, <2>1
<1>7. h[{}] \in X /\ h[{}] \in D[0]
  BY <1>4
<1>8. \A n \in 1 .. L : h[1 .. n - 1] \in X =>
          h[1 .. n] \in X /\ (h[1 .. n - 1] \in D[n - 1] => h[1 .. n] \in D[n])
  BY <1>6
<1>9. h[1 .. L] \in X /\ h[1 .. L] \in D[L]
  BY <1>7, <1>8, LoopCarries
<1> QED
  BY <1>5, <1>9

\* sendRequestsL2, the victims.
LEMMA EvictDownLoop ==
    ASSUME NEW refused, NEW q, NEW L \in Nat, DOMAIN q = 1 .. L, NEW b, NEW X, NEW D, b \in X, b \in D[0],
           \A x \in X : \A n \in 1 .. L :
               LET y == EvictDown(refused, x, q[n]) IN y \in X /\ (x \in D[n - 1] => y \in D[n])
    PROVE  LET r == EvictEach(refused, b, q) IN r \in X /\ r \in D[L]
<1> DEFINE st == [p \in X \X (1 .. L) |-> EvictDown(refused, p[1], q[p[2]])]
<1>1. \A x \in X : \A n \in 1 .. L : st[<<x, n>>] = EvictDown(refused, x, q[n]) /\ st[<<x, n>>] \in X
  OBVIOUS
<1> HIDE DEF st
<1>2. PICK g : IsFold(g, L, X, b, st)
  BY <1>1, FoldExists
<1>3. g = [S \in SUBSET (1 .. L) |-> IF S = {} THEN b ELSE EvictDown(refused, g[S \ {Max(S)}], q[Max(S)])]
  BY <1>1, <1>2 DEF IsFold
<1> DEFINE h == CHOOSE k : k = [S \in SUBSET (1 .. L) |-> IF S = {} THEN b ELSE EvictDown(refused, k[S \ {Max(S)}], q[Max(S)])]
<1>4. h = [S \in SUBSET (1 .. L) |-> IF S = {} THEN b ELSE EvictDown(refused, h[S \ {Max(S)}], q[Max(S)])]
  BY <1>3
<1>5. EvictEach(refused, b, q) = h[1 .. L]
  BY DEF EvictEach, FoldLeft, MapThenFoldSet
<1> HIDE DEF h
<1>6. ASSUME NEW n \in 1 .. L PROVE h[1 .. n] = EvictDown(refused, h[1 .. n - 1], q[n])
  <2>1. 1 .. n \in SUBSET (1 .. L) /\ 1 .. n # {} /\ Max(1 .. n) = n /\ (1 .. n) \ {n} = 1 .. n - 1
    BY PrefixIs
  <2> QED
    BY <1>4, <2>1
<1>7. h[{}] \in X /\ h[{}] \in D[0]
  BY <1>4
<1>8. \A n \in 1 .. L : h[1 .. n - 1] \in X =>
          h[1 .. n] \in X /\ (h[1 .. n - 1] \in D[n - 1] => h[1 .. n] \in D[n])
  BY <1>6
<1>9. h[1 .. L] \in X /\ h[1 .. L] \in D[L]
  BY <1>7, <1>8, LoopCarries
<1> QED
  BY <1>5, <1>9

-----------------------------------------------------------------------------
(* The sets of the functional cache.                                       *)

Entries == [line : Lines, dirty : BOOLEAN, mapped : BOOLEAN]

\* The contents that a set of n ways can have, and those of the sets of a cache.
LruSet(n) == {s \in Seq(Entries) : Len(s) <= n}
LruSets(c) == [0 .. Sets[c] - 1 -> LruSet(Ways[c])]

LEMMA SizesAre ==
    ASSUME NEW c \in Caches
    PROVE  /\ Sets[c] \in Nat \ {0} /\ Ways[c] \in Nat \ {0} /\ Latency[c] \in Nat \ {0}
           /\ MshrSize[c] \in Nat \ {0} /\ LoadPorts[c] \in Nat \ {0}
           /\ StorePorts[c] \in Nat \ {0}
  BY SizeAssumption

LEMMA SetOfIs ==
    ASSUME NEW c \in Caches, NEW l \in Lines
    PROVE  SetOf(c, l) \in 0 .. Sets[c] - 1
<1>1. Sets[c] \in Nat \ {0} /\ l \in Nat
  BY SizesAre, RequestsAssumption
<1> DEFINE n == Sets[c]
<1> HIDE DEF n
<1>2. n \in Nat \ {0}
  BY <1>1 DEF n
<1>3. l % n \in 0 .. n - 1
  BY <1>1, <1>2
<1> QED
  BY <1>3 DEF SetOf, n

\* addr_map.erase changes no entry but its mapping.
LEMMA UnmappedIs ==
    ASSUME NEW s \in Seq(Entries), NEW line
    PROVE  /\ Unmapped(s, line) \in Seq(Entries) /\ Len(Unmapped(s, line)) = Len(s)
           /\ \A i \in 1 .. Len(s) :
                 /\ Unmapped(s, line)[i].line = s[i].line
                 /\ Unmapped(s, line)[i].mapped = (s[i].mapped /\ s[i].line # line)
<1>1. Len(s) \in Nat /\ \A i \in 1 .. Len(s) : s[i] \in Entries
  BY LenProperties, ElementOfSeq
<1> DEFINE u == [i \in 1 .. Len(s) |->
                   IF s[i].line = line THEN [s[i] EXCEPT !.mapped = FALSE] ELSE s[i]]
<1>2. ASSUME NEW i \in 1 .. Len(s)
      PROVE  u[i] \in Entries /\ u[i].line = s[i].line
             /\ u[i].mapped = (s[i].mapped /\ s[i].line # line)
  <2>1. s[i] \in Entries
    BY <1>1
  <2>2. CASE s[i].line = line
    <3>1. u[i] = [s[i] EXCEPT !.mapped = FALSE]
      BY <2>2
    <3> QED
      BY <2>1, <2>2, <3>1 DEF Entries
  <2>3. CASE s[i].line # line
    <3>1. u[i] = s[i]
      BY <2>3
    <3> QED
      BY <2>1, <2>3, <3>1 DEF Entries
  <2> QED
    BY <2>2, <2>3
<1>3. u \in Seq(Entries) /\ Len(u) = Len(s)
  <2>1. u \in [1 .. Len(s) -> Entries]
    BY <1>2
  <2> HIDE DEF u
  <2> QED
    BY <1>1, <2>1
<1>4. Unmapped(s, line) = u
  BY DEF Unmapped
<1> HIDE DEF u
<1> QED
  BY <1>2, <1>3, <1>4

LEMMA RemoveIs ==
    ASSUME NEW S, NEW s \in Seq(S), NEW i \in 1 .. Len(s)
    PROVE  /\ RemoveAt(s, i) \in Seq(S) /\ Len(RemoveAt(s, i)) = Len(s) - 1
           /\ \A j \in 1 .. Len(s) - 1 : RemoveAt(s, i)[j] = IF j < i THEN s[j] ELSE s[j + 1]
<1> DEFINE t == 0
<1> HIDE DEF t
<1> QED
  BY TimesRemove

LEMMA AccessIs ==
    ASSUME NEW n \in Nat, NEW s \in LruSet(n), NEW line, NEW load \in BOOLEAN
    PROVE  access(s, line, load) \in LruSet(n)
<1>1. s \in Seq(Entries) /\ Len(s) \in Nat /\ Len(s) <= n
  BY LenProperties DEF LruSet
<1>2. CASE ~present(s, line)
  BY <1>2 DEF access
<1>3. CASE present(s, line)
  <2> DEFINE i == CHOOSE j \in MappedAt(s, line) : TRUE
             e == [s[i] EXCEPT !.dirty = @ \/ ~load]
             r == RemoveAt(s, i)
  <2>1. i \in MappedAt(s, line)
    BY <1>3 DEF present
  <2>2. i \in 1 .. Len(s)
    BY <2>1 DEF MappedAt
  <2>3. access(s, line, load) = <<e>> \o r
    BY <1>3 DEF access
  <2> HIDE DEF i
  <2>4. s[i] \in Entries
    BY <1>1, <2>2, ElementOfSeq
  <2>5. e \in Entries
    BY <2>4 DEF Entries
  <2>6. r \in Seq(Entries) /\ Len(r) = Len(s) - 1
    BY <1>1, <2>2, RemoveIs
  <2> HIDE DEF e, r
  <2>7. <<e>> \in Seq(Entries) /\ Len(<<e>>) = 1
    BY <2>5
  <2>8. <<e>> \o r \in Seq(Entries) /\ Len(<<e>> \o r) = Len(<<e>>) + Len(r)
    BY <2>6, <2>7, ConcatProperties
  <2> QED
    BY <1>1, <2>3, <2>6, <2>7, <2>8 DEF LruSet
<1> QED
  BY <1>2, <1>3

\* insert takes the tail away when no way is left.
LEMMA InsertIs ==
    ASSUME NEW n \in Nat \ {0}, NEW s \in LruSet(n), NEW line \in Lines, NEW load \in BOOLEAN
    PROVE  insert(s, line, load, n) \in LruSet(n)
<1>1. s \in Seq(Entries) /\ Len(s) \in Nat /\ Len(s) <= n
  BY LenProperties DEF LruSet
<1> DEFINE v == Surviving(s, n)  u == Unmapped(v, line)  e == Entry(line, ~load)
<1>2. v \in Seq(Entries) /\ Len(v) <= n - 1
  <2>1. CASE Len(s) < n
    <3>1. v = s
      BY <2>1 DEF Surviving
    <3> QED
      BY <1>1, <2>1, <3>1
  <2>2. CASE ~(Len(s) < n)
    <3>1. Len(s) = n /\ s # <<>>
      BY <1>1, <2>2
    <3>2. Front(s) \in Seq(Entries) /\ Len(Front(s)) = Len(s) - 1
      BY <1>1, <3>1, SubSeqProperties DEF Front
    <3>3. v = Unmapped(Front(s), Last(s).line)
      BY <2>2 DEF Surviving
    <3>4. v \in Seq(Entries) /\ Len(v) = Len(Front(s))
      BY <3>2, <3>3, UnmappedIs
    <3> QED
      BY <3>1, <3>2, <3>4
  <2> QED
    BY <2>1, <2>2
<1> HIDE DEF v
<1>3. u \in Seq(Entries) /\ Len(u) = Len(v)
  BY <1>2, UnmappedIs
<1>4. e \in Entries
  BY DEF Entry, Entries
<1>5. insert(s, line, load, n) = <<e>> \o u
  BY DEF insert, v
<1> HIDE DEF u, e
<1>6. <<e>> \in Seq(Entries) /\ Len(<<e>>) = 1
  BY <1>4
<1>7. <<e>> \o u \in Seq(Entries) /\ Len(<<e>> \o u) = Len(<<e>>) + Len(u)
  BY <1>3, <1>6, ConcatProperties
<1>8. Len(v) \in Nat
  BY <1>2, LenProperties
<1>9. Len(<<e>> \o u) <= n
  BY <1>2, <1>3, <1>6, <1>7, <1>8
<1> QED
  BY <1>5, <1>7, <1>9 DEF LruSet

LEMMA InvalidateIs ==
    ASSUME NEW n \in Nat, NEW s \in LruSet(n), NEW line
    PROVE  invalidate(s, line) \in LruSet(n)
<1>1. s \in Seq(Entries) /\ Len(s) \in Nat /\ Len(s) <= n
  BY LenProperties DEF LruSet
<1>2. CASE ~present(s, line)
  BY <1>2 DEF invalidate
<1>3. CASE present(s, line)
  <2> DEFINE i == CHOOSE j \in MappedAt(s, line) : TRUE
  <2>1. i \in MappedAt(s, line)
    BY <1>3 DEF present
  <2>2. i \in 1 .. Len(s)
    BY <2>1 DEF MappedAt
  <2>3. invalidate(s, line) = RemoveAt(s, i)
    BY <1>3 DEF invalidate
  <2> HIDE DEF i
  <2>4. RemoveAt(s, i) \in Seq(Entries) /\ Len(RemoveAt(s, i)) = Len(s) - 1
    BY <1>1, <2>2, RemoveIs
  <2> QED
    BY <1>1, <2>3, <2>4 DEF LruSet
<1> QED
  BY <1>2, <1>3

\* The victim has the form of an eviction.
\* A set that holds no line twice, and whose lines are all mapped.
Tidy(s) ==
    \A i, j \in 1 .. Len(s) : s[i].mapped /\ (s[i].line = s[j].line => i = j)

LinesIn(s) == {s[i].line : i \in 1 .. Len(s)}

LEMMA AbsentIs ==
    ASSUME NEW s, Tidy(s), NEW line, ~present(s, line)
    PROVE  line \notin LinesIn(s)
  BY DEF present, MappedAt, Tidy, LinesIn

LEMMA RemoveTidy ==
    ASSUME NEW s \in Seq(Entries), Tidy(s), NEW i \in 1 .. Len(s)
    PROVE  /\ Tidy(RemoveAt(s, i))
           /\ LinesIn(RemoveAt(s, i)) \subseteq LinesIn(s) \ {s[i].line}
           /\ LinesIn(s) \ {s[i].line} \subseteq LinesIn(RemoveAt(s, i))
<1> DEFINE r == RemoveAt(s, i)
<1>1. /\ r \in Seq(Entries) /\ Len(r) = Len(s) - 1 /\ Len(s) \in Nat
      /\ \A j \in 1 .. Len(s) - 1 : r[j] = IF j < i THEN s[j] ELSE s[j + 1]
  BY RemoveIs, LenProperties
<1> HIDE DEF r
<1>2. ASSUME NEW j \in 1 .. Len(r)
      PROVE  \E k \in 1 .. Len(s) : k # i /\ r[j] = s[k] /\ (k = j \/ k = j + 1) /\ (k = j <=> j < i)
  <2>1. CASE j < i
    BY <1>1, <2>1
  <2>2. CASE ~(j < i)
    <3>1. r[j] = s[j + 1] /\ j + 1 \in 1 .. Len(s) /\ j + 1 # i /\ j + 1 # j
      BY <1>1, <2>2
    <3> QED
      BY <2>2, <3>1
  <2> QED
    BY <2>1, <2>2
<1>3. ASSUME NEW j \in 1 .. Len(r), NEW k \in 1 .. Len(r)
      PROVE  r[j].mapped /\ (r[j].line = r[k].line => j = k)
  <2>1. PICK a \in 1 .. Len(s) : a # i /\ r[j] = s[a] /\ (a = j \/ a = j + 1) /\ (a = j <=> j < i)
    BY <1>2
  <2>2. PICK b \in 1 .. Len(s) : b # i /\ r[k] = s[b] /\ (b = k \/ b = k + 1) /\ (b = k <=> k < i)
    BY <1>2
  <2>3. r[j].mapped /\ (r[j].line = r[k].line => a = b)
    BY <2>1, <2>2 DEF Tidy
  <2>4. a = b => j = k
    BY <1>1, <2>1, <2>2
  <2> QED
    BY <2>3, <2>4
<1>4. LinesIn(r) \subseteq LinesIn(s) \ {s[i].line}
  <2>1. SUFFICES ASSUME NEW j \in 1 .. Len(r) PROVE r[j].line \in LinesIn(s) /\ r[j].line # s[i].line
    BY DEF LinesIn
  <2>2. PICK a \in 1 .. Len(s) : a # i /\ r[j] = s[a]
    BY <1>2
  <2> QED
    BY <2>2 DEF LinesIn, Tidy
<1>5. LinesIn(s) \ {s[i].line} \subseteq LinesIn(r)
  <2>1. SUFFICES ASSUME NEW a \in 1 .. Len(s), a # i PROVE \E j \in 1 .. Len(r) : r[j] = s[a]
    BY DEF LinesIn
  <2>2. CASE a < i
    BY <1>1, <2>2
  <2>3. CASE a > i
    <3>1. a - 1 \in 1 .. Len(r) /\ ~(a - 1 < i) /\ (a - 1) + 1 = a
      BY <1>1, <2>3
    <3> QED
      BY <1>1, <3>1
  <2> QED
    BY <1>1, <2>1, <2>2, <2>3
<1> QED
  BY <1>3, <1>4, <1>5 DEF Tidy, r

LEMMA PrependTidy ==
    ASSUME NEW r \in Seq(Entries), Tidy(r), NEW e \in Entries, e.mapped, e.line \notin LinesIn(r)
    PROVE  Tidy(<<e>> \o r) /\ LinesIn(<<e>> \o r) = LinesIn(r) \cup {e.line}
<1> DEFINE u == <<e>> \o r
<1>1. <<e>> \in Seq(Entries) /\ Len(<<e>>) = 1 /\ <<e>>[1] = e /\ Len(r) \in Nat
  BY LenProperties
<1>2. /\ Len(u) = Len(r) + 1
      /\ \A k \in 1 .. Len(r) + 1 : u[k] = IF k <= 1 THEN <<e>>[k] ELSE r[k - 1]
  BY <1>1, ConcatProperties
<1> HIDE DEF u
<1>3. u[1] = e /\ \A k \in 1 .. Len(r) : u[k + 1] = r[k]
  <2>1. u[1] = e
    BY <1>1, <1>2
  <2>2. ASSUME NEW k \in 1 .. Len(r) PROVE u[k + 1] = r[k]
    <3>1. k + 1 \in 1 .. Len(r) + 1 /\ ~(k + 1 <= 1) /\ (k + 1) - 1 = k
      BY <1>1
    <3> QED
      BY <1>2, <3>1
  <2> QED
    BY <2>1, <2>2
<1>4. ASSUME NEW k \in 1 .. Len(u) PROVE k = 1 \/ \E a \in 1 .. Len(r) : k = a + 1
  <2>1. k = 1 \/ (k - 1 \in 1 .. Len(r) /\ k = (k - 1) + 1)
    BY <1>1, <1>2
  <2> QED
    BY <2>1
<1>5. \A a \in 1 .. Len(r) : r[a].line # e.line /\ r[a].mapped
  BY DEF LinesIn, Tidy
<1>6. ASSUME NEW j \in 1 .. Len(u), NEW k \in 1 .. Len(u)
      PROVE  u[j].mapped /\ (u[j].line = u[k].line => j = k)
  <2>1. CASE j = 1
    <3>1. k = 1 \/ u[k].line # e.line
      BY <1>3, <1>4, <1>5
    <3> QED
      BY <1>3, <2>1, <3>1
  <2>2. CASE j # 1
    <3>1. PICK a \in 1 .. Len(r) : j = a + 1
      BY <1>4, <2>2
    <3>2. u[j] = r[a]
      BY <1>3, <3>1
    <3>3. CASE k = 1
      BY <1>3, <1>5, <3>2, <3>3
    <3>4. CASE k # 1
      <4>1. PICK b \in 1 .. Len(r) : k = b + 1
        BY <1>4, <3>4
      <4>2. u[k] = r[b]
        BY <1>3, <4>1
      <4> QED
        BY <3>1, <3>2, <4>1, <4>2 DEF Tidy
    <3> QED
      BY <3>3, <3>4
  <2> QED
    BY <2>1, <2>2
<1>7. LinesIn(u) = LinesIn(r) \cup {e.line}
  <2>1. ASSUME NEW k \in 1 .. Len(u) PROVE u[k].line \in LinesIn(r) \cup {e.line}
    BY <1>3, <1>4 DEF LinesIn
  <2>2. e.line \in LinesIn(u)
    <3>1. 1 \in 1 .. Len(u)
      BY <1>1, <1>2
    <3> QED
      BY <1>3, <3>1 DEF LinesIn
  <2>3. ASSUME NEW a \in 1 .. Len(r) PROVE r[a].line \in LinesIn(u)
    <3>1. a + 1 \in 1 .. Len(u)
      BY <1>1, <1>2
    <3> QED
      BY <1>3, <3>1 DEF LinesIn
  <2>4. LinesIn(u) \subseteq LinesIn(r) \cup {e.line}
    BY <2>1 DEF LinesIn
  <2>5. LinesIn(r) \subseteq LinesIn(u)
    BY <2>3 DEF LinesIn
  <2> QED
    BY <2>2, <2>4, <2>5
<1> QED
  BY <1>6, <1>7 DEF Tidy, u

\* A hit moves the line's only entry to the front.
LEMMA AccessTidy ==
    ASSUME NEW s \in Seq(Entries), Tidy(s), NEW line, NEW load \in BOOLEAN
    PROVE  Tidy(access(s, line, load)) /\ LinesIn(access(s, line, load)) = LinesIn(s)
<1>1. CASE ~present(s, line)
  BY <1>1 DEF access
<1>2. CASE present(s, line)
  <2> DEFINE i == CHOOSE j \in MappedAt(s, line) : TRUE
             e == [s[i] EXCEPT !.dirty = @ \/ ~load]
             r == RemoveAt(s, i)
  <2>1. i \in MappedAt(s, line)
    BY <1>2 DEF present
  <2>2. i \in 1 .. Len(s)
    BY <2>1 DEF MappedAt
  <2>3. access(s, line, load) = <<e>> \o r
    BY <1>2 DEF access
  <2> HIDE DEF i
  <2>4. s[i] \in Entries /\ s[i].line \in LinesIn(s) /\ s[i].mapped
    BY <2>2, ElementOfSeq DEF LinesIn, Tidy
  <2>5. e \in Entries /\ e.mapped /\ e.line = s[i].line
    BY <2>4 DEF Entries
  <2>6. /\ r \in Seq(Entries) /\ Tidy(r) /\ LinesIn(r) \subseteq LinesIn(s) \ {s[i].line}
        /\ LinesIn(s) \ {s[i].line} \subseteq LinesIn(r)
    BY <2>2, RemoveIs, RemoveTidy
  <2> HIDE DEF e, r
  <2>7. Tidy(<<e>> \o r) /\ LinesIn(<<e>> \o r) = LinesIn(r) \cup {e.line}
    BY <2>5, <2>6, PrependTidy
  <2>8. LinesIn(r) \cup {e.line} = LinesIn(s)
    BY <2>4, <2>5, <2>6
  <2> QED
    BY <2>3, <2>7, <2>8
<1> QED
  BY <1>1, <1>2

\* Erasing from addr_map a line that is not there changes nothing.
LEMMA UnmappedTidy ==
    ASSUME NEW s \in Seq(Entries), Tidy(s), NEW line, line \notin LinesIn(s)
    PROVE  Tidy(Unmapped(s, line)) /\ LinesIn(Unmapped(s, line)) = LinesIn(s)
<1> DEFINE u == Unmapped(s, line)
<1>1. Len(u) = Len(s) /\ \A i \in 1 .. Len(s) :
         u[i].line = s[i].line /\ u[i].mapped = (s[i].mapped /\ s[i].line # line)
  BY UnmappedIs
<1> HIDE DEF u
<1>2. \A i \in 1 .. Len(s) : s[i].line # line /\ s[i].mapped
  BY DEF LinesIn, Tidy
<1>3. Tidy(u)
  <2>1. ASSUME NEW i \in 1 .. Len(u) PROVE u[i].mapped
    <3>1. u[i].mapped = (s[i].mapped /\ s[i].line # line)
      BY <1>1
    <3>2. s[i].mapped /\ s[i].line # line
      BY <1>1, <1>2
    <3> QED
      BY <3>1, <3>2
  <2>2. \A i, j \in 1 .. Len(u) : u[i].line = u[j].line => i = j
    BY <1>1 DEF Tidy
  <2> QED
    BY <2>1, <2>2 DEF Tidy
<1>4. LinesIn(u) = LinesIn(s)
  BY <1>1 DEF LinesIn
<1> QED
  BY <1>3, <1>4 DEF u

\* A line that was not there is put in front of what survives.
LEMMA InsertTidy ==
    ASSUME NEW n \in Nat \ {0}, NEW s \in LruSet(n), Tidy(s), NEW line \in Lines,
           line \notin LinesIn(s), NEW load \in BOOLEAN
    PROVE  /\ Tidy(insert(s, line, load, n))
           /\ LinesIn(insert(s, line, load, n)) \subseteq LinesIn(s) \cup {line}
<1>1. s \in Seq(Entries) /\ Len(s) \in Nat /\ Len(s) <= n
  BY LenProperties DEF LruSet
<1> DEFINE v == Surviving(s, n)  u == Unmapped(v, line)  e == Entry(line, ~load)
<1>2. v \in Seq(Entries) /\ Tidy(v) /\ LinesIn(v) \subseteq LinesIn(s)
  <2>1. CASE Len(s) < n
    <3>1. v = s
      BY <2>1 DEF Surviving
    <3> HIDE DEF v
    <3> QED
      BY <1>1, <3>1
  <2>2. CASE ~(Len(s) < n)
    <3> DEFINE f == Front(s)
    <3>1. Len(s) = n /\ s # <<>>
      BY <1>1, <2>2
    <3>2. f \in Seq(Entries) /\ Len(f) = Len(s) - 1 /\ \A i \in 1 .. Len(s) - 1 : f[i] = s[i]
      BY <1>1, <3>1, SubSeqProperties DEF Front
    <3>3. v = Unmapped(f, Last(s).line) /\ Last(s) = s[Len(s)]
      BY <2>2 DEF Surviving, Last
    <3> HIDE DEF f, v
    <3>4. Tidy(f) /\ LinesIn(f) \subseteq LinesIn(s)
      <4>1. \A i \in 1 .. Len(f) : i \in 1 .. Len(s) /\ f[i] = s[i]
        BY <1>1, <3>2
      <4> QED
        BY <4>1 DEF Tidy, LinesIn
    <3>5. Last(s).line \notin LinesIn(f)
      <4>1. SUFFICES ASSUME NEW i \in 1 .. Len(f) PROVE f[i].line # s[Len(s)].line
        BY <3>3 DEF LinesIn
      <4>2. i \in 1 .. Len(s) /\ Len(s) \in 1 .. Len(s) /\ i # Len(s) /\ f[i] = s[i]
        BY <1>1, <3>2
      <4> QED
        BY <4>2 DEF Tidy
    <3> QED
      BY <3>2, <3>3, <3>4, <3>5, UnmappedTidy, UnmappedIs
  <2> QED
    BY <2>1, <2>2
<1> HIDE DEF v
<1>3. line \notin LinesIn(v)
  BY <1>2
<1>4. u \in Seq(Entries) /\ Tidy(u) /\ LinesIn(u) = LinesIn(v)
  BY <1>2, <1>3, UnmappedIs, UnmappedTidy
<1>5. e \in Entries /\ e.mapped /\ e.line = line
  BY DEF Entry, Entries
<1>6. insert(s, line, load, n) = <<e>> \o u
  BY DEF insert, v
<1> HIDE DEF u, e
<1>7. Tidy(<<e>> \o u) /\ LinesIn(<<e>> \o u) = LinesIn(u) \cup {e.line}
  BY <1>3, <1>4, <1>5, PrependTidy
<1>8. LinesIn(<<e>> \o u) \subseteq LinesIn(s) \cup {line}
  BY <1>2, <1>4, <1>5, <1>7
<1> QED
  BY <1>6, <1>7, <1>8

LEMMA InvalidateTidy ==
    ASSUME NEW s \in Seq(Entries), Tidy(s), NEW line
    PROVE  Tidy(invalidate(s, line)) /\ LinesIn(invalidate(s, line)) \subseteq LinesIn(s)
<1>1. CASE ~present(s, line)
  BY <1>1 DEF invalidate
<1>2. CASE present(s, line)
  <2> DEFINE i == CHOOSE j \in MappedAt(s, line) : TRUE
  <2>1. i \in MappedAt(s, line)
    BY <1>2 DEF present
  <2>2. i \in 1 .. Len(s)
    BY <2>1 DEF MappedAt
  <2>3. invalidate(s, line) = RemoveAt(s, i)
    BY <1>2 DEF invalidate
  <2> HIDE DEF i
  <2>4. Tidy(RemoveAt(s, i)) /\ LinesIn(RemoveAt(s, i)) \subseteq LinesIn(s)
    BY <2>2, RemoveTidy
  <2> QED
    BY <2>3, <2>4
<1> QED
  BY <1>1, <1>2

\* The lines that a cache has.
LinesOf(c, f) == {l \in Lines : l \in LinesIn(f[SetOf(c, l)])}

AllTidy(c, f) == \A s \in 0 .. Sets[c] - 1 : Tidy(f[s])

Victim == [line : Lines, dirty : BOOLEAN]

LEMMA LastIs ==
    ASSUME NEW s \in Seq(Entries), s # <<>>
    PROVE  [line |-> Last(s).line, dirty |-> Last(s).dirty] \in Victim
<1>1. Len(s) \in 1 .. Len(s)
  BY LenProperties, EmptySeq
<1>2. s[Len(s)] \in Entries
  BY <1>1, ElementOfSeq
<1> QED
  BY <1>2 DEF Last, Entries, Victim

-----------------------------------------------------------------------------
(* The inductive invariant.                                                *)

Evictions == {EvictOf(l) : l \in Lines}
Down(c) == SeenBy(c) \cup Evictions
Piping(c) == [t : Down(c), hit : BOOLEAN, due : Nat, conflict : BOOLEAN]
OnLine(S, l) == {t \in S : t.line = l}

\* m gives for each line a sequence of transactions of S for it.
PerLine(S, m) == m \in [Lines -> Seq(S)] /\ \A l \in Lines : m[l] \in Seq(OnLine(S, l))

Entered(m) == {l \in Lines : m[l] # <<>>}
MshrFits(c, m) == PerLine(SeenBy(c), m) /\ IsFiniteSet(Entered(m)) /\ MshrUsed(m) <= MshrSize[c]

\* The contents of all caches.
Lrus == {f \in [Caches -> UNION {LruSets(c) : c \in Caches}] : \A c \in Caches : f[c] \in LruSets(c)}

\* The state of one cache.
CacheType(c) ==
    /\ inReq[c] \in Seq(Down(c)) /\ outReq[c] \in Seq(Down(c))
    /\ stalled[c] \in Seq(SeenBy(c)) /\ inResp[c] \in Seq(SeenBy(c))
    /\ outResp[c] \in Seq(SeenBy(c))
    /\ pq[c] \in Seq(Piping(c))
    /\ MshrFits(c, mshr[c])
    /\ evicts[c] \in Seq(Victim)
    /\ freeLd[c] \in 0 .. LoadPorts[c] /\ freeSt[c] \in 0 .. StorePorts[c]

\* Every variable with a value per cache has one for each.
PerCache ==
    /\ DOMAIN inReq = Caches /\ DOMAIN outReq = Caches /\ DOMAIN stalled = Caches
    /\ DOMAIN inResp = Caches /\ DOMAIN outResp = Caches /\ DOMAIN pq = Caches
    /\ DOMAIN mshr = Caches /\ DOMAIN evicts = Caches /\ lru \in Lrus
    /\ DOMAIN freeLd = Caches /\ DOMAIN freeSt = Caches

ClientType == issued \in Nat /\ issued <= MaxRequests /\ waiting \subseteq Made

DramType ==
    /\ PerLine(Made, dramReads) /\ dramWrites \in [Lines -> Nat]
    /\ freeRd \in Int /\ freeWr \in 0 .. WritePorts

CType == ClientType /\ DramType /\ PerCache /\ \A c \in Caches : CacheType(c)

CInv == CType /\ AnsweredExactlyOnce /\ OneFillPerEntry

\* Transactions, and the caches that see them.
LEMMA MadeIs ==
    ASSUME NEW t \in Made
    PROVE  /\ t.line \in Lines /\ t.load \in BOOLEAN /\ t.port \in {"L1I", "L1D", "DMA"}
           /\ Owner(t) \in Caches /\ t \in SeenBy(Owner(t)) /\ t \in SeenBy("L2")
           /\ t \notin Evictions
           /\ \A c \in L1s : t \in SeenBy(c) <=> Owner(t) = c
<1>1. PICK n \in 1 .. issued, r \in Requests : t = Transaction(n, r)
  BY DEF Made
<1>2. t.line \in Lines /\ t.load \in BOOLEAN /\ t.port \in {"L1I", "L1D", "DMA"}
  BY <1>1, RequestsAssumption DEF Transaction
<1>3. t \notin Evictions
  BY <1>2 DEF Evictions, EvictOf
<1> QED
  BY <1>2, <1>3 DEF Owner, SeenBy, Caches, L1s

LEMMA SeenIs ==
    ASSUME NEW c \in Caches, NEW t \in SeenBy(c)
    PROVE  /\ t \in Made /\ t \in Down(c) /\ t.line \in Lines /\ t.load \in BOOLEAN
           /\ t.port # "evict"
           /\ \A d \in Caches : d # c /\ t \in SeenBy(d) => d = "L2" \/ c = "L2"
<1>1. t \in Made
  BY DEF SeenBy
<1> QED
  BY <1>1, MadeIs DEF SeenBy, Down

LEMMA DownIs ==
    ASSUME NEW c \in Caches, NEW t \in Down(c)
    PROVE  /\ t.line \in Lines /\ t.load \in BOOLEAN
           /\ t.port # "evict" => t \in SeenBy(c)
           /\ t.port = "evict" => t \notin Made
<1>1. CASE t \in SeenBy(c)
  BY <1>1, SeenIs
<1>2. CASE t \notin SeenBy(c)
  <2>1. PICK l \in Lines : t = EvictOf(l)
    BY <1>2 DEF Down, Evictions
  <2>2. t \in Evictions
    BY <2>1 DEF Evictions
  <2> QED
    BY <2>1, <2>2, MadeIs DEF EvictOf
<1> QED
  BY <1>1, <1>2

\* Sequences over a set are sequences over any larger one.
LEMMA SeqGrows ==
    ASSUME NEW S, NEW T, S \subseteq T, NEW s \in Seq(S)
    PROVE  s \in Seq(T)
<1>1. s \in [1 .. Len(s) -> S] /\ Len(s) \in Nat
  BY LenProperties
<1>2. s \in [1 .. Len(s) -> T]
  BY <1>1
<1> QED
  BY <1>1, <1>2

\* The transactions in the pipeline; time and eviction conflicts do not change them.
LEMMA PipedIs ==
    ASSUME NEW c \in Caches, NEW q \in Seq(Piping(c))
    PROVE  /\ Piped(q) \in Seq(Down(c)) /\ Len(Piped(q)) = Len(q)
           /\ \A i \in 1 .. Len(q) : Piped(q)[i] = q[i].t
<1>1. Len(q) \in Nat /\ \A i \in 1 .. Len(q) : q[i].t \in Down(c)
  <2>1. Len(q) \in Nat /\ \A i \in 1 .. Len(q) : q[i] \in Piping(c)
    BY LenProperties, ElementOfSeq
  <2> QED
    BY <2>1 DEF Piping
<1> DEFINE u == [i \in 1 .. Len(q) |-> q[i].t]
<1>2. u \in [1 .. Len(q) -> Down(c)]
  BY <1>1
<1>3. u \in Seq(Down(c)) /\ Len(u) = Len(q)
  <2> HIDE DEF u
  <2> QED
    BY <1>1, <1>2
<1> QED
  BY <1>3 DEF Piped

LEMMA PipedAppend ==
    ASSUME NEW c \in Caches, NEW q \in Seq(Piping(c)), NEW e \in Piping(c)
    PROVE  Piped(Append(q, e)) = Append(Piped(q), e.t)
<1> DEFINE u == Append(q, e)  v == Append(Piped(q), e.t)
<1>1. u \in Seq(Piping(c)) /\ Len(u) = Len(q) + 1 /\ u[Len(q) + 1] = e
      /\ \A i \in 1 .. Len(q) : u[i] = q[i]
  BY AppendProperties
<1>2. e.t \in Down(c) /\ Len(q) \in Nat
  BY LenProperties DEF Piping
<1>3. Piped(q) \in Seq(Down(c)) /\ Len(Piped(q)) = Len(q) /\ \A i \in 1 .. Len(q) : Piped(q)[i] = q[i].t
  BY PipedIs
<1>4. v \in Seq(Down(c)) /\ Len(v) = Len(q) + 1 /\ v[Len(q) + 1] = e.t
      /\ \A i \in 1 .. Len(q) : v[i] = q[i].t
  BY <1>2, <1>3, AppendProperties
<1> HIDE DEF u, v
<1>5. Piped(u) \in Seq(Down(c)) /\ Len(Piped(u)) = Len(q) + 1
      /\ \A i \in 1 .. Len(q) + 1 : Piped(u)[i] = u[i].t
  BY <1>1, PipedIs
<1>6. ASSUME NEW i \in 1 .. Len(q) + 1 PROVE Piped(u)[i] = v[i]
  <2>1. CASE i = Len(q) + 1
    BY <1>1, <1>4, <1>5, <2>1
  <2>2. CASE i # Len(q) + 1
    <3>1. i \in 1 .. Len(q)
      BY <1>2, <2>2
    <3> QED
      BY <1>1, <1>4, <1>5, <3>1
  <2> QED
    BY <2>1, <2>2
<1> HIDE DEF Piped
<1>7. Piped(u) = v
  BY <1>4, <1>5, <1>6, SeqEqual
<1> QED
  BY <1>7 DEF u, v

LEMMA PipedRemove ==
    ASSUME NEW c \in Caches, NEW q \in Seq(Piping(c)), NEW i \in 1 .. Len(q)
    PROVE  Piped(RemoveAt(q, i)) = RemoveAt(Piped(q), i)
<1> DEFINE u == RemoveAt(q, i)  p == Piped(q)  v == RemoveAt(p, i)  n == Len(q)
<1>1. n \in Nat /\ u \in Seq(Piping(c)) /\ Len(u) = n - 1
      /\ \A j \in 1 .. n - 1 : u[j] = IF j < i THEN q[j] ELSE q[j + 1]
  BY LenProperties, RemoveIs
<1>2. p \in Seq(Down(c)) /\ Len(p) = n /\ \A j \in 1 .. n : p[j] = q[j].t
  BY PipedIs
<1> HIDE DEF p
<1>3. v \in Seq(Down(c)) /\ Len(v) = n - 1
      /\ \A j \in 1 .. n - 1 : v[j] = IF j < i THEN p[j] ELSE p[j + 1]
  BY <1>2, RemoveIs
<1> HIDE DEF u, v
<1>4. Piped(u) \in Seq(Down(c)) /\ Len(Piped(u)) = n - 1 /\ \A j \in 1 .. n - 1 : Piped(u)[j] = u[j].t
  BY <1>1, PipedIs
<1> HIDE DEF n
<1>5. ASSUME NEW j \in 1 .. n - 1 PROVE Piped(u)[j] = v[j]
  <2>1. j \in 1 .. n /\ j + 1 \in 1 .. n
    BY <1>1
  <2> QED
    BY <1>1, <1>2, <1>3, <1>4, <2>1
<1>6. Piped(u) = v
  BY <1>3, <1>4, <1>5, SeqEqual
<1> QED
  BY <1>6 DEF u, v, p

LEMMA PipedAged ==
    ASSUME NEW c \in Caches, NEW q \in Seq(Piping(c))
    PROVE  Aged(q) \in Seq(Piping(c)) /\ Piped(Aged(q)) = Piped(q)
<1>1. Len(q) \in Nat /\ \A i \in 1 .. Len(q) : q[i] \in Piping(c)
  BY LenProperties, ElementOfSeq
<1> DEFINE u == [i \in 1 .. Len(q) |-> [q[i] EXCEPT !.due = IF @ > 0 THEN @ - 1 ELSE 0]]
<1>2. ASSUME NEW i \in 1 .. Len(q) PROVE u[i] \in Piping(c) /\ u[i].t = q[i].t
  <2>1. q[i] \in Piping(c) /\ u[i] = [q[i] EXCEPT !.due = IF @ > 0 THEN @ - 1 ELSE 0]
    BY <1>1
  <2> HIDE DEF u
  <2>2. (IF q[i].due > 0 THEN q[i].due - 1 ELSE 0) \in Nat
    BY <2>1 DEF Piping
  <2> QED
    BY <2>1, <2>2 DEF Piping
<1>3. u \in Seq(Piping(c)) /\ Len(u) = Len(q)
  <2>1. u \in [1 .. Len(q) -> Piping(c)]
    BY <1>2
  <2> HIDE DEF u
  <2> QED
    BY <1>1, <2>1
<1>4. Aged(q) = u
  BY DEF Aged
<1> HIDE DEF u
<1>5. Piped(u) = Piped(q)
  BY <1>2, <1>3 DEF Piped
<1> QED
  BY <1>3, <1>4, <1>5

LEMMA PipedFlagged ==
    ASSUME NEW c \in Caches, NEW q \in Seq(Piping(c)), NEW line
    PROVE  Flagged(q, line) \in Seq(Piping(c)) /\ Piped(Flagged(q, line)) = Piped(q)
<1>1. Len(q) \in Nat /\ \A i \in 1 .. Len(q) : q[i] \in Piping(c)
  BY LenProperties, ElementOfSeq
<1> DEFINE u == [i \in 1 .. Len(q) |->
                   IF q[i].t.line = line THEN [q[i] EXCEPT !.conflict = TRUE] ELSE q[i]]
<1>2. ASSUME NEW i \in 1 .. Len(q) PROVE u[i] \in Piping(c) /\ u[i].t = q[i].t
  <2>1. q[i] \in Piping(c)
        /\ u[i] = IF q[i].t.line = line THEN [q[i] EXCEPT !.conflict = TRUE] ELSE q[i]
    BY <1>1
  <2> HIDE DEF u
  <2> QED
    BY <2>1 DEF Piping
<1>3. u \in Seq(Piping(c)) /\ Len(u) = Len(q)
  <2>1. u \in [1 .. Len(q) -> Piping(c)]
    BY <1>2
  <2> HIDE DEF u
  <2> QED
    BY <1>1, <2>1
<1>4. Flagged(q, line) = u
  BY DEF Flagged
<1> HIDE DEF u
<1>5. Piped(u) = Piped(q)
  BY <1>2, <1>3 DEF Piped
<1> QED
  BY <1>3, <1>4, <1>5

\* Of the transactions of an entry one was appended, or the entry was emptied.
LEMMA PerLineAppend ==
    ASSUME NEW S, NEW m, PerLine(S, m), NEW t \in S, t.line \in Lines,
           \A u \in S : u.line \in Lines
    PROVE  LET k == [m EXCEPT ![t.line] = Append(@, t)] IN
           /\ PerLine(S, k)
           /\ \A l \in Lines : k[l] = IF l = t.line THEN Append(m[l], t) ELSE m[l]
           /\ Entered(k) = Entered(m) \cup {t.line}
           /\ \A u \in S : Times(u, k[u.line]) = Times(u, m[u.line]) + Is(t, u)
           /\ \A u \in S : Leads(k, u) <=> Leads(m, u) \/ (u = t /\ m[t.line] = <<>>)
<1> DEFINE k == [m EXCEPT ![t.line] = Append(@, t)]  l0 == t.line
<1>1. m \in [Lines -> Seq(S)] /\ \A l \in Lines : m[l] \in Seq(OnLine(S, l)) /\ m[l] \in Seq(S)
  BY DEF PerLine
<1>2. \A l \in Lines : k[l] = IF l = l0 THEN Append(m[l], t) ELSE m[l]
  BY <1>1
<1>3. t \in OnLine(S, l0) /\ l0 \in Lines
  BY DEF OnLine
<1>4. Append(m[l0], t) \in Seq(OnLine(S, l0)) /\ Append(m[l0], t) \in Seq(S) /\ Append(m[l0], t) # <<>>
      /\ Len(Append(m[l0], t)) = Len(m[l0]) + 1
      /\ (m[l0] # <<>> => Head(Append(m[l0], t)) = Head(m[l0]))
      /\ (m[l0] = <<>> => Head(Append(m[l0], t)) = t)
  <2> DEFINE s == m[l0]  a == Append(s, t)
  <2>1. s \in Seq(OnLine(S, l0)) /\ s \in Seq(S)
    BY <1>1, <1>3
  <2> HIDE DEF s
  <2>2. a \in Seq(OnLine(S, l0)) /\ a \in Seq(S)
    BY <1>3, <2>1, AppendProperties
  <2>3. Len(a) = Len(s) + 1 /\ a[Len(s) + 1] = t /\ \A i \in 1 .. Len(s) : a[i] = s[i]
    BY <2>1, AppendProperties
  <2>4. Len(s) \in Nat /\ (s = <<>> <=> Len(s) = 0)
    BY <2>1, LenProperties, EmptySeq
  <2>5. Len(a) \in Nat /\ (a = <<>> <=> Len(a) = 0)
    BY <2>2, LenProperties, EmptySeq
  <2> HIDE DEF a
  <2>6. Head(a) = a[1] /\ Head(s) = s[1]
    OBVIOUS
  <2>7. s # <<>> => 1 \in 1 .. Len(s)
    BY <2>4
  <2> QED
    BY <2>2, <2>3, <2>4, <2>5, <2>6, <2>7 DEF a, s
<1>5. k \in [Lines -> Seq(S)] /\ PerLine(S, k)
  <2>1. k \in [Lines -> Seq(S)]
    BY <1>1, <1>4
  <2> HIDE DEF k
  <2> QED
    BY <1>1, <1>2, <1>4, <2>1 DEF PerLine
<1> HIDE DEF k
<1>6. Entered(k) = Entered(m) \cup {l0}
  BY <1>2, <1>3, <1>4 DEF Entered
<1>7. ASSUME NEW u \in S PROVE Times(u, k[u.line]) = Times(u, m[u.line]) + Is(t, u)
  <2>1. u.line \in Lines
    OBVIOUS
  <2>2. CASE u.line = l0
    <3>1. Times(u, Append(m[l0], t)) = Times(u, m[l0]) + Is(t, u)
      BY <1>1, <1>3, TimesAppend
    <3> QED
      BY <1>2, <2>1, <2>2, <3>1
  <2>3. CASE u.line # l0
    <3>1. Is(t, u) = 0 /\ k[u.line] = m[u.line]
      BY <1>2, <2>1, <2>3 DEF Is
    <3>2. Times(u, m[u.line]) \in Nat
      BY <1>1, <2>1, TimesIs
    <3> QED
      BY <3>1, <3>2
  <2> QED
    BY <2>2, <2>3
<1>8. ASSUME NEW u \in S PROVE Leads(k, u) <=> Leads(m, u) \/ (u = t /\ m[t.line] = <<>>)
  <2>1. u.line \in Lines
    OBVIOUS
  <2>2. CASE u.line = l0
    <3>1. Leads(k, u) <=> Head(Append(m[l0], t)) = u
      BY <1>2, <1>4, <2>1, <2>2 DEF Leads
    <3>2. Leads(m, u) <=> m[l0] # <<>> /\ Head(m[l0]) = u
      BY <2>2 DEF Leads
    <3> QED
      BY <1>4, <3>1, <3>2
  <2>3. CASE u.line # l0
    BY <1>2, <2>1, <2>3 DEF Leads
  <2> QED
    BY <2>2, <2>3
<1> QED
  BY <1>2, <1>5, <1>6, <1>7, <1>8 DEF k

LEMMA PerLineEmptied ==
    ASSUME NEW S, NEW m, PerLine(S, m), NEW l0 \in Lines, \A u \in S : u.line \in Lines
    PROVE  LET k == [m EXCEPT ![l0] = <<>>] IN
           /\ PerLine(S, k)
           /\ \A l \in Lines : k[l] = IF l = l0 THEN <<>> ELSE m[l]
           /\ Entered(k) = Entered(m) \ {l0}
           /\ \A u \in S : Times(u, m[u.line]) = Times(u, k[u.line]) + Times(u, m[l0])
           /\ \A u \in S : Leads(k, u) <=> Leads(m, u) /\ u.line # l0
<1> DEFINE k == [m EXCEPT ![l0] = <<>>]
<1>1. m \in [Lines -> Seq(S)] /\ \A l \in Lines : m[l] \in Seq(OnLine(S, l)) /\ m[l] \in Seq(S)
  BY DEF PerLine
<1>2. \A l \in Lines : k[l] = IF l = l0 THEN <<>> ELSE m[l]
  BY <1>1
<1>3. PerLine(S, k)
  <2>1. k \in [Lines -> Seq(S)] /\ \A l \in Lines : <<>> \in Seq(OnLine(S, l))
    BY <1>1
  <2> HIDE DEF k
  <2> QED
    BY <1>1, <1>2, <2>1 DEF PerLine
<1> HIDE DEF k
<1>4. Entered(k) = Entered(m) \ {l0}
  BY <1>2 DEF Entered
<1>5. ASSUME NEW u \in S PROVE Times(u, m[u.line]) = Times(u, k[u.line]) + Times(u, m[l0])
  <2>1. u.line \in Lines /\ Times(u, m[u.line]) \in Nat /\ Times(u, <<>>) = 0
    BY <1>1, TimesIs, TimesEmpty
  <2>2. CASE u.line = l0
    BY <1>2, <2>1, <2>2
  <2>3. CASE u.line # l0
    <3>1. Times(u, m[l0]) \in Nat /\ (Times(u, m[l0]) > 0 <=> \E i \in 1 .. Len(m[l0]) : m[l0][i] = u)
      BY <1>1, TimesIs
    <3>2. \A i \in 1 .. Len(m[l0]) : m[l0][i] \in OnLine(S, l0)
      BY <1>1, ElementOfSeq
    <3>3. Times(u, m[l0]) = 0
      BY <2>3, <3>1, <3>2 DEF OnLine
    <3> QED
      BY <1>2, <2>1, <2>3, <3>3
  <2> QED
    BY <2>2, <2>3
<1>6. \A u \in S : Leads(k, u) <=> Leads(m, u) /\ u.line # l0
  BY <1>2 DEF Leads
<1> QED
  BY <1>2, <1>3, <1>4, <1>5, <1>6 DEF k

-----------------------------------------------------------------------------
(* What each loop does to the counts.                                      *)

Lead(m, u) == IF Leads(m, u) THEN 1 ELSE 0

\* An element of a sequence is counted when the loop passes it.
LEMMA PassedIs ==
    ASSUME NEW u, NEW S, NEW q \in Seq(S), NEW n \in 1 .. Len(q)
    PROVE  /\ Upto(u, q, n) = Upto(u, q, n - 1) + Is(q[n], u)
           /\ Upto(u, q, n - 1) \in Nat /\ Is(q[n], u) \in Nat
           /\ Upto(u, q, n) <= Times(u, q) /\ Times(u, q) \in Nat
           /\ q[n] \in S
<1>1. n \in Nat /\ n - 1 \in Nat /\ (n - 1) + 1 = n /\ n <= Len(q) /\ Len(q) \in Nat
  BY LenProperties
<1>2. Upto(u, q, (n - 1) + 1) = Upto(u, q, n - 1) + Is(q[(n - 1) + 1], u) /\ Upto(u, q, n - 1) \in Nat
  BY <1>1, UptoStep
<1>3. Upto(u, q, n) <= Upto(u, q, Len(q)) /\ Times(u, q) = Upto(u, q, Len(q)) /\ Times(u, q) \in Nat
  BY <1>1, UptoGrows, TimesIs
<1> QED
  BY <1>1, <1>2, <1>3, ElementOfSeq DEF Is

Arrivals(c) == [sets : LruSets(c), pq : Seq(Piping(c))]

LEMMA ArriveStep ==
    ASSUME NEW c \in Caches, NEW x \in Arrivals(c), NEW t \in Down(c)
    PROVE  LET y == Arrive(c, x, t) IN
           /\ y \in Arrivals(c)
           /\ \A u \in SeenBy(c) : Times(u, Piped(y.pq)) = Times(u, Piped(x.pq)) + Is(t, u)
<1> DEFINE i == SetOf(c, t.line)
           sets == [x.sets EXCEPT ![i] = access(@, t.line, t.load)]
           e == [t |-> t, hit |-> present(x.sets[i], t.line), due |-> Latency[c] - 1,
                 conflict |-> FALSE]
<1>1. t.line \in Lines /\ t.load \in BOOLEAN
  BY DownIs
<1>2. i \in 0 .. Sets[c] - 1
  BY <1>1, SetOfIs
<1>3. x.sets \in LruSets(c) /\ x.pq \in Seq(Piping(c))
  BY DEF Arrivals
<1>4. sets \in LruSets(c)
  <2>1. Ways[c] \in Nat
    BY SizesAre
  <2>2. x.sets[i] \in LruSet(Ways[c])
    BY <1>2, <1>3 DEF LruSets
  <2> HIDE DEF i
  <2>3. access(x.sets[i], t.line, t.load) \in LruSet(Ways[c])
    BY <1>1, <2>1, <2>2, AccessIs
  <2> QED
    BY <1>2, <1>3, <2>3 DEF LruSets
<1>5. e \in Piping(c)
  <2>1. Latency[c] - 1 \in Nat
    BY SizesAre
  <2>2. present(x.sets[i], t.line) \in BOOLEAN
    BY DEF present
  <2> QED
    BY <2>1, <2>2 DEF Piping
<1>6. Arrive(c, x, t) = [sets |-> sets, pq |-> Append(x.pq, e)]
  BY DEF Arrive
<1>7. e.t = t
  OBVIOUS
<1> HIDE DEF sets, e
<1>8. Append(x.pq, e) \in Seq(Piping(c)) /\ Piped(Append(x.pq, e)) = Append(Piped(x.pq), t)
  BY <1>3, <1>5, <1>7, AppendProperties, PipedAppend
<1>9. ASSUME NEW u \in SeenBy(c)
      PROVE  Times(u, Piped(Append(x.pq, e))) = Times(u, Piped(x.pq)) + Is(t, u)
  <2>1. Piped(x.pq) \in Seq(Down(c))
    BY <1>3, PipedIs
  <2> QED
    BY <1>8, <2>1, TimesAppend
<1> DEFINE p == Append(x.pq, e)  y == Arrive(c, x, t)
<1> HIDE DEF p, y
<1>10. y = [sets |-> sets, pq |-> p]
  BY <1>6 DEF p, y
<1>11. p \in Seq(Piping(c))
  BY <1>8 DEF p
<1>12. y \in Arrivals(c) /\ y.pq = p
  BY <1>4, <1>10, <1>11 DEF Arrivals
<1> QED
  BY <1>9, <1>12 DEF p, y

\* handleRequests: the requests go into the pipeline.
LEMMA AllArrive ==
    ASSUME NEW c \in Caches, NEW b \in Arrivals(c), NEW q \in Seq(Down(c))
    PROVE  LET r == ArriveEach(c, b, q) IN
           /\ r \in Arrivals(c)
           /\ \A u \in SeenBy(c) : Times(u, Piped(r.pq)) = Times(u, Piped(b.pq)) + Times(u, q)
<1> DEFINE X == Arrivals(c)
           D == [n \in 0 .. Len(q) |-> {x \in X : \A u \in SeenBy(c) :
                    Times(u, Piped(x.pq)) = Times(u, Piped(b.pq)) + Upto(u, q, n)}]
<1>1. Len(q) \in Nat /\ DOMAIN q = 1 .. Len(q)
  BY LenProperties
<1>2. ASSUME NEW x \in X, NEW u \in SeenBy(c) PROVE Times(u, Piped(x.pq)) \in Nat
  <2>1. x.pq \in Seq(Piping(c))
    BY DEF Arrivals
  <2> QED
    BY <2>1, PipedIs, TimesIs
<1>3. b \in D[0]
  <2>1. \A u \in SeenBy(c) : Upto(u, q, 0) = 0
    BY UptoStep
  <2>2. \A u \in SeenBy(c) : Times(u, Piped(b.pq)) = Times(u, Piped(b.pq)) + Upto(u, q, 0)
    BY <1>2, <2>1
  <2> QED
    BY <1>1, <2>2
<1>4. ASSUME NEW x \in X, NEW n \in 1 .. Len(q)
      PROVE  LET y == Arrive(c, x, q[n]) IN y \in X /\ (x \in D[n - 1] => y \in D[n])
  <2> DEFINE y == Arrive(c, x, q[n])
  <2>1. q[n] \in Down(c)
    BY ElementOfSeq
  <2>2. y \in X /\ \A u \in SeenBy(c) : Times(u, Piped(y.pq)) = Times(u, Piped(x.pq)) + Is(q[n], u)
    BY <2>1, ArriveStep
  <2> HIDE DEF y, X
  <2>3. ASSUME x \in D[n - 1], NEW u \in SeenBy(c)
        PROVE  Times(u, Piped(y.pq)) = Times(u, Piped(b.pq)) + Upto(u, q, n)
    <3>1. Times(u, Piped(x.pq)) = Times(u, Piped(b.pq)) + Upto(u, q, n - 1)
      BY <1>1, <2>3
    <3>2. Upto(u, q, n) = Upto(u, q, n - 1) + Is(q[n], u) /\ Upto(u, q, n - 1) \in Nat /\ Is(q[n], u) \in Nat
      BY PassedIs
    <3>3. Times(u, Piped(b.pq)) \in Nat
      BY <1>2 DEF X
    <3>4. Times(u, Piped(y.pq)) = Times(u, Piped(x.pq)) + Is(q[n], u)
      BY <2>2
    <3> HIDE DEF D
    <3> QED
      BY <3>1, <3>2, <3>3, <3>4
  <2>4. n \in 0 .. Len(q)
    BY <1>1
  <2> QED
    BY <2>2, <2>3, <2>4 DEF y
<1>b. b \in X
  OBVIOUS
<1> HIDE DEF D, X
<1>5. LET r == ArriveEach(c, b, q) IN r \in X /\ r \in D[Len(q)]
  BY <1>1, <1>3, <1>4, <1>b, ArriveLoop
<1>6. \A u \in SeenBy(c) : Times(u, q) = Upto(u, q, Len(q))
  BY TimesIs
<1>7. Len(q) \in 0 .. Len(q)
  BY <1>1
<1> QED
  BY <1>5, <1>6, <1>7 DEF D, X

Misses(c) ==
    {x \in [mshr : [Lines -> Seq(SeenBy(c))], out : Seq(Down(c)), stalled : Seq(SeenBy(c))] :
        MshrFits(c, x.mshr)}

LEMMA EnterStep ==
    ASSUME NEW c \in Caches, NEW x \in Misses(c), NEW t \in SeenBy(c)
    PROVE  LET y == enterMSHR(c, x, t) IN
           /\ y \in Misses(c)
           /\ \A u \in SeenBy(c) :
                 /\ Times(u, y.mshr[u.line]) + Times(u, y.stalled)
                        = Times(u, x.mshr[u.line]) + Times(u, x.stalled) + Is(t, u)
                 /\ Times(u, y.out) + Lead(x.mshr, u) = Times(u, x.out) + Lead(y.mshr, u)
<1> DEFINE m == x.mshr  k == [m EXCEPT ![t.line] = Append(@, t)]
           y == enterMSHR(c, x, t)
<1>1. /\ m \in [Lines -> Seq(SeenBy(c))] /\ x.out \in Seq(Down(c)) /\ x.stalled \in Seq(SeenBy(c))
      /\ PerLine(SeenBy(c), m) /\ IsFiniteSet(Entered(m)) /\ MshrUsed(m) <= MshrSize[c]
      /\ x = [mshr |-> m, out |-> x.out, stalled |-> x.stalled]
  BY DEF Misses, MshrFits
<1>2. t.line \in Lines /\ t \in Down(c) /\ \A u \in SeenBy(c) : u.line \in Lines
  BY SeenIs
<1>3. \A u \in SeenBy(c) :
         Times(u, m[u.line]) \in Nat /\ Times(u, x.out) \in Nat /\ Times(u, x.stalled) \in Nat
         /\ Is(t, u) \in Nat /\ Lead(m, u) \in Nat
  BY <1>1, <1>2, TimesIs DEF Is, Lead
<1>4. CASE m[t.line] = <<>> /\ MshrUsed(m) >= MshrSize[c]
  <2> DEFINE w == Append(x.stalled, t)
  <2>1. y = [x EXCEPT !.stalled = Append(@, t)]
    BY <1>4 DEF enterMSHR
  <2>2. w \in Seq(SeenBy(c)) /\ \A u \in SeenBy(c) : Times(u, w) = Times(u, x.stalled) + Is(t, u)
    BY <1>1, AppendProperties, TimesAppend
  <2>3. y = [mshr |-> m, out |-> x.out, stalled |-> w]
    BY <1>1, <2>1
  <2> HIDE DEF y, w, m
  <2>4. y.mshr = m /\ y.out = x.out /\ y.stalled = w
    BY <2>3
  <2>5. y \in Misses(c)
    BY <1>1, <2>2, <2>3 DEF Misses, MshrFits
  <2>6. ASSUME NEW u \in SeenBy(c)
        PROVE  /\ Times(u, m[u.line]) + Times(u, w) = Times(u, m[u.line]) + Times(u, x.stalled) + Is(t, u)
               /\ Times(u, x.out) + Lead(m, u) = Times(u, x.out) + Lead(m, u)
    BY <1>3, <2>2
  <2> QED
    BY <2>4, <2>5, <2>6 DEF y, m
<1>5. CASE ~(m[t.line] = <<>> /\ MshrUsed(m) >= MshrSize[c])
  <2> DEFINE w == IF m[t.line] = <<>> THEN Append(x.out, t) ELSE x.out
  <2>1. y = [x EXCEPT !.mshr[t.line] = Append(@, t),
                      !.out = IF m[t.line] = <<>> THEN Append(@, t) ELSE @]
    BY <1>5 DEF enterMSHR
  <2>2. y = [mshr |-> k, out |-> w, stalled |-> x.stalled]
    BY <1>1, <2>1
  <2>3. w \in Seq(Down(c))
    BY <1>1, <1>2, AppendProperties
  <2>4. /\ PerLine(SeenBy(c), k) /\ Entered(k) = Entered(m) \cup {t.line}
        /\ \A u \in SeenBy(c) : Times(u, k[u.line]) = Times(u, m[u.line]) + Is(t, u)
        /\ \A u \in SeenBy(c) : Leads(k, u) <=> Leads(m, u) \/ (u = t /\ m[t.line] = <<>>)
    BY <1>1, <1>2, PerLineAppend
  <2>5. IsFiniteSet(Entered(k)) /\ MshrUsed(k) <= MshrSize[c]
    <3>1. MshrUsed(k) = Cardinality(Entered(k)) /\ MshrUsed(m) = Cardinality(Entered(m))
      BY DEF MshrUsed, Entered
    <3>2. IsFiniteSet(Entered(k))
      BY <1>1, <2>4, FS_AddElement
    <3>3. CASE m[t.line] # <<>>
      <4>1. t.line \in Entered(m)
        BY <1>2, <3>3 DEF Entered
      <4> HIDE DEF k, m
      <4>2. Entered(k) = Entered(m)
        BY <2>4, <4>1
      <4> QED
        BY <1>1, <3>1, <3>2, <4>2
    <3>4. CASE m[t.line] = <<>>
      <4>1. t.line \notin Entered(m)
        BY <3>4 DEF Entered
      <4> HIDE DEF k
      <4>2. Cardinality(Entered(k)) = Cardinality(Entered(m)) + 1
        BY <1>1, <2>4, <4>1, FS_AddElement
      <4>3. Cardinality(Entered(m)) \in Nat /\ MshrSize[c] \in Nat
        BY <1>1, FS_CardinalityType, SizesAre
      <4>4. ~(MshrUsed(m) >= MshrSize[c])
        BY <1>5, <3>4
      <4> HIDE DEF m
      <4> QED
        BY <3>1, <3>2, <4>2, <4>3, <4>4
    <3> QED
      BY <3>3, <3>4
  <2>6. ASSUME NEW u \in SeenBy(c)
        PROVE  Times(u, w) + Lead(m, u) = Times(u, x.out) + Lead(k, u)
    <3>1. CASE m[t.line] = <<>>
      <4>1. Times(u, w) = Times(u, x.out) + Is(t, u)
        BY <1>1, <1>2, <3>1, TimesAppend
      <4>2. u = t => ~Leads(m, u) /\ Leads(k, u)
        BY <2>4, <3>1 DEF Leads
      <4>3. u # t => (Leads(k, u) <=> Leads(m, u))
        BY <2>4
      <4> HIDE DEF w, k, m
      <4>4. CASE u = t
        <5>1. Lead(m, u) = 0 /\ Lead(k, u) = 1 /\ Is(t, u) = 1
          BY <4>2, <4>4 DEF Lead, Is
        <5> QED
          BY <1>3, <4>1, <5>1
      <4>5. CASE u # t
        <5>1. Lead(m, u) = Lead(k, u) /\ Is(t, u) = 0
          BY <4>3, <4>5 DEF Lead, Is
        <5> QED
          BY <1>3, <4>1, <5>1
      <4> QED
        BY <4>4, <4>5
    <3>2. CASE m[t.line] # <<>>
      <4>1. w = x.out /\ (Leads(k, u) <=> Leads(m, u))
        BY <2>4, <3>2
      <4> QED
        BY <4>1 DEF Lead
    <3> QED
      BY <3>1, <3>2
  <2> HIDE DEF y, w, m, k
  <2>7. y.mshr = k /\ y.out = w /\ y.stalled = x.stalled
    BY <2>2
  <2>8. y \in Misses(c)
    BY <1>1, <2>2, <2>3, <2>4, <2>5 DEF Misses, MshrFits, PerLine
  <2>9. ASSUME NEW u \in SeenBy(c)
        PROVE  Times(u, k[u.line]) + Times(u, x.stalled) = Times(u, m[u.line]) + Times(u, x.stalled) + Is(t, u)
    <3>1. Times(u, k[u.line]) = Times(u, m[u.line]) + Is(t, u)
      BY <2>4
    <3> QED
      BY <1>3, <3>1
  <2> QED
    BY <2>6, <2>7, <2>8, <2>9 DEF y, m
<1> QED
  BY <1>4, <1>5

\* retryStalled: a transaction enters an MSHR entry or stalls again.
LEMMA AllEnter ==
    ASSUME NEW c \in Caches, NEW b \in Misses(c), NEW q \in Seq(SeenBy(c))
    PROVE  LET r == EnterEach(c, b, q) IN
           /\ r \in Misses(c)
           /\ \A u \in SeenBy(c) :
                 /\ Times(u, r.mshr[u.line]) + Times(u, r.stalled)
                        = Times(u, b.mshr[u.line]) + Times(u, b.stalled) + Times(u, q)
                 /\ Times(u, r.out) + Lead(b.mshr, u) = Times(u, b.out) + Lead(r.mshr, u)
<1> DEFINE X == Misses(c)
           Count(x, u) == Times(u, x.mshr[u.line]) + Times(u, x.stalled)
           D == [n \in 0 .. Len(q) |-> {x \in X : \A u \in SeenBy(c) :
                    /\ Count(x, u) = Count(b, u) + Upto(u, q, n)
                    /\ Times(u, x.out) + Lead(b.mshr, u) = Times(u, b.out) + Lead(x.mshr, u)}]
<1>1. Len(q) \in Nat /\ DOMAIN q = 1 .. Len(q)
  BY LenProperties
<1>2. ASSUME NEW x \in X, NEW u \in SeenBy(c)
      PROVE  Count(x, u) \in Nat /\ Times(u, x.out) \in Nat /\ Lead(x.mshr, u) \in Nat
  <2>1. x.mshr \in [Lines -> Seq(SeenBy(c))] /\ x.stalled \in Seq(SeenBy(c)) /\ x.out \in Seq(Down(c))
    BY DEF Misses
  <2>2. x.mshr[u.line] \in Seq(SeenBy(c))
    BY <2>1, SeenIs
  <2>3. Times(u, x.mshr[u.line]) \in Nat /\ Times(u, x.stalled) \in Nat /\ Times(u, x.out) \in Nat
    BY <2>1, <2>2, TimesIs
  <2> QED
    BY <2>3 DEF Lead
<1>b. b \in X /\ \A x, u : Count(x, u) = Times(u, x.mshr[u.line]) + Times(u, x.stalled)
  OBVIOUS
<1> HIDE DEF Count, X
<1>3. b \in D[0]
  <2>1. \A u \in SeenBy(c) : Upto(u, q, 0) = 0
    BY UptoStep
  <2>2. \A u \in SeenBy(c) : Count(b, u) = Count(b, u) + Upto(u, q, 0)
    BY <1>2, <1>b, <2>1
  <2> QED
    BY <1>1, <1>b, <2>2
<1>4. ASSUME NEW x \in X, NEW n \in 1 .. Len(q)
      PROVE  LET y == enterMSHR(c, x, q[n]) IN y \in X /\ (x \in D[n - 1] => y \in D[n])
  <2> DEFINE y == enterMSHR(c, x, q[n])
  <2>1. q[n] \in SeenBy(c) /\ x \in Misses(c)
    BY ElementOfSeq DEF X
  <2>2. /\ y \in X
        /\ \A u \in SeenBy(c) :
              /\ Count(y, u) = Count(x, u) + Is(q[n], u)
              /\ Times(u, y.out) + Lead(x.mshr, u) = Times(u, x.out) + Lead(y.mshr, u)
    BY <2>1, EnterStep DEF Count, X
  <2> HIDE DEF y
  <2>3. ASSUME x \in D[n - 1], NEW u \in SeenBy(c)
        PROVE  /\ Count(y, u) = Count(b, u) + Upto(u, q, n)
               /\ Times(u, y.out) + Lead(b.mshr, u) = Times(u, b.out) + Lead(y.mshr, u)
    <3>1. /\ Count(x, u) = Count(b, u) + Upto(u, q, n - 1)
          /\ Times(u, x.out) + Lead(b.mshr, u) = Times(u, b.out) + Lead(x.mshr, u)
      BY <1>1, <2>3
    <3>2. Upto(u, q, n) = Upto(u, q, n - 1) + Is(q[n], u) /\ Upto(u, q, n - 1) \in Nat /\ Is(q[n], u) \in Nat
      BY PassedIs
    <3>3. /\ Count(b, u) \in Nat /\ Times(u, b.out) \in Nat /\ Lead(b.mshr, u) \in Nat
          /\ Times(u, x.out) \in Nat /\ Lead(x.mshr, u) \in Nat
          /\ Times(u, y.out) \in Nat /\ Lead(y.mshr, u) \in Nat
      BY <1>2, <1>b, <2>2
    <3>4. /\ Count(y, u) = Count(x, u) + Is(q[n], u)
          /\ Times(u, y.out) + Lead(x.mshr, u) = Times(u, x.out) + Lead(y.mshr, u)
      BY <2>2
    <3> HIDE DEF D
    <3>5. Count(y, u) = Count(b, u) + Upto(u, q, n)
      BY <3>1, <3>2, <3>3, <3>4
    <3>6. Times(u, y.out) + Lead(b.mshr, u) = Times(u, b.out) + Lead(y.mshr, u)
      <4> DEFINE yo == Times(u, y.out)  yl == Lead(y.mshr, u)  xo == Times(u, x.out)
                 xl == Lead(x.mshr, u)  bo == Times(u, b.out)  bl == Lead(b.mshr, u)
      <4>1. /\ yo \in Nat /\ yl \in Nat /\ xo \in Nat /\ xl \in Nat /\ bo \in Nat /\ bl \in Nat
            /\ xo + bl = bo + xl /\ yo + xl = xo + yl
        BY <3>1, <3>3, <3>4
      <4> HIDE DEF yo, yl, xo, xl, bo, bl
      <4>2. yo + bl = bo + yl
        BY <4>1
      <4> QED
        BY <4>2 DEF yo, yl, bo, bl
    <3> QED
      BY <3>5, <3>6
  <2>4. n \in 0 .. Len(q)
    BY <1>1
  <2> QED
    BY <2>2, <2>3, <2>4 DEF y
<1> HIDE DEF D
<1>5. LET r == EnterEach(c, b, q) IN r \in X /\ r \in D[Len(q)]
  BY <1>1, <1>3, <1>4, <1>b, enterMSHRLoop
<1>6. \A u \in SeenBy(c) : Times(u, q) = Upto(u, q, Len(q))
  BY TimesIs
<1>7. Len(q) \in 0 .. Len(q)
  BY <1>1
<1> QED
  BY <1>5, <1>6, <1>7 DEF D, X, Count

Fills(c) ==
    {x \in [sets : LruSets(c), evicts : Seq(Victim), out : Seq(SeenBy(c)),
            mshr : [Lines -> Seq(SeenBy(c))]] : MshrFits(c, x.mshr)}

\* The line is filled and its victim queued.
LEMMA FillLine ==
    ASSUME NEW c \in Caches, NEW sets \in LruSets(c), NEW ev \in Seq(Victim), NEW t \in SeenBy(c)
    PROVE  LET i == SetOf(c, t.line) IN
           /\ [sets EXCEPT ![i] = insert(@, t.line, t.load, Ways[c])] \in LruSets(c)
           /\ ev \o [j \in 1 .. Len(Victims(sets[i], Ways[c])) |->
                        [line |-> Last(sets[i]).line, dirty |-> Last(sets[i]).dirty]] \in Seq(Victim)
<1> DEFINE i == SetOf(c, t.line)  s == sets[i]  n == Ways[c]
           v == [line |-> Last(s).line, dirty |-> Last(s).dirty]
           w == [j \in 1 .. Len(Victims(s, n)) |-> v]
<1>1. t.line \in Lines /\ t.load \in BOOLEAN
  BY SeenIs
<1>2. i \in 0 .. Sets[c] - 1
  BY <1>1, SetOfIs
<1>3. n \in Nat \ {0}
  BY SizesAre
<1> HIDE DEF i
<1>4. s \in LruSet(n)
  BY <1>2 DEF LruSets
<1>5. insert(s, t.line, t.load, n) \in LruSet(n)
  <2> HIDE DEF s, n
  <2> QED
    BY <1>1, <1>3, <1>4, InsertIs
<1>6. [sets EXCEPT ![i] = insert(@, t.line, t.load, n)] \in LruSets(c)
  BY <1>2, <1>5 DEF LruSets
<1>7. w \in Seq(Victim)
  <2>1. CASE Len(s) < n
    <3>1. Victims(s, n) = <<>>
      BY <2>1 DEF Victims
    <3>2. 1 .. Len(Victims(s, n)) = {}
      BY <3>1
    <3> DEFINE z == 0
    <3>3. z \in Nat /\ w \in [1 .. z -> Victim]
      BY <3>2
    <3> HIDE DEF w, z
    <3> QED
      BY <3>3
  <2>2. CASE ~(Len(s) < n)
    <3>1. s \in Seq(Entries) /\ Len(s) \in Nat
      BY <1>4, LenProperties DEF LruSet
    <3>2. s # <<>>
      BY <1>3, <2>2, <3>1
    <3>3. v \in Victim
      BY <3>1, <3>2, LastIs
    <3>4. Len(Victims(s, n)) = 1
      BY <2>2 DEF Victims
    <3> HIDE DEF v
    <3> DEFINE z == 1
    <3>5. z \in Nat /\ w \in [1 .. z -> Victim]
      BY <3>3, <3>4
    <3> HIDE DEF w, z
    <3> QED
      BY <3>5
  <2> QED
    BY <2>1, <2>2
<1> HIDE DEF w
<1>8. ev \o w \in Seq(Victim)
  BY <1>7, ConcatProperties
<1> QED
  BY <1>6, <1>8 DEF i, w

LEMMA FillStep ==
    ASSUME NEW c \in Caches, NEW x \in Fills(c), NEW t \in SeenBy(c)
    PROVE  LET y == Fill(c, x, t) IN
           /\ y \in Fills(c)
           /\ \A u \in SeenBy(c) :
                 /\ Times(u, y.out) + Times(u, y.mshr[u.line])
                        = Times(u, x.out) + Times(u, x.mshr[u.line])
                 /\ Leads(x.mshr, t) => Lead(x.mshr, u) = Lead(y.mshr, u) + Is(t, u)
<1> DEFINE m == x.mshr  l0 == t.line  k == [m EXCEPT ![l0] = <<>>]  i == SetOf(c, t.line)
           sets == [x.sets EXCEPT ![i] = insert(@, t.line, t.load, Ways[c])]
           ev == x.evicts \o [j \in 1 .. Len(Victims(x.sets[i], Ways[c])) |->
                        [line |-> Last(x.sets[i]).line, dirty |-> Last(x.sets[i]).dirty]]
           out == x.out \o m[l0]
           y == Fill(c, x, t)
<1>1. /\ m \in [Lines -> Seq(SeenBy(c))] /\ x.out \in Seq(SeenBy(c)) /\ x.sets \in LruSets(c)
      /\ x.evicts \in Seq(Victim)
      /\ PerLine(SeenBy(c), m) /\ IsFiniteSet(Entered(m)) /\ MshrUsed(m) <= MshrSize[c]
  BY DEF Fills, MshrFits
<1>2. l0 \in Lines /\ \A u \in SeenBy(c) : u.line \in Lines
  BY SeenIs
<1>3. y = [sets |-> sets, evicts |-> ev, out |-> out, mshr |-> k]
  BY DEF Fill
<1>4. sets \in LruSets(c) /\ ev \in Seq(Victim)
  BY <1>1, FillLine
<1>5. out \in Seq(SeenBy(c))
  <2>1. m[l0] \in Seq(SeenBy(c))
    BY <1>1, <1>2
  <2> HIDE DEF m
  <2> QED
    BY <1>1, <2>1, ConcatProperties
<1>6. /\ PerLine(SeenBy(c), k) /\ Entered(k) = Entered(m) \ {l0}
      /\ \A u \in SeenBy(c) : Times(u, m[u.line]) = Times(u, k[u.line]) + Times(u, m[l0])
      /\ \A u \in SeenBy(c) : Leads(k, u) <=> Leads(m, u) /\ u.line # l0
  BY <1>1, <1>2, PerLineEmptied
<1>7. MshrFits(c, k)
  <2>1. MshrUsed(k) = Cardinality(Entered(k)) /\ MshrUsed(m) = Cardinality(Entered(m))
    BY DEF MshrUsed, Entered
  <2>2. Entered(k) \subseteq Entered(m)
    BY <1>6
  <2> HIDE DEF k, m
  <2>3. IsFiniteSet(Entered(k)) /\ Cardinality(Entered(k)) <= Cardinality(Entered(m))
    BY <1>1, <2>2, FS_Subset
  <2>4. Cardinality(Entered(k)) \in Nat /\ Cardinality(Entered(m)) \in Nat /\ MshrSize[c] \in Nat
    BY <1>1, <2>3, FS_CardinalityType, SizesAre
  <2>5. MshrUsed(k) <= MshrSize[c]
    BY <1>1, <2>1, <2>3, <2>4
  <2> QED
    BY <1>6, <2>3, <2>5 DEF MshrFits
<1>8. ASSUME NEW u \in SeenBy(c)
      PROVE  Times(u, out) + Times(u, k[u.line]) = Times(u, x.out) + Times(u, m[u.line])
  <2>1. m[l0] \in Seq(SeenBy(c)) /\ k[u.line] \in Seq(SeenBy(c))
    BY <1>1, <1>2, <1>6 DEF PerLine
  <2>2. Times(u, out) = Times(u, x.out) + Times(u, m[l0])
    BY <1>1, <2>1, TimesConcat
  <2>3. Times(u, x.out) \in Nat /\ Times(u, m[l0]) \in Nat /\ Times(u, k[u.line]) \in Nat
    BY <1>1, <2>1, TimesIs
  <2>4. Times(u, m[u.line]) = Times(u, k[u.line]) + Times(u, m[l0])
    BY <1>6
  <2> HIDE DEF k, m, out
  <2> QED
    BY <2>2, <2>3, <2>4
<1>9. ASSUME NEW u \in SeenBy(c), Leads(m, t)
      PROVE  Lead(m, u) = Lead(k, u) + Is(t, u)
  <2>1. Leads(k, u) <=> Leads(m, u) /\ u.line # l0
    BY <1>6
  <2>2. CASE u = t
    BY <1>9, <2>1, <2>2 DEF Lead, Is
  <2>3. CASE u # t
    <3>1. u.line = l0 => ~Leads(m, u)
      BY <1>9, <2>3 DEF Leads
    <3> QED
      BY <2>1, <2>3, <3>1 DEF Lead, Is
  <2> QED
    BY <2>2, <2>3
<1> HIDE DEF sets, ev, out, k, m, y
<1>10. y.out = out /\ y.mshr = k /\ y \in Fills(c)
  BY <1>3, <1>4, <1>5, <1>7 DEF Fills, MshrFits, PerLine
<1> QED
  BY <1>8, <1>9, <1>10 DEF m, y

\* handleResponses: what waits in the entries of the lines is answered, when every
\* response belongs to the first transaction of an entry.  G is anything that such a
\* response keeps.
LEMMA AllFill ==
    ASSUME NEW c \in Caches, NEW b \in Fills(c), NEW q \in Seq(SeenBy(c)),
           \A u \in SeenBy(c) : Times(u, q) <= Lead(b.mshr, u),
           NEW G, b \in G,
           \A x \in Fills(c), t \in SeenBy(c) : x \in G /\ Leads(x.mshr, t) => Fill(c, x, t) \in G
    PROVE  LET r == FillEach(c, b, q) IN
           /\ r \in Fills(c) /\ r \in G
           /\ \A u \in SeenBy(c) :
                 /\ Times(u, r.out) + Times(u, r.mshr[u.line])
                        = Times(u, b.out) + Times(u, b.mshr[u.line])
                 /\ Lead(r.mshr, u) + Times(u, q) = Lead(b.mshr, u)
<1> DEFINE X == Fills(c)
           Count(x, u) == Times(u, x.out) + Times(u, x.mshr[u.line])
           D == [n \in 0 .. Len(q) |-> {x \in X : x \in G /\ \A u \in SeenBy(c) :
                    /\ Count(x, u) = Count(b, u)
                    /\ Lead(x.mshr, u) + Upto(u, q, n) = Lead(b.mshr, u)}]
<1>1. Len(q) \in Nat /\ DOMAIN q = 1 .. Len(q)
  BY LenProperties
<1>2. \A x, u : Lead(x.mshr, u) \in {0, 1} /\ (Leads(x.mshr, u) <=> Lead(x.mshr, u) = 1)
  BY DEF Lead
<1>b. b \in X
  OBVIOUS
<1>3. b \in D[0]
  <2>1. \A u \in SeenBy(c) : Upto(u, q, 0) = 0
    BY UptoStep
  <2>2. ASSUME NEW u \in SeenBy(c) PROVE Lead(b.mshr, u) + Upto(u, q, 0) = Lead(b.mshr, u)
    <3> DEFINE k == Lead(b.mshr, u)
    <3>1. k \in {0, 1} /\ Upto(u, q, 0) = 0
      BY <1>2, <2>1
    <3> HIDE DEF k
    <3>2. k + Upto(u, q, 0) = k
      BY <3>1
    <3> QED
      BY <3>2 DEF k
  <2> QED
    BY <1>1, <2>2
<1> HIDE DEF X, Count
<1>4. ASSUME NEW x \in X, NEW n \in 1 .. Len(q)
      PROVE  LET y == Fill(c, x, q[n]) IN y \in X /\ (x \in D[n - 1] => y \in D[n])
  <2> DEFINE t == q[n]  y == Fill(c, x, t)
  <2>1. t \in SeenBy(c) /\ x \in Fills(c)
    BY ElementOfSeq DEF X
  <2> HIDE DEF t
  <2>2. /\ y \in X
        /\ \A u \in SeenBy(c) :
              /\ Count(y, u) = Count(x, u)
              /\ Leads(x.mshr, t) => Lead(x.mshr, u) = Lead(y.mshr, u) + Is(t, u)
    BY <2>1, FillStep DEF Count, X
  <2> HIDE DEF y
  <2>3. ASSUME x \in D[n - 1] PROVE x \in G /\ Leads(x.mshr, t)
    <3>1. \A w \in SeenBy(c) : Lead(x.mshr, w) + Upto(w, q, n - 1) = Lead(b.mshr, w)
      BY <1>1, <2>3
    <3>2. ASSUME NEW w \in SeenBy(c)
          PROVE  /\ Upto(w, q, n) = Upto(w, q, n - 1) + Is(t, w)
                 /\ Upto(w, q, n - 1) \in Nat /\ Is(t, w) \in Nat
                 /\ Upto(w, q, n) <= Times(w, q) /\ Times(w, q) \in Nat
      BY PassedIs DEF t
    <3>3. Leads(x.mshr, t)
      <4> DEFINE up == Upto(t, q, n - 1)  un == Upto(t, q, n)  xl == Lead(x.mshr, t)
                 bl == Lead(b.mshr, t)  k == Times(t, q)
      <4>1. /\ up \in Nat /\ un = up + 1 /\ un <= k /\ k \in Nat /\ k <= bl /\ xl + up = bl
            /\ xl \in {0, 1} /\ bl \in {0, 1}
        <5>1. Is(t, t) = 1
          BY DEF Is
        <5>2. un = up + Is(t, t) /\ up \in Nat /\ un <= k /\ k \in Nat
          BY <2>1, <3>2
        <5> QED
          BY <1>2, <2>1, <3>1, <5>1, <5>2
      <4>2. xl = 1 => Leads(x.mshr, t)
        BY <1>2
      <4> HIDE DEF up, un, xl, bl, k
      <4> QED
        BY <4>1, <4>2
    <3> QED
      BY <1>1, <2>3, <3>3
  <2>4. ASSUME x \in D[n - 1], NEW u \in SeenBy(c)
        PROVE  Count(y, u) = Count(b, u) /\ Lead(y.mshr, u) + Upto(u, q, n) = Lead(b.mshr, u)
    <3>1. Count(x, u) = Count(b, u) /\ Lead(x.mshr, u) + Upto(u, q, n - 1) = Lead(b.mshr, u)
      BY <1>1, <2>4
    <3>2. Upto(u, q, n) = Upto(u, q, n - 1) + Is(t, u) /\ Upto(u, q, n - 1) \in Nat /\ Is(t, u) \in Nat
      BY PassedIs DEF t
    <3>4. Lead(x.mshr, u) = Lead(y.mshr, u) + Is(t, u)
      BY <2>2, <2>3, <2>4
    <3>5. Lead(y.mshr, u) + Upto(u, q, n) = Lead(b.mshr, u)
      <4> DEFINE up == Upto(u, q, n - 1)  un == Upto(u, q, n)  xl == Lead(x.mshr, u)
                 yl == Lead(y.mshr, u)  bl == Lead(b.mshr, u)  i == Is(t, u)
      <4>1. un = up + i /\ up \in Nat /\ i \in Nat /\ xl + up = bl /\ xl = yl + i /\ yl \in {0, 1}
        BY <1>2, <3>1, <3>2, <3>4
      <4> HIDE DEF up, un, xl, yl, bl, i
      <4>2. yl + un = bl
        BY <4>1
      <4> QED
        BY <4>2 DEF yl, un, bl
    <3> QED
      BY <2>2, <3>1, <3>5
  <2>5. x \in D[n - 1] => y \in G
    BY <2>1, <2>3 DEF y
  <2>6. n \in 0 .. Len(q)
    BY <1>1
  <2> QED
    BY <2>2, <2>4, <2>5, <2>6 DEF t, y
<1> HIDE DEF D
<1>5. LET r == FillEach(c, b, q) IN r \in X /\ r \in D[Len(q)]
  BY <1>1, <1>3, <1>4, <1>b, FillLoop
<1>6. \A u \in SeenBy(c) : Times(u, q) = Upto(u, q, Len(q))
  BY TimesIs
<1>7. Len(q) \in 0 .. Len(q)
  BY <1>1
<1> QED
  BY <1>5, <1>6, <1>7 DEF D, X, Count

\* sendResponsesL2: a cache is sent the transactions that came from it.
LEMMA AllAnswered ==
    ASSUME NEW c \in Caches, NEW b \in Seq(SeenBy(c)), NEW q \in Seq(Made)
    PROVE  LET r == AnswerEach(c, b, q) IN
           /\ r \in Seq(SeenBy(c))
           /\ \A u \in Made : Times(u, r) = Times(u, b) + IF u.port = c THEN Times(u, q) ELSE 0
<1> DEFINE X == Seq(SeenBy(c))
           Part(u, n) == IF u.port = c THEN Upto(u, q, n) ELSE 0
           D == [n \in 0 .. Len(q) |-> {x \in X : \A u \in Made :
                    Times(u, x) = Times(u, b) + Part(u, n)}]
<1>1. Len(q) \in Nat /\ DOMAIN q = 1 .. Len(q)
  BY LenProperties
<1>2. \A u \in Made : Times(u, b) \in Nat
  BY TimesIs
<1>3. b \in D[0]
  <2>1. \A u \in Made : Part(u, 0) = 0
    BY UptoStep
  <2> HIDE DEF Part
  <2>2. \A u \in Made : Times(u, b) = Times(u, b) + Part(u, 0)
    BY <1>2, <2>1
  <2> QED
    BY <1>1, <2>2
<1>b. b \in X
  OBVIOUS
<1>4. ASSUME NEW x \in X, NEW n \in 1 .. Len(q)
      PROVE  LET y == Answered(c, x, q[n]) IN y \in X /\ (x \in D[n - 1] => y \in D[n])
  <2> DEFINE t == q[n]  y == Answered(c, x, t)
  <2>1. t \in Made
    BY ElementOfSeq
  <2>2. y \in X
    <3> HIDE DEF t
    <3>1. CASE t.port = c
      <4>1. t \in SeenBy(c)
        BY <2>1, <3>1 DEF SeenBy
      <4> QED
        BY <3>1, <4>1, AppendProperties DEF Answered
    <3>2. CASE t.port # c
      BY <3>2 DEF Answered
    <3> QED
      BY <3>1, <3>2
  <2>3. ASSUME x \in D[n - 1], NEW u \in Made
        PROVE  Times(u, y) = Times(u, b) + Part(u, n)
    <3>1. Times(u, x) = Times(u, b) + Part(u, n - 1)
      BY <1>1, <2>3
    <3>2. /\ Upto(u, q, n) = Upto(u, q, n - 1) + Is(t, u)
          /\ Upto(u, q, n - 1) \in Nat /\ Is(t, u) \in Nat
      BY PassedIs
    <3> HIDE DEF t
    <3>3. CASE t.port = c
      <4>1. t \in SeenBy(c)
        BY <2>1, <3>3 DEF SeenBy
      <4>2. Times(u, y) = Times(u, x) + Is(t, u)
        BY <3>3, <4>1, TimesAppend DEF Answered
      <4>3. Part(u, n) = Part(u, n - 1) + Is(t, u) /\ Part(u, n - 1) \in Nat
        <5>1. CASE u.port = c
          BY <3>2, <5>1
        <5>2. CASE u.port # c
          <6>1. Is(t, u) = 0
            BY <3>3, <5>2 DEF Is
          <6> QED
            BY <5>2, <6>1
        <5> QED
          BY <5>1, <5>2
      <4> HIDE DEF Part, y, D
      <4> QED
        BY <1>2, <3>1, <3>2, <4>2, <4>3
    <3>4. CASE t.port # c
      <4>1. y = x
        BY <3>4 DEF Answered
      <4>2. Part(u, n) = Part(u, n - 1)
        <5>1. CASE u.port = c
          <6>1. Is(t, u) = 0
            BY <3>4, <5>1 DEF Is
          <6> QED
            BY <3>2, <6>1
        <5>2. CASE u.port # c
          BY <5>2
        <5> QED
          BY <5>1, <5>2
      <4> QED
        BY <3>1, <4>1, <4>2
    <3> QED
      BY <3>3, <3>4
  <2>4. n \in 0 .. Len(q)
    BY <1>1
  <2> HIDE DEF y, Part, X, t
  <2> QED
    BY <2>2, <2>3, <2>4 DEF y, t
<1> HIDE DEF D, X
<1>5. LET r == AnswerEach(c, b, q) IN r \in X /\ r \in D[Len(q)]
  BY <1>1, <1>3, <1>4, <1>b, AnsweredLoop
<1>6. \A u \in Made : Times(u, q) = Upto(u, q, Len(q))
  BY TimesIs
<1>7. Len(q) \in 0 .. Len(q)
  BY <1>1
<1> DEFINE r == AnswerEach(c, b, q)
<1>8. r \in Seq(SeenBy(c)) /\ \A u \in Made : Times(u, r) = Times(u, b) + Part(u, Len(q))
  BY <1>5, <1>7 DEF D, X
<1> HIDE DEF r
<1> QED
  BY <1>6, <1>8 DEF r

\* The dirty victims of an L1 become evictions.
LEMMA AllWrittenBack ==
    ASSUME NEW q \in Seq(Victim)
    PROVE  WriteBackEach(<<>>, q) \in Seq(Evictions)
<1> DEFINE X == Seq(Evictions)  D == [n \in 0 .. Len(q) |-> X]  b == <<>>
<1>1. Len(q) \in Nat /\ DOMAIN q = 1 .. Len(q)
  BY LenProperties
<1>2. b \in X /\ b \in D[0]
  BY <1>1
<1>3. ASSUME NEW x \in X, NEW n \in 1 .. Len(q)
      PROVE  LET y == WrittenBack(x, q[n]) IN y \in X /\ (x \in D[n - 1] => y \in D[n])
  <2> DEFINE e == q[n]  y == WrittenBack(x, e)
  <2>1. e \in Victim
    BY ElementOfSeq
  <2>2. EvictOf(e.line) \in Evictions
    BY <2>1 DEF Evictions, Victim
  <2> HIDE DEF e
  <2>3. y \in X
    BY <2>2, AppendProperties DEF WrittenBack
  <2>4. n \in 0 .. Len(q)
    BY <1>1
  <2> HIDE DEF y
  <2> QED
    BY <2>3, <2>4 DEF y, e
<1> HIDE DEF X, D, b
<1>4. LET r == WriteBackEach(b, q) IN r \in X /\ r \in D[Len(q)]
  BY <1>1, <1>2, <1>3, WrittenBackLoop
<1> QED
  BY <1>4 DEF X, b

Offers(c) ==
    [in : Seq(Down("L2")), ld : 0 .. LoadPorts["L2"], st : 0 .. StorePorts["L2"],
     keep : Seq(Down(c))]

LEMMA DownOfL1 ==
    ASSUME NEW c \in L1s
    PROVE  SeenBy(c) \subseteq SeenBy("L2") /\ Down(c) \subseteq Down("L2")
  BY DEF SeenBy, Down

LEMMA OfferStep ==
    ASSUME NEW c \in L1s, NEW x \in Offers(c), NEW t \in Down(c)
    PROVE  LET y == Offer(x, t) IN
           /\ y \in Offers(c)
           /\ \A u \in Made :
                 Times(u, y.in) + Times(u, y.keep) = Times(u, x.in) + Times(u, x.keep) + Is(t, u)
<1> DEFINE y == Offer(x, t)
<1>1. /\ x.in \in Seq(Down("L2")) /\ x.keep \in Seq(Down(c))
      /\ x.ld \in 0 .. LoadPorts["L2"] /\ x.st \in 0 .. StorePorts["L2"]
      /\ x = [in |-> x.in, ld |-> x.ld, st |-> x.st, keep |-> x.keep]
  BY DEF Offers
<1>2. t \in Down("L2") /\ t.load \in BOOLEAN
  BY DownOfL1, DownIs DEF L1s, Caches
<1>3. LoadPorts["L2"] \in Nat /\ StorePorts["L2"] \in Nat
  BY SizesAre DEF Caches
<1>4. \A u \in Made : Times(u, x.in) \in Nat /\ Times(u, x.keep) \in Nat /\ Is(t, u) \in Nat
  BY <1>1, TimesIs DEF Is
<1>5. CASE Accepts(x.ld, x.st, t)
  <2> DEFINE ld == LoadsLeft(x.ld, t)  st == StoresLeft(x.st, t)  in == Append(x.in, t)
  <2>1. ld \in 0 .. LoadPorts["L2"] /\ st \in 0 .. StorePorts["L2"]
    BY <1>1, <1>2, <1>3, <1>5 DEF Accepts, LoadsLeft, StoresLeft
  <2>2. in \in Seq(Down("L2")) /\ \A u \in Made : Times(u, in) = Times(u, x.in) + Is(t, u)
    BY <1>1, <1>2, AppendProperties, TimesAppend
  <2>3. y = [in |-> in, ld |-> ld, st |-> st, keep |-> x.keep]
    BY <1>1, <1>5 DEF Offer
  <2> HIDE DEF y, ld, st, in
  <2>4. y \in Offers(c) /\ y.in = in /\ y.keep = x.keep
    BY <1>1, <2>1, <2>2, <2>3 DEF Offers
  <2>5. \A u \in Made : Times(u, in) + Times(u, x.keep) = Times(u, x.in) + Times(u, x.keep) + Is(t, u)
    BY <1>4, <2>2
  <2> QED
    BY <2>4, <2>5 DEF y
<1>6. CASE ~Accepts(x.ld, x.st, t)
  <2> DEFINE keep == Append(x.keep, t)
  <2>1. keep \in Seq(Down(c)) /\ \A u \in Made : Times(u, keep) = Times(u, x.keep) + Is(t, u)
    BY <1>1, AppendProperties, TimesAppend
  <2>2. y = [in |-> x.in, ld |-> x.ld, st |-> x.st, keep |-> keep]
    BY <1>1, <1>6 DEF Offer
  <2> HIDE DEF y, keep
  <2>3. y \in Offers(c) /\ y.in = x.in /\ y.keep = keep
    BY <1>1, <2>1, <2>2 DEF Offers
  <2>4. \A u \in Made : Times(u, x.in) + Times(u, keep) = Times(u, x.in) + Times(u, x.keep) + Is(t, u)
    BY <1>4, <2>1
  <2> QED
    BY <2>3, <2>4 DEF y
<1> QED
  BY <1>5, <1>6

\* sendRequestsL1: a transaction goes to L2 or is kept.
LEMMA AllOffered ==
    ASSUME NEW c \in L1s, NEW b \in Offers(c), NEW q \in Seq(Down(c))
    PROVE  LET r == OfferEach(b, q) IN
           /\ r \in Offers(c)
           /\ \A u \in Made : Times(u, r.in) + Times(u, r.keep)
                                 = Times(u, b.in) + Times(u, b.keep) + Times(u, q)
<1> DEFINE X == Offers(c)
           Count(x, u) == Times(u, x.in) + Times(u, x.keep)
           D == [n \in 0 .. Len(q) |-> {x \in X : \A u \in Made :
                    Count(x, u) = Count(b, u) + Upto(u, q, n)}]
<1>1. Len(q) \in Nat /\ DOMAIN q = 1 .. Len(q)
  BY LenProperties
<1>2. ASSUME NEW u \in Made PROVE Count(b, u) \in Nat
  <2>1. b.in \in Seq(Down("L2")) /\ b.keep \in Seq(Down(c))
    BY DEF Offers
  <2>2. Times(u, b.in) \in Nat /\ Times(u, b.keep) \in Nat
    BY <2>1, TimesIs
  <2> QED
    BY <2>2
<1>b. b \in X
  OBVIOUS
<1> HIDE DEF Count, X
<1>3. b \in D[0]
  <2>1. \A u \in Made : Upto(u, q, 0) = 0
    BY UptoStep
  <2>2. \A u \in Made : Count(b, u) = Count(b, u) + Upto(u, q, 0)
    BY <1>2, <2>1
  <2> QED
    BY <1>1, <1>b, <2>2
<1>4. ASSUME NEW x \in X, NEW n \in 1 .. Len(q)
      PROVE  LET y == Offer(x, q[n]) IN y \in X /\ (x \in D[n - 1] => y \in D[n])
  <2> DEFINE y == Offer(x, q[n])
  <2>1. q[n] \in Down(c) /\ x \in Offers(c)
    BY ElementOfSeq DEF X
  <2>2. y \in X /\ \A u \in Made : Count(y, u) = Count(x, u) + Is(q[n], u)
    BY <2>1, OfferStep DEF Count, X
  <2> HIDE DEF y
  <2>3. ASSUME x \in D[n - 1], NEW u \in Made
        PROVE  Count(y, u) = Count(b, u) + Upto(u, q, n)
    <3>1. Count(x, u) = Count(b, u) + Upto(u, q, n - 1)
      BY <1>1, <2>3
    <3>2. Upto(u, q, n) = Upto(u, q, n - 1) + Is(q[n], u) /\ Upto(u, q, n - 1) \in Nat /\ Is(q[n], u) \in Nat
      BY PassedIs
    <3>3. Count(b, u) \in Nat /\ Count(y, u) = Count(x, u) + Is(q[n], u)
      BY <1>2, <2>2
    <3> HIDE DEF D
    <3> QED
      BY <3>1, <3>2, <3>3
  <2>4. n \in 0 .. Len(q)
    BY <1>1
  <2> QED
    BY <2>2, <2>3, <2>4 DEF y
<1> HIDE DEF D
<1>5. LET r == OfferEach(b, q) IN r \in X /\ r \in D[Len(q)]
  BY <1>1, <1>3, <1>4, <1>b, OfferLoop
<1>6. \A u \in Made : Times(u, q) = Upto(u, q, Len(q))
  BY TimesIs
<1>7. Len(q) \in 0 .. Len(q)
  BY <1>1
<1> QED
  BY <1>5, <1>6, <1>7 DEF D, X, Count

Sends ==
    {x \in [rd : Int, wr : 0 .. WritePorts, reads : [Lines -> Seq(Made)],
            writes : [Lines -> Nat], keep : Seq(Down("L2")), evicts : Seq(Victim),
            lru : Lrus, pq : Seq(Piping("L2"))] : PerLine(Made, x.reads)}

LEMMA L2SeesAll ==
    /\ "L2" \in Caches /\ SeenBy("L2") = Made
    /\ \A u \in Made : u.line \in Lines
  BY MadeIs DEF Caches, SeenBy

LEMMA SendStep ==
    ASSUME NEW refused, NEW x \in Sends, NEW t \in Down("L2")
    PROVE  LET y == SendDown(refused, x, t) IN
           /\ y \in Sends /\ y.evicts = x.evicts /\ y.lru = x.lru /\ y.pq = x.pq
           /\ \A u \in Made : Times(u, y.reads[u.line]) + Times(u, y.keep)
                                 = Times(u, x.reads[u.line]) + Times(u, x.keep) + Is(t, u)
<1> DEFINE y == SendDown(refused, x, t)  reads == x.reads
<1>1. /\ x.rd \in Int /\ x.wr \in 0 .. WritePorts /\ x.writes \in [Lines -> Nat]
      /\ x.keep \in Seq(Down("L2")) /\ PerLine(Made, reads) /\ reads \in [Lines -> Seq(Made)]
      /\ x.evicts \in Seq(Victim) /\ x.lru \in Lrus /\ x.pq \in Seq(Piping("L2"))
      /\ x = [rd |-> x.rd, wr |-> x.wr, reads |-> reads, writes |-> x.writes, keep |-> x.keep,
              evicts |-> x.evicts, lru |-> x.lru, pq |-> x.pq]
  BY DEF Sends
<1>2. t.line \in Lines /\ (t.port # "evict" => t \in Made) /\ (t.port = "evict" => t \notin Made)
  BY DownIs, L2SeesAll
<1>3. WritePorts \in Nat
  BY SizeAssumption
<1>4. \A u \in Made : Times(u, reads[u.line]) \in Nat /\ Times(u, x.keep) \in Nat /\ Is(t, u) \in Nat
  <2>1. \A u \in Made : reads[u.line] \in Seq(Made)
    BY <1>1, L2SeesAll
  <2> QED
    BY <1>1, <2>1, TimesIs DEF Is
<1>5. CASE t.port # "evict" /\ (IF t.load THEN x.rd > 0 ELSE x.wr > 0) /\ t.line \notin refused
  <2> DEFINE k == [reads EXCEPT ![t.line] = Append(@, t)]  rd == x.rd - 1
  <2>1. PerLine(Made, k) /\ \A u \in Made : Times(u, k[u.line]) = Times(u, reads[u.line]) + Is(t, u)
    <3>1. t \in Made /\ t.line \in Lines /\ \A u \in Made : u.line \in Lines
      BY <1>2, <1>5, L2SeesAll
    <3> QED
      BY <1>1, <3>1, PerLineAppend
  <2>2. rd \in Int
    BY <1>1
  <2>3. y = [x EXCEPT !.rd = @ - 1, !.reads[t.line] = Append(@, t)]
    BY <1>5 DEF SendDown
  <2>4. y = [rd |-> rd, wr |-> x.wr, reads |-> k, writes |-> x.writes, keep |-> x.keep,
             evicts |-> x.evicts, lru |-> x.lru, pq |-> x.pq]
    BY <1>1, <2>3
  <2> HIDE DEF y, k, rd, reads
  <2>5. /\ y.reads = k /\ y.keep = x.keep /\ y.evicts = x.evicts /\ y.lru = x.lru /\ y.pq = x.pq
        /\ y \in Sends
    BY <1>1, <2>1, <2>2, <2>4 DEF Sends, PerLine
  <2>6. \A u \in Made : Times(u, k[u.line]) + Times(u, x.keep)
                          = Times(u, reads[u.line]) + Times(u, x.keep) + Is(t, u)
    BY <1>4, <2>1
  <2> QED
    BY <2>5, <2>6 DEF y, reads
<1>6. CASE t.port = "evict" /\ x.wr > 0 /\ t.line \notin refused
  <2> DEFINE wr == x.wr - 1  writes == [x.writes EXCEPT ![t.line] = @ + 1]
  <2>1. wr \in 0 .. WritePorts /\ writes \in [Lines -> Nat]
    BY <1>1, <1>2, <1>3, <1>6
  <2>2. y = [x EXCEPT !.wr = @ - 1, !.writes[t.line] = @ + 1]
    BY <1>6 DEF SendDown
  <2>3. y = [rd |-> x.rd, wr |-> wr, reads |-> reads, writes |-> writes, keep |-> x.keep,
             evicts |-> x.evicts, lru |-> x.lru, pq |-> x.pq]
    BY <1>1, <2>2
  <2> HIDE DEF y, wr, writes, reads
  <2>4. /\ y.reads = reads /\ y.keep = x.keep /\ y.evicts = x.evicts /\ y.lru = x.lru /\ y.pq = x.pq
        /\ y \in Sends
    BY <1>1, <2>1, <2>3 DEF Sends
  <2>5. ASSUME NEW u \in Made PROVE Is(t, u) = 0
    BY <1>2, <1>6 DEF Is
  <2>6. \A u \in Made : Times(u, reads[u.line]) + Times(u, x.keep)
                          = Times(u, reads[u.line]) + Times(u, x.keep) + Is(t, u)
    BY <1>4, <2>5
  <2> QED
    BY <2>4, <2>6 DEF y, reads
<1>7. CASE /\ ~(t.port # "evict" /\ (IF t.load THEN x.rd > 0 ELSE x.wr > 0) /\ t.line \notin refused)
           /\ ~(t.port = "evict" /\ x.wr > 0 /\ t.line \notin refused)
  <2> DEFINE keep == Append(x.keep, t)
  <2>1. keep \in Seq(Down("L2")) /\ \A u \in Made : Times(u, keep) = Times(u, x.keep) + Is(t, u)
    BY <1>1, AppendProperties, TimesAppend
  <2>2. y = [x EXCEPT !.keep = Append(@, t)]
    BY <1>7 DEF SendDown
  <2>3. y = [rd |-> x.rd, wr |-> x.wr, reads |-> reads, writes |-> x.writes, keep |-> keep,
             evicts |-> x.evicts, lru |-> x.lru, pq |-> x.pq]
    BY <1>1, <2>2
  <2> HIDE DEF y, keep, reads
  <2>4. /\ y.reads = reads /\ y.keep = keep /\ y.evicts = x.evicts /\ y.lru = x.lru /\ y.pq = x.pq
        /\ y \in Sends
    BY <1>1, <2>1, <2>3 DEF Sends
  <2>5. \A u \in Made : Times(u, reads[u.line]) + Times(u, keep)
                          = Times(u, reads[u.line]) + Times(u, x.keep) + Is(t, u)
    BY <1>4, <2>1
  <2> QED
    BY <2>4, <2>5 DEF y, reads
<1> QED
  BY <1>5, <1>6, <1>7

LEMMA EvictStep ==
    ASSUME NEW refused, NEW x \in Sends, NEW e \in Victim
    PROVE  LET y == EvictDown(refused, x, e) IN
           y \in Sends /\ y.reads = x.reads /\ y.keep = x.keep /\ Piped(y.pq) = Piped(x.pq)
<1> DEFINE y == EvictDown(refused, x, e)
           dirty == \/ e.dirty
                    \/ \E c \in L1s : DirtyIn(x.lru[c][SetOf(c, e.line)], e.line)
                    \/ ConflictIn(x.pq, e.line)
<1>1. /\ x.rd \in Int /\ x.wr \in 0 .. WritePorts /\ x.writes \in [Lines -> Nat]
      /\ x.keep \in Seq(Down("L2")) /\ PerLine(Made, x.reads) /\ x.reads \in [Lines -> Seq(Made)]
      /\ x.evicts \in Seq(Victim) /\ x.lru \in Lrus /\ x.pq \in Seq(Piping("L2"))
      /\ x = [rd |-> x.rd, wr |-> x.wr, reads |-> x.reads, writes |-> x.writes, keep |-> x.keep,
              evicts |-> x.evicts, lru |-> x.lru, pq |-> x.pq]
  BY DEF Sends
<1>2. e.line \in Lines /\ WritePorts \in Nat /\ "L2" \in Caches
  BY SizeAssumption DEF Victim, Caches, L1s
<1>3. CASE x.wr = 0 \/ e.line \in refused
  <2> DEFINE evs == Append(x.evicts, e)
  <2>1. evs \in Seq(Victim)
    BY <1>1, AppendProperties
  <2>2. y = [x EXCEPT !.evicts = Append(@, e)]
    BY <1>3 DEF EvictDown
  <2>3. y = [rd |-> x.rd, wr |-> x.wr, reads |-> x.reads, writes |-> x.writes, keep |-> x.keep,
             evicts |-> evs, lru |-> x.lru, pq |-> x.pq]
    BY <1>1, <2>2
  <2> HIDE DEF y, evs
  <2>4. y.reads = x.reads /\ y.keep = x.keep /\ y.pq = x.pq /\ y \in Sends
    BY <1>1, <2>1, <2>3 DEF Sends
  <2> QED
    BY <2>4 DEF y
<1>4. CASE ~(x.wr = 0 \/ e.line \in refused)
  <2> DEFINE wr == IF dirty THEN x.wr - 1 ELSE x.wr
             writes == [x.writes EXCEPT ![e.line] = IF dirty THEN @ + 1 ELSE @]
             lru2 == Invalidated(x.lru, e.line)
             pq2 == Flagged(x.pq, e.line)
  <2>1. y = [x EXCEPT !.lru = Invalidated(@, e.line), !.pq = Flagged(@, e.line),
                      !.wr = IF dirty THEN @ - 1 ELSE @,
                      !.writes[e.line] = IF dirty THEN @ + 1 ELSE @]
    BY <1>4 DEF EvictDown
  <2> HIDE DEF dirty
  <2>2. wr \in 0 .. WritePorts /\ writes \in [Lines -> Nat]
    BY <1>1, <1>2, <1>4
  <2>4. lru2 \in Lrus
    <3>1. ASSUME NEW c \in Caches PROVE lru2[c] \in LruSets(c)
      <4>1. x.lru[c] \in LruSets(c)
        BY <1>1 DEF Lrus
      <4>2. CASE c = "L2"
        BY <4>1, <4>2 DEF Invalidated
      <4>3. CASE c # "L2"
        <5> DEFINE i == SetOf(c, e.line)  f == x.lru[c]
        <5>1. i \in 0 .. Sets[c] - 1 /\ Ways[c] \in Nat
          BY <1>2, SetOfIs, SizesAre
        <5>2. lru2[c] = [f EXCEPT ![i] = invalidate(@, e.line)]
          BY <4>3 DEF Invalidated
        <5>3. f[i] \in LruSet(Ways[c])
          BY <4>1, <5>1 DEF LruSets
        <5> HIDE DEF i
        <5>4. invalidate(f[i], e.line) \in LruSet(Ways[c])
          BY <5>1, <5>3, InvalidateIs
        <5> QED
          BY <4>1, <5>1, <5>2, <5>4 DEF LruSets
      <4> QED
        BY <4>2, <4>3
    <3>2. DOMAIN lru2 = Caches /\ lru2 = [c \in Caches |-> lru2[c]]
      BY DEF Invalidated
    <3> HIDE DEF lru2
    <3> QED
      BY <3>1, <3>2 DEF Lrus
  <2>5. pq2 \in Seq(Piping("L2")) /\ Piped(pq2) = Piped(x.pq)
    BY <1>1, <1>2, PipedFlagged
  <2>6. y = [rd |-> x.rd, wr |-> wr, reads |-> x.reads, writes |-> writes, keep |-> x.keep,
             evicts |-> x.evicts, lru |-> lru2, pq |-> pq2]
    BY <1>1, <2>1
  <2> HIDE DEF y, wr, writes, lru2, pq2
  <2>7. y.reads = x.reads /\ y.keep = x.keep /\ y.pq = pq2 /\ y \in Sends
    BY <1>1, <2>2, <2>4, <2>5, <2>6 DEF Sends
  <2> QED
    BY <2>5, <2>7 DEF y
<1> QED
  BY <1>3, <1>4

\* sendRequestsL2: the memory takes a transaction or it is kept, and then victims leave.
LEMMA AllSent ==
    ASSUME NEW refused, NEW b \in Sends, NEW q \in Seq(Down("L2"))
    PROVE  LET r == SendEach(refused, b, q) IN
           /\ r \in Sends /\ r.evicts = b.evicts /\ r.lru = b.lru /\ r.pq = b.pq
           /\ \A u \in Made : Times(u, r.reads[u.line]) + Times(u, r.keep)
                                 = Times(u, b.reads[u.line]) + Times(u, b.keep) + Times(u, q)
<1> DEFINE X == Sends
           Count(x, u) == Times(u, x.reads[u.line]) + Times(u, x.keep)
           Same(x) == x.evicts = b.evicts /\ x.lru = b.lru /\ x.pq = b.pq
           D == [n \in 0 .. Len(q) |-> {x \in X : Same(x) /\ \A u \in Made :
                    Count(x, u) = Count(b, u) + Upto(u, q, n)}]
<1>1. Len(q) \in Nat /\ DOMAIN q = 1 .. Len(q)
  BY LenProperties
<1>2. ASSUME NEW u \in Made PROVE Count(b, u) \in Nat
  <2>1. b.reads \in [Lines -> Seq(Made)] /\ b.keep \in Seq(Down("L2"))
    BY DEF Sends
  <2>2. b.reads[u.line] \in Seq(Made)
    BY <2>1, L2SeesAll
  <2>3. Times(u, b.reads[u.line]) \in Nat /\ Times(u, b.keep) \in Nat
    BY <2>1, <2>2, TimesIs
  <2> QED
    BY <2>3
<1>b. b \in X /\ Same(b)
  OBVIOUS
<1> HIDE DEF Count, X
<1>3. b \in D[0]
  <2>1. \A u \in Made : Upto(u, q, 0) = 0
    BY UptoStep
  <2>2. \A u \in Made : Count(b, u) = Count(b, u) + Upto(u, q, 0)
    BY <1>2, <2>1
  <2> QED
    BY <1>1, <1>b, <2>2
<1>4. ASSUME NEW x \in X, NEW n \in 1 .. Len(q)
      PROVE  LET y == SendDown(refused, x, q[n]) IN y \in X /\ (x \in D[n - 1] => y \in D[n])
  <2> DEFINE y == SendDown(refused, x, q[n])
  <2>1. q[n] \in Down("L2") /\ x \in Sends
    BY ElementOfSeq DEF X
  <2>2. /\ y \in X /\ y.evicts = x.evicts /\ y.lru = x.lru /\ y.pq = x.pq
        /\ \A u \in Made : Count(y, u) = Count(x, u) + Is(q[n], u)
    BY <2>1, SendStep DEF Count, X
  <2> HIDE DEF y
  <2>3. ASSUME x \in D[n - 1], NEW u \in Made
        PROVE  Count(y, u) = Count(b, u) + Upto(u, q, n)
    <3>1. Count(x, u) = Count(b, u) + Upto(u, q, n - 1)
      BY <1>1, <2>3
    <3>2. Upto(u, q, n) = Upto(u, q, n - 1) + Is(q[n], u) /\ Upto(u, q, n - 1) \in Nat /\ Is(q[n], u) \in Nat
      BY PassedIs
    <3>3. Count(b, u) \in Nat /\ Count(y, u) = Count(x, u) + Is(q[n], u)
      BY <1>2, <2>2
    <3> HIDE DEF D
    <3> QED
      BY <3>1, <3>2, <3>3
  <2>4. n \in 0 .. Len(q) /\ n - 1 \in 0 .. Len(q)
    BY <1>1
  <2>5. x \in D[n - 1] => Same(y)
    BY <2>2, <2>4
  <2> HIDE DEF Same
  <2> QED
    BY <2>2, <2>3, <2>4, <2>5 DEF y
<1> HIDE DEF D
<1>5. LET r == SendEach(refused, b, q) IN r \in X /\ r \in D[Len(q)]
  BY <1>1, <1>3, <1>4, <1>b, SendDownLoop
<1>6. \A u \in Made : Times(u, q) = Upto(u, q, Len(q))
  BY TimesIs
<1>7. Len(q) \in 0 .. Len(q)
  BY <1>1
<1> QED
  BY <1>5, <1>6, <1>7 DEF D, X, Count

LEMMA AllEvicted ==
    ASSUME NEW refused, NEW b \in Sends, NEW q \in Seq(Victim)
    PROVE  LET r == EvictEach(refused, b, q) IN
           r \in Sends /\ r.reads = b.reads /\ r.keep = b.keep /\ Piped(r.pq) = Piped(b.pq)
<1> DEFINE X == Sends
           Same(x) == x.reads = b.reads /\ x.keep = b.keep /\ Piped(x.pq) = Piped(b.pq)
           D == [n \in 0 .. Len(q) |-> {x \in X : Same(x)}]
<1>1. Len(q) \in Nat /\ DOMAIN q = 1 .. Len(q)
  BY LenProperties
<1>2. b \in X /\ b \in D[0]
  BY <1>1
<1>3. ASSUME NEW x \in X, NEW n \in 1 .. Len(q)
      PROVE  LET y == EvictDown(refused, x, q[n]) IN y \in X /\ (x \in D[n - 1] => y \in D[n])
  <2> DEFINE y == EvictDown(refused, x, q[n])
  <2>1. q[n] \in Victim
    BY ElementOfSeq
  <2>2. y \in X /\ y.reads = x.reads /\ y.keep = x.keep /\ Piped(y.pq) = Piped(x.pq)
    BY <2>1, EvictStep
  <2> HIDE DEF y, X
  <2>3. n \in 0 .. Len(q) /\ n - 1 \in 0 .. Len(q)
    BY <1>1
  <2>4. x \in D[n - 1] => y \in D[n]
    BY <2>2, <2>3
  <2> QED
    BY <2>2, <2>4 DEF y
<1> HIDE DEF X, D
<1>4. LET r == EvictEach(refused, b, q) IN r \in X /\ r \in D[Len(q)]
  BY <1>1, <1>2, <1>3, EvictDownLoop
<1>5. Len(q) \in 0 .. Len(q)
  BY <1>1
<1> QED
  BY <1>4, <1>5 DEF X, D

-----------------------------------------------------------------------------
(* The steps.                                                              *)

\* Transactions under way between c and the level below.
Own(c, t) == Times(t, outReq[c]) + Times(t, inResp[c])
Below(c, t) == IF c = "L2" THEN Times(t, dramReads[t.line]) ELSE Held("L2", t)

\* All counts are numbers.
LEMMA CountsAre ==
    ASSUME NEW c \in Caches, CacheType(c), NEW t, t.line \in Lines
    PROVE  /\ Times(t, inReq[c]) \in Nat /\ Times(t, Piped(pq[c])) \in Nat
           /\ Times(t, stalled[c]) \in Nat /\ Times(t, outResp[c]) \in Nat
           /\ Times(t, mshr[c][t.line]) \in Nat /\ Held(c, t) \in Nat
           /\ Times(t, outReq[c]) \in Nat /\ Times(t, inResp[c]) \in Nat /\ Own(c, t) \in Nat
<1>1. /\ inReq[c] \in Seq(Down(c)) /\ outReq[c] \in Seq(Down(c))
      /\ stalled[c] \in Seq(SeenBy(c)) /\ inResp[c] \in Seq(SeenBy(c))
      /\ outResp[c] \in Seq(SeenBy(c)) /\ pq[c] \in Seq(Piping(c))
      /\ mshr[c] \in [Lines -> Seq(SeenBy(c))]
  BY DEF CacheType, MshrFits, PerLine
<1>2. Piped(pq[c]) \in Seq(Down(c))
  BY <1>1, PipedIs
<1>3. mshr[c][t.line] \in Seq(SeenBy(c))
  BY <1>1
<1>4. Times(t, inReq[c]) \in Nat /\ Times(t, outReq[c]) \in Nat
  BY <1>1, TimesIs
<1>5. Times(t, stalled[c]) \in Nat /\ Times(t, inResp[c]) \in Nat /\ Times(t, outResp[c]) \in Nat
  BY <1>1, TimesIs
<1>6. Times(t, Piped(pq[c])) \in Nat /\ Times(t, mshr[c][t.line]) \in Nat
  BY <1>2, <1>3, TimesIs
<1> QED
  BY <1>4, <1>5, <1>6 DEF Held, Own

\* The transactions are those made.
LEMMA SameMade ==
    ASSUME issued' = issued
    PROVE  /\ Made' = Made
           /\ \A c : SeenBy(c)' = SeenBy(c) /\ Down(c)' = Down(c) /\ Piping(c)' = Piping(c)
  BY DEF Made, SeenBy, Down, Evictions, EvictOf, Piping, Transaction

\* A step that leaves cache d as it is.
Kept(d) ==
    /\ inReq'[d] = inReq[d] /\ outReq'[d] = outReq[d] /\ stalled'[d] = stalled[d]
    /\ inResp'[d] = inResp[d] /\ outResp'[d] = outResp[d] /\ pq'[d] = pq[d]
    /\ mshr'[d] = mshr[d] /\ evicts'[d] = evicts[d]
    /\ freeLd'[d] = freeLd[d] /\ freeSt'[d] = freeSt[d]

LEMMA KeptIs ==
    ASSUME NEW d \in Caches, Kept(d), issued' = issued, CacheType(d)
    PROVE  /\ CacheType(d)'
           /\ \A t : Held(d, t)' = Held(d, t) /\ Own(d, t)' = Own(d, t)
<1>1. CacheType(d)'
  <2>1. SeenBy(d)' = SeenBy(d) /\ Down(d)' = Down(d) /\ Piping(d)' = Piping(d)
    BY SameMade
  <2>2. MshrFits(d, mshr[d])'
    BY <2>1 DEF CacheType, MshrFits, MshrUsed, PerLine, Entered, Kept, OnLine
  <2> QED
    BY <2>1, <2>2 DEF CacheType, Kept
<1>2. \A t : Held(d, t)' = Held(d, t) /\ Own(d, t)' = Own(d, t)
  BY DEF Held, Own, Kept, Piped, Times
<1> QED
  BY <1>1, <1>2

LEMMA AskedIs ==
    ASSUME NEW c, NEW t
    PROVE  AskedBelow(c, t) = Own(c, t) + Below(c, t)
  BY DEF AskedBelow, Own, Below

LEMMA AskedIsPrimed ==
    ASSUME NEW c, NEW t
    PROVE  AskedBelow(c, t)' = Own(c, t)' + Below(c, t)'
  BY DEF AskedBelow, Own, Below

\* What the level below holds of it is a number.
LEMMA BelowIs ==
    ASSUME CType, NEW c \in Caches, NEW t \in Made
    PROVE  Below(c, t) \in Nat
<1>1. t.line \in Lines /\ dramReads \in [Lines -> Seq(Made)] /\ CacheType("L2")
  BY L2SeesAll DEF CType, DramType, PerLine
<1>2. dramReads[t.line] \in Seq(Made)
  BY <1>1
<1>3. Times(t, dramReads[t.line]) \in Nat
  BY <1>2, TimesIs
<1>4. Held("L2", t) \in Nat
  BY <1>1, L2SeesAll, CountsAre
<1> QED
  BY <1>3, <1>4 DEF Below

\* A step inside cache c: it holds the same transactions, and asks for one more
\* exactly when an MSHR entry is made for it.
LEMMA InsideStep ==
    ASSUME CInv, NEW c \in Caches, \A d \in Caches \ {c} : Kept(d),
           UNCHANGED <<issued, waiting, dram>>, PerCache', CacheType(c)',
           \A u \in SeenBy(c) :
              /\ Held(c, u)' = Held(c, u)
              /\ Own(c, u)' + Lead(mshr[c], u) = Own(c, u) + Lead(mshr[c], u)'
    PROVE  CInv'
<1>1. CType /\ AnsweredExactlyOnce /\ OneFillPerEntry /\ \A d \in Caches : CacheType(d)
  BY DEF CInv, CType
<1>2. Made' = Made /\ \A d : SeenBy(d)' = SeenBy(d)
  BY SameMade
<1>3. \A d \in Caches \ {c} :
         CacheType(d)' /\ \A t : Held(d, t)' = Held(d, t) /\ Own(d, t)' = Own(d, t)
  BY <1>1, KeptIs
<1>4. \A d \in Caches : \A u \in SeenBy(d) : Held(d, u)' = Held(d, u)
  BY <1>3
<1>5. CType'
  <2>1. ClientType'
    BY <1>1, <1>2 DEF CType, ClientType
  <2>2. DramType'
    BY <1>1, <1>2 DEF CType, DramType, PerLine, OnLine, dram
  <2> QED
    BY <1>3, <2>1, <2>2 DEF CType
<1>6. AnsweredExactlyOnce'
  <2>1. ASSUME NEW t \in Made
        PROVE  Held(Owner(t), t)' = IF t \in waiting' THEN 1 ELSE 0
    <3>1. Held(Owner(t), t) = IF t \in waiting THEN 1 ELSE 0
      BY <1>1 DEF AnsweredExactlyOnce
    <3>2. Owner(t) \in Caches /\ t \in SeenBy(Owner(t))
      BY MadeIs
    <3> DEFINE d == Owner(t)
    <3> HIDE DEF d
    <3>3. Held(d, t)' = Held(d, t)
      BY <1>4, <3>2 DEF d
    <3> QED
      BY <3>1, <3>3 DEF d, Owner
  <2> QED
    BY <1>2, <2>1 DEF AnsweredExactlyOnce
<1>7. OneFillPerEntry'
  <2>1. ASSUME NEW d \in Caches, NEW u \in SeenBy(d)
        PROVE  Own(d, u)' + Below(d, u)' = Lead(mshr[d], u)'
    <3>1. u \in Made
      BY SeenIs
    <3>2. Own(d, u) + Below(d, u) = Lead(mshr[d], u)
      BY <1>1, AskedIs DEF OneFillPerEntry, Lead
    <3>3. Below(d, u)' = Below(d, u)
      BY <1>4, <3>1, L2SeesAll DEF Below, dram
    <3>4. Own(d, u) \in Nat /\ Below(d, u) \in Nat /\ Lead(mshr[d], u) \in Nat
      BY <1>1, <3>1, L2SeesAll, CountsAre, BelowIs DEF Lead
    <3>5. Own(d, u)' \in Nat /\ Lead(mshr[d], u)' \in Nat
      <4>1. CacheType(d)' /\ u.line \in Lines
        BY <1>3, <3>1, L2SeesAll
      <4>2. Own(d, u)' \in Nat
        <5>1. /\ outReq'[d] \in Seq(Down(d)') /\ inResp'[d] \in Seq(SeenBy(d)')
          BY <4>1 DEF CacheType
        <5>2. Times(u, outReq'[d]) \in Nat /\ Times(u, inResp'[d]) \in Nat
          BY <5>1, TimesIs
        <5> QED
          BY <5>2 DEF Own, Times
      <4> QED
        BY <4>2 DEF Lead
    <3>6. CASE d = c
      <4>1. Own(c, u)' + Lead(mshr[c], u) = Own(c, u) + Lead(mshr[c], u)'
        BY <3>6
      <4> DEFINE o == Own(c, u)  p == Own(c, u)'  l == Lead(mshr[c], u)  k == Lead(mshr[c], u)'
                 w == Below(c, u)  v == Below(c, u)'
      <4>2. /\ p + l = o + k /\ o + w = l /\ v = w /\ o \in Nat /\ p \in Nat /\ l \in Nat /\ k \in Nat
            /\ w \in Nat
        BY <3>2, <3>3, <3>4, <3>5, <3>6, <4>1
      <4> HIDE DEF o, p, l, k, w, v
      <4>3. p + v = k
        BY <4>2
      <4> QED
        BY <3>6, <4>3 DEF p, v, k
    <3>7. CASE d # c
      <4>1. Own(d, u)' = Own(d, u) /\ mshr'[d] = mshr[d]
        BY <1>3, <3>7 DEF Kept
      <4>2. Lead(mshr[d], u)' = Lead(mshr[d], u)
        BY <4>1 DEF Lead, Leads
      <4> QED
        BY <3>2, <3>3, <4>1, <4>2
    <3> QED
      BY <3>6, <3>7
  <2>2. ASSUME NEW d \in Caches, NEW u \in SeenBy(d)
        PROVE  AskedBelow(d, u)' = IF Leads(mshr'[d], u) THEN 1 ELSE 0
    <3>1. AskedBelow(d, u)' = Lead(mshr[d], u)'
      BY <2>1, <2>2, AskedIsPrimed
    <3> QED
      BY <3>1 DEF Lead, Leads
  <2> QED
    BY <1>2, <2>2 DEF OneFillPerEntry
<1> QED
  BY <1>5, <1>6, <1>7 DEF CInv

LEMMA RequestsHandled ==
    ASSUME CInv, NEW c \in Caches, handleRequests(c)
    PROVE  CInv'
<1> DEFINE b == [sets |-> lru[c], pq |-> pq[c]]  s == ArriveEach(c, b, inReq[c])
<1>1. CacheType(c) /\ PerCache
  BY DEF CInv, CType
<1>2. b \in Arrivals(c) /\ inReq[c] \in Seq(Down(c)) /\ pq[c] \in Seq(Piping(c))
  BY <1>1 DEF CacheType, PerCache, Lrus, Arrivals
<1>3. /\ s \in Arrivals(c)
      /\ \A u \in SeenBy(c) : Times(u, Piped(s.pq)) = Times(u, Piped(b.pq)) + Times(u, inReq[c])
  BY <1>2, AllArrive
<1>4. b.pq = pq[c]
  OBVIOUS
<1>5. /\ lru' = [lru EXCEPT ![c] = s.sets] /\ pq' = [pq EXCEPT ![c] = s.pq]
      /\ inReq' = [inReq EXCEPT ![c] = <<>>]
      /\ UNCHANGED <<client, inResp, outReq, outResp, stalled, mshr, evicts, ports, dram>>
  BY DEF handleRequests
<1> HIDE DEF b, s
<1>6. s.sets \in LruSets(c) /\ s.pq \in Seq(Piping(c))
  BY <1>3 DEF Arrivals
<1>7. /\ issued' = issued /\ waiting' = waiting /\ dram' = dram /\ inResp' = inResp
      /\ outReq' = outReq /\ outResp' = outResp /\ stalled' = stalled /\ mshr' = mshr
      /\ evicts' = evicts /\ freeLd' = freeLd /\ freeSt' = freeSt
  BY <1>5 DEF client, ports
<1>8. inReq'[c] = <<>> /\ pq'[c] = s.pq
  BY <1>1, <1>5 DEF PerCache
<1>9. \A d \in Caches \ {c} : Kept(d)
  BY <1>1, <1>5, <1>7 DEF PerCache, Kept
<1>10. PerCache'
  <2>1. lru' \in Lrus
    BY <1>1, <1>5, <1>6 DEF PerCache, Lrus
  <2> QED
    BY <1>1, <1>5, <1>7, <2>1 DEF PerCache
<1>11. CacheType(c)'
  <2>1. SeenBy(c)' = SeenBy(c) /\ Down(c)' = Down(c) /\ Piping(c)' = Piping(c)
    BY <1>7, SameMade
  <2>2. MshrFits(c, mshr[c])'
    BY <1>1, <1>7, <2>1 DEF CacheType, MshrFits, MshrUsed, PerLine, Entered, OnLine
  <2>3. inReq'[c] \in Seq(Down(c)) /\ pq'[c] \in Seq(Piping(c))
    BY <1>6, <1>8
  <2> QED
    BY <1>1, <1>7, <2>1, <2>2, <2>3 DEF CacheType
<1>12. ASSUME NEW u \in SeenBy(c)
       PROVE  Held(c, u)' = Held(c, u) /\ Own(c, u)' + Lead(mshr[c], u) = Own(c, u) + Lead(mshr[c], u)'
  <2>1. u.line \in Lines
    BY SeenIs
  <2>2. /\ Held(c, u)' = Times(u, inReq'[c]) + Times(u, Piped(pq'[c])) + Times(u, stalled[c])
                           + Times(u, outResp[c]) + Times(u, mshr[c][u.line])
        /\ Own(c, u)' = Own(c, u) /\ Lead(mshr[c], u)' = Lead(mshr[c], u)
    BY <1>7 DEF Held, Own, Lead, Leads, Times, Piped
  <2>3. Times(u, inReq'[c]) = 0
    BY <1>8, TimesEmpty
  <2>4. Times(u, Piped(pq'[c])) = Times(u, Piped(pq[c])) + Times(u, inReq[c])
    BY <1>3, <1>4, <1>8
  <2>5. /\ Times(u, inReq[c]) \in Nat /\ Times(u, Piped(pq[c])) \in Nat /\ Times(u, stalled[c]) \in Nat
        /\ Times(u, outResp[c]) \in Nat /\ Times(u, mshr[c][u.line]) \in Nat
    BY <1>1, <2>1, CountsAre
  <2>6. Held(c, u)' = Held(c, u)
    BY <2>2, <2>3, <2>4, <2>5 DEF Held
  <2> QED
    BY <2>2, <2>6
<1> QED
  BY <1>7, <1>9, <1>10, <1>11, <1>12, InsideStep

\* The transactions that missed, as retryStalled and processPq find them.
LEMMA MissesAre ==
    ASSUME NEW c \in Caches, CacheType(c), NEW w \in Seq(SeenBy(c))
    PROVE  MissState(c, w) \in Misses(c)
  BY DEF CacheType, MshrFits, PerLine, MissState, Misses

LEMMA StalledRetried ==
    ASSUME CInv, NEW c \in Caches, retryStalled(c)
    PROVE  CInv'
<1> DEFINE b == MissState(c, <<>>)  s == EnterEach(c, b, stalled[c])
<1>1. CacheType(c) /\ PerCache
  BY DEF CInv, CType
<1>2. b \in Misses(c) /\ stalled[c] \in Seq(SeenBy(c)) /\ pq[c] \in Seq(Piping(c))
  <2>1. <<>> \in Seq(SeenBy(c))
    OBVIOUS
  <2> QED
    BY <1>1, <2>1, MissesAre DEF CacheType
<1>3. /\ s \in Misses(c)
      /\ \A u \in SeenBy(c) :
            /\ Times(u, s.mshr[u.line]) + Times(u, s.stalled)
                   = Times(u, b.mshr[u.line]) + Times(u, b.stalled) + Times(u, stalled[c])
            /\ Times(u, s.out) + Lead(b.mshr, u) = Times(u, b.out) + Lead(s.mshr, u)
  BY <1>2, AllEnter
<1>4. b.mshr = mshr[c] /\ b.out = outReq[c] /\ b.stalled = <<>>
  BY DEF MissState
<1>5. /\ mshr' = [mshr EXCEPT ![c] = s.mshr] /\ outReq' = [outReq EXCEPT ![c] = s.out]
      /\ stalled' = [stalled EXCEPT ![c] = s.stalled]
      /\ UNCHANGED <<client, inReq, inResp, outResp, pq, evicts, lru, ports, dram>>
  BY DEF retryStalled, EnterAll
<1> HIDE DEF b, s
<1>6. s.stalled \in Seq(SeenBy(c)) /\ s.out \in Seq(Down(c)) /\ MshrFits(c, s.mshr)
  BY <1>3 DEF Misses
<1>7. /\ issued' = issued /\ waiting' = waiting /\ dram' = dram /\ inResp' = inResp
      /\ inReq' = inReq /\ outResp' = outResp /\ pq' = pq /\ lru' = lru
      /\ evicts' = evicts /\ freeLd' = freeLd /\ freeSt' = freeSt
  BY <1>5 DEF client, ports
<1>8. mshr'[c] = s.mshr /\ outReq'[c] = s.out /\ stalled'[c] = s.stalled
  BY <1>1, <1>5 DEF PerCache
<1>9. \A d \in Caches \ {c} : Kept(d)
  BY <1>1, <1>5, <1>7 DEF PerCache, Kept
<1>10. PerCache'
  BY <1>1, <1>5, <1>7 DEF PerCache, Lrus, LruSets, LruSet, Entries
<1>11. CacheType(c)'
  <2>1. SeenBy(c)' = SeenBy(c) /\ Down(c)' = Down(c) /\ Piping(c)' = Piping(c)
    BY <1>7, SameMade
  <2>2. MshrFits(c, mshr[c])'
    BY <1>6, <1>8, <2>1 DEF MshrFits, MshrUsed, PerLine, Entered, OnLine
  <2> QED
    BY <1>1, <1>6, <1>7, <1>8, <2>1, <2>2 DEF CacheType
<1>12. ASSUME NEW u \in SeenBy(c)
       PROVE  Held(c, u)' = Held(c, u) /\ Own(c, u)' + Lead(mshr[c], u) = Own(c, u) + Lead(mshr[c], u)'
  <2>1. u.line \in Lines
    BY SeenIs
  <2>2. /\ Held(c, u)' = Times(u, inReq[c]) + Times(u, Piped(pq[c])) + Times(u, s.stalled)
                           + Times(u, outResp[c]) + Times(u, s.mshr[u.line])
        /\ Own(c, u)' = Times(u, s.out) + Times(u, inResp[c]) /\ Lead(mshr[c], u)' = Lead(s.mshr, u)
    BY <1>7, <1>8 DEF Held, Own, Lead, Leads, Times, Piped
  <2>3. Times(u, <<>>) = 0
    BY TimesEmpty
  <2>4. /\ Times(u, s.mshr[u.line]) + Times(u, s.stalled)
               = Times(u, mshr[c][u.line]) + Times(u, <<>>) + Times(u, stalled[c])
        /\ Times(u, s.out) + Lead(mshr[c], u) = Times(u, outReq[c]) + Lead(s.mshr, u)
    BY <1>3, <1>4
  <2>5. /\ Times(u, inReq[c]) \in Nat /\ Times(u, Piped(pq[c])) \in Nat /\ Times(u, stalled[c]) \in Nat
        /\ Times(u, outResp[c]) \in Nat /\ Times(u, mshr[c][u.line]) \in Nat
        /\ Times(u, outReq[c]) \in Nat /\ Times(u, inResp[c]) \in Nat
    BY <1>1, <2>1, CountsAre
  <2>6. Times(u, s.stalled) \in Nat /\ Times(u, s.mshr[u.line]) \in Nat /\ Times(u, s.out) \in Nat
    <3>1. s.mshr[u.line] \in Seq(SeenBy(c))
      BY <1>6, <2>1 DEF MshrFits, PerLine
    <3> QED
      BY <1>6, <3>1, TimesIs
  <2>7. Lead(mshr[c], u) \in Nat /\ Lead(s.mshr, u) \in Nat
    BY DEF Lead
  <2>8. Held(c, u)' = Held(c, u)
    <3> DEFINE i == Times(u, inReq[c])  p == Times(u, Piped(pq[c]))  w == Times(u, stalled[c])
               o == Times(u, outResp[c])  m == Times(u, mshr[c][u.line])
               w2 == Times(u, s.stalled)  m2 == Times(u, s.mshr[u.line])
    <3>1. /\ i \in Nat /\ p \in Nat /\ w \in Nat /\ o \in Nat /\ m \in Nat /\ w2 \in Nat /\ m2 \in Nat
          /\ m2 + w2 = m + 0 + w
      BY <2>3, <2>4, <2>5, <2>6
    <3>2. Held(c, u)' = i + p + w2 + o + m2 /\ Held(c, u) = i + p + w + o + m
      BY <2>2 DEF Held
    <3> HIDE DEF i, p, w, o, m, w2, m2
    <3>3. i + p + w2 + o + m2 = i + p + w + o + m
      BY <3>1
    <3> QED
      BY <3>2, <3>3
  <2>9. Own(c, u)' + Lead(mshr[c], u) = Own(c, u) + Lead(s.mshr, u)
    <3> DEFINE i == Times(u, inResp[c])  o == Times(u, outReq[c])  l == Lead(mshr[c], u)
               o2 == Times(u, s.out)  l2 == Lead(s.mshr, u)
    <3>1. i \in Nat /\ o \in Nat /\ l \in Nat /\ o2 \in Nat /\ l2 \in Nat /\ o2 + l = o + l2
      BY <2>4, <2>5, <2>6, <2>7
    <3>2. Own(c, u)' = o2 + i /\ Own(c, u) = o + i
      BY <2>2 DEF Own
    <3> HIDE DEF i, o, l, o2, l2
    <3>3. (o2 + i) + l = (o + i) + l2
      BY <3>1
    <3> QED
      BY <3>2, <3>3 DEF l, l2
  <2> QED
    BY <2>2, <2>8, <2>9
<1> QED
  BY <1>7, <1>9, <1>10, <1>11, <1>12, InsideStep

\* A transaction leaves the pipeline: a hit is answered, a miss enters the MSHR, and
\* an eviction is dropped or was a hit.
LEMMA PqProcessed ==
    ASSUME CInv, NEW c \in Caches, processPq(c)
    PROVE  CInv'
<1>1. CacheType(c) /\ PerCache
  BY DEF CInv, CType
<1>2. PICK i \in Due(c) :
        LET e == pq[c][i] IN
        /\ pq' = [pq EXCEPT ![c] = RemoveAt(@, i)]
        /\ outResp' = [outResp EXCEPT ![c] =
                           IF e.hit /\ e.t.port # "evict" THEN Append(@, e.t) ELSE @]
        /\ IF ~e.hit /\ e.t.port # "evict"
           THEN EnterAll(c, enterMSHR(c, MissState(c, stalled[c]), e.t))
           ELSE UNCHANGED <<mshr, outReq, stalled>>
        /\ UNCHANGED <<pc, client, inReq, inResp, evicts, lru, ports, dram>>
  BY DEF processPq
<1> DEFINE t == pq[c][i].t  hit == pq[c][i].hit /\ t.port # "evict"
           miss == ~pq[c][i].hit /\ t.port # "evict"
           b == MissState(c, stalled[c])  q == RemoveAt(pq[c], i)
           o == IF hit THEN Append(outResp[c], t) ELSE outResp[c]
           s == IF miss THEN enterMSHR(c, b, t) ELSE b
<1>3. pq[c] \in Seq(Piping(c)) /\ i \in 1 .. Len(pq[c])
  BY <1>1 DEF CacheType, Due
<1>4. t \in Down(c) /\ (t.port # "evict" => t \in SeenBy(c)) /\ (t.port = "evict" => t \notin Made)
  <2>1. pq[c][i] \in Piping(c)
    BY <1>3, ElementOfSeq
  <2>2. t \in Down(c)
    BY <2>1 DEF Piping
  <2> HIDE DEF t
  <2> QED
    BY <2>2, DownIs
<1>5. /\ q \in Seq(Piping(c))
      /\ \A u \in SeenBy(c) : Times(u, Piped(pq[c])) = Times(u, Piped(q)) + Is(t, u)
  <2>1. q \in Seq(Piping(c))
    BY <1>3, RemoveIs
  <2>2. Piped(q) = RemoveAt(Piped(pq[c]), i)
    BY <1>3, PipedRemove
  <2>3. Piped(pq[c]) \in Seq(Down(c)) /\ Len(Piped(pq[c])) = Len(pq[c]) /\ Piped(pq[c])[i] = t
    BY <1>3, PipedIs
  <2> HIDE DEF t
  <2>4. ASSUME NEW u \in SeenBy(c)
        PROVE  Times(u, Piped(pq[c])) = Times(u, RemoveAt(Piped(pq[c]), i)) + Is(t, u)
    BY <1>3, <2>3, TimesRemove
  <2> QED
    BY <2>1, <2>2, <2>4
<1>6. b \in Misses(c) /\ b.mshr = mshr[c] /\ b.out = outReq[c] /\ b.stalled = stalled[c]
  <2>1. b \in Misses(c)
    BY <1>1, MissesAre DEF CacheType
  <2> QED
    BY <2>1 DEF MissState
<1>7. /\ s \in Misses(c)
      /\ \A u \in SeenBy(c) :
            /\ Times(u, s.mshr[u.line]) + Times(u, s.stalled)
                   = Times(u, mshr[c][u.line]) + Times(u, stalled[c]) + IF miss THEN Is(t, u) ELSE 0
            /\ Times(u, s.out) + Lead(mshr[c], u) = Times(u, outReq[c]) + Lead(s.mshr, u)
  <2>1. CASE miss
    <3>1. t \in SeenBy(c) /\ s = enterMSHR(c, b, t)
      BY <1>4, <2>1
    <3> HIDE DEF b, t, miss, s
    <3>2. /\ s \in Misses(c)
          /\ \A u \in SeenBy(c) :
                /\ Times(u, s.mshr[u.line]) + Times(u, s.stalled)
                       = Times(u, b.mshr[u.line]) + Times(u, b.stalled) + Is(t, u)
                /\ Times(u, s.out) + Lead(b.mshr, u) = Times(u, b.out) + Lead(s.mshr, u)
      BY <1>6, <3>1, EnterStep
    <3> QED
      BY <1>6, <2>1, <3>2
  <2>2. CASE ~miss
    <3>1. s = b
      BY <2>2
    <3>2. ASSUME NEW u \in SeenBy(c)
          PROVE  Times(u, mshr[c][u.line]) \in Nat /\ Times(u, stalled[c]) \in Nat
      BY <1>1, SeenIs, CountsAre
    <3> HIDE DEF s, b, miss
    <3>3. ASSUME NEW u \in SeenBy(c)
          PROVE  Times(u, mshr[c][u.line]) + Times(u, stalled[c])
                    = Times(u, mshr[c][u.line]) + Times(u, stalled[c]) + 0
      <4> DEFINE x == Times(u, mshr[c][u.line])  y == Times(u, stalled[c])
      <4>1. x \in Nat /\ y \in Nat
        BY <3>2
      <4> HIDE DEF x, y
      <4>2. x + y = x + y + 0
        BY <4>1
      <4> QED
        BY <4>2 DEF x, y
    <3> QED
      BY <1>6, <2>2, <3>1, <3>3
  <2> HIDE DEF miss
  <2> QED
    BY <2>1, <2>2
<1>8. /\ o \in Seq(SeenBy(c))
      /\ \A u \in SeenBy(c) : Times(u, o) = Times(u, outResp[c]) + IF hit THEN Is(t, u) ELSE 0
  <2>1. outResp[c] \in Seq(SeenBy(c))
    BY <1>1 DEF CacheType
  <2>2. CASE hit
    <3>1. t \in SeenBy(c)
      BY <1>4, <2>2
    <3> HIDE DEF t
    <3> QED
      BY <2>1, <2>2, <3>1, AppendProperties, TimesAppend
  <2>3. CASE ~hit
    <3>1. \A u \in SeenBy(c) : Times(u, outResp[c]) \in Nat
      BY <2>1, TimesIs
    <3> HIDE DEF t, hit
    <3> QED
      BY <2>1, <2>3, <3>1
  <2> HIDE DEF hit
  <2> QED
    BY <2>2, <2>3
<1>9. /\ pq' = [pq EXCEPT ![c] = q] /\ outResp' = [outResp EXCEPT ![c] = o]
      /\ UNCHANGED <<client, inReq, inResp, evicts, lru, ports, dram>>
  BY <1>2
<1>10. /\ mshr'[c] = s.mshr /\ outReq'[c] = s.out /\ stalled'[c] = s.stalled
       /\ DOMAIN mshr' = Caches /\ DOMAIN outReq' = Caches /\ DOMAIN stalled' = Caches
       /\ \A d \in Caches \ {c} : mshr'[d] = mshr[d] /\ outReq'[d] = outReq[d] /\ stalled'[d] = stalled[d]
  <2>1. CASE miss
    <3>1. EnterAll(c, s)
      BY <1>2, <2>1
    <3> HIDE DEF s
    <3> QED
      BY <1>1, <3>1 DEF EnterAll, PerCache
  <2>2. CASE ~miss
    <3>1. s = b /\ mshr' = mshr /\ outReq' = outReq /\ stalled' = stalled
      BY <1>2, <2>2
    <3> HIDE DEF s, b
    <3> QED
      BY <1>1, <1>6, <3>1 DEF PerCache
  <2> HIDE DEF miss
  <2> QED
    BY <2>1, <2>2
<1>11. ASSUME NEW u \in SeenBy(c)
       PROVE  Is(t, u) = (IF miss THEN Is(t, u) ELSE 0) + (IF hit THEN Is(t, u) ELSE 0)
  <2>1. t.port = "evict" => Is(t, u) = 0
    BY <1>4, SeenIs DEF Is
  <2>2. Is(t, u) \in Nat
    BY DEF Is
  <2> HIDE DEF t
  <2> QED
    BY <2>1, <2>2
<1> HIDE DEF t, hit, miss, b, q, o, s
<1>12. s.stalled \in Seq(SeenBy(c)) /\ s.out \in Seq(Down(c)) /\ MshrFits(c, s.mshr)
  BY <1>7 DEF Misses
<1>13. /\ issued' = issued /\ waiting' = waiting /\ dram' = dram /\ inResp' = inResp
       /\ inReq' = inReq /\ lru' = lru /\ evicts' = evicts /\ freeLd' = freeLd /\ freeSt' = freeSt
  BY <1>9 DEF client, ports
<1>14. pq'[c] = q /\ outResp'[c] = o
  BY <1>1, <1>9 DEF PerCache
<1>15. \A d \in Caches \ {c} : Kept(d)
  BY <1>1, <1>9, <1>10, <1>13 DEF PerCache, Kept
<1>16. PerCache'
  BY <1>1, <1>9, <1>10, <1>13 DEF PerCache, Lrus, LruSets, LruSet, Entries
<1>17. CacheType(c)'
  <2>1. SeenBy(c)' = SeenBy(c) /\ Down(c)' = Down(c) /\ Piping(c)' = Piping(c)
    BY <1>13, SameMade
  <2>2. MshrFits(c, mshr[c])'
    BY <1>10, <1>12, <2>1 DEF MshrFits, MshrUsed, PerLine, Entered, OnLine
  <2> QED
    BY <1>1, <1>5, <1>8, <1>10, <1>12, <1>13, <1>14, <2>1, <2>2 DEF CacheType
<1>18. ASSUME NEW u \in SeenBy(c)
       PROVE  Held(c, u)' = Held(c, u) /\ Own(c, u)' + Lead(mshr[c], u) = Own(c, u) + Lead(mshr[c], u)'
  <2>1. u.line \in Lines
    BY SeenIs
  <2>2. /\ Held(c, u)' = Times(u, inReq[c]) + Times(u, Piped(q)) + Times(u, s.stalled)
                           + Times(u, o) + Times(u, s.mshr[u.line])
        /\ Own(c, u)' = Times(u, s.out) + Times(u, inResp[c]) /\ Lead(mshr[c], u)' = Lead(s.mshr, u)
    BY <1>10, <1>13, <1>14 DEF Held, Own, Lead, Leads, Times, Piped
  <2>3. /\ Times(u, inReq[c]) \in Nat /\ Times(u, Piped(pq[c])) \in Nat /\ Times(u, stalled[c]) \in Nat
        /\ Times(u, outResp[c]) \in Nat /\ Times(u, mshr[c][u.line]) \in Nat
        /\ Times(u, outReq[c]) \in Nat /\ Times(u, inResp[c]) \in Nat
    BY <1>1, <2>1, CountsAre
  <2>4. /\ Times(u, s.stalled) \in Nat /\ Times(u, s.mshr[u.line]) \in Nat /\ Times(u, s.out) \in Nat
        /\ Times(u, Piped(q)) \in Nat /\ Times(u, o) \in Nat
    <3>1. s.mshr[u.line] \in Seq(SeenBy(c)) /\ Piped(q) \in Seq(Down(c))
      BY <1>5, <1>12, <2>1, PipedIs DEF MshrFits, PerLine
    <3> QED
      BY <1>8, <1>12, <3>1, TimesIs
  <2>5. Lead(mshr[c], u) \in Nat /\ Lead(s.mshr, u) \in Nat
    BY DEF Lead
  <2>6. Held(c, u)' = Held(c, u)
    <3> DEFINE i0 == Times(u, inReq[c])  p == Times(u, Piped(pq[c]))  w == Times(u, stalled[c])
               o0 == Times(u, outResp[c])  m == Times(u, mshr[c][u.line])
               p2 == Times(u, Piped(q))  w2 == Times(u, s.stalled)  o2 == Times(u, o)
               m2 == Times(u, s.mshr[u.line])
               x == IF miss THEN Is(t, u) ELSE 0  y == IF hit THEN Is(t, u) ELSE 0  z == Is(t, u)
    <3>1. /\ i0 \in Nat /\ p \in Nat /\ w \in Nat /\ o0 \in Nat /\ m \in Nat
          /\ p2 \in Nat /\ w2 \in Nat /\ o2 \in Nat /\ m2 \in Nat
      BY <2>3, <2>4
    <3>2. p = p2 + z /\ m2 + w2 = m + w + x /\ o2 = o0 + y /\ z = x + y
      BY <1>5, <1>7, <1>8, <1>11
    <3>3. x \in Nat /\ y \in Nat
      BY DEF Is
    <3>4. Held(c, u)' = i0 + p2 + w2 + o2 + m2 /\ Held(c, u) = i0 + p + w + o0 + m
      BY <2>2 DEF Held
    <3> HIDE DEF i0, p, w, o0, m, p2, w2, o2, m2, x, y, z
    <3>5. i0 + p2 + w2 + o2 + m2 = i0 + p + w + o0 + m
      BY <3>1, <3>2, <3>3
    <3> QED
      BY <3>4, <3>5
  <2>7. Own(c, u)' + Lead(mshr[c], u) = Own(c, u) + Lead(s.mshr, u)
    <3> DEFINE i0 == Times(u, inResp[c])  o0 == Times(u, outReq[c])  l == Lead(mshr[c], u)
               o2 == Times(u, s.out)  l2 == Lead(s.mshr, u)
    <3>1. i0 \in Nat /\ o0 \in Nat /\ l \in Nat /\ o2 \in Nat /\ l2 \in Nat /\ o2 + l = o0 + l2
      BY <1>7, <2>3, <2>4, <2>5
    <3>2. Own(c, u)' = o2 + i0 /\ Own(c, u) = o0 + i0
      BY <2>2 DEF Own
    <3> HIDE DEF i0, o0, l, o2, l2
    <3>3. (o2 + i0) + l = (o0 + i0) + l2
      BY <3>1
    <3> QED
      BY <3>2, <3>3 DEF l, l2
  <2> QED
    BY <2>2, <2>6, <2>7
<1> QED
  BY <1>13, <1>15, <1>16, <1>17, <1>18, InsideStep

\* Every response is of the first transaction of an entry, by OneFillPerEntry.
LEMMA RepliesLead ==
    ASSUME CInv, NEW c \in Caches, NEW u \in SeenBy(c)
    PROVE  Times(u, inResp[c]) <= Lead(mshr[c], u)
<1>1. CType /\ OneFillPerEntry /\ CacheType(c)
  BY DEF CInv, CType
<1>2. u \in Made /\ u.line \in Lines
  BY SeenIs
<1>3. Times(u, outReq[c]) \in Nat /\ Times(u, inResp[c]) \in Nat /\ Below(c, u) \in Nat
  BY <1>1, <1>2, CountsAre, BelowIs
<1>4. (Times(u, outReq[c]) + Times(u, inResp[c])) + Below(c, u) = Lead(mshr[c], u)
  BY <1>1, AskedIs DEF OneFillPerEntry, Lead, Own
<1> DEFINE x == Times(u, outReq[c])  y == Times(u, inResp[c])  z == Below(c, u)
           l == Lead(mshr[c], u)
<1>5. x \in Nat /\ y \in Nat /\ z \in Nat /\ (x + y) + z = l
  BY <1>3, <1>4
<1> HIDE DEF x, y, z, l
<1>6. y <= l
  BY <1>5
<1> QED
  BY <1>6 DEF y, l

\* handleResponses: an MSHR entry is answered as a whole, by its one fill.
LEMMA ResponsesHandled ==
    ASSUME CInv, NEW c \in Caches, handleResponses(c)
    PROVE  CInv'
<1> DEFINE b == [sets |-> lru[c], evicts |-> evicts[c], out |-> outResp[c], mshr |-> mshr[c]]
           q == inResp[c]  s == FillEach(c, b, q)
<1>1. CType /\ CacheType(c) /\ PerCache /\ OneFillPerEntry
  BY DEF CInv, CType
<1>2. b \in Fills(c) /\ q \in Seq(SeenBy(c))
  BY <1>1 DEF CacheType, PerCache, Lrus, Fills, MshrFits, PerLine
<1>3. b.mshr = mshr[c] /\ b.out = outResp[c]
  OBVIOUS
<1>4. ASSUME NEW u \in SeenBy(c) PROVE Times(u, q) <= Lead(mshr[c], u)
  BY RepliesLead
<1>5. /\ lru' = [lru EXCEPT ![c] = s.sets] /\ evicts' = [evicts EXCEPT ![c] = s.evicts]
      /\ outResp' = [outResp EXCEPT ![c] = s.out] /\ mshr' = [mshr EXCEPT ![c] = s.mshr]
      /\ inResp' = [inResp EXCEPT ![c] = <<>>]
      /\ UNCHANGED <<client, inReq, outReq, stalled, pq, ports, dram>>
  BY DEF handleResponses
<1> HIDE DEF b, s, q
<1>6. /\ s \in Fills(c)
      /\ \A u \in SeenBy(c) :
            /\ Times(u, s.out) + Times(u, s.mshr[u.line]) = Times(u, outResp[c]) + Times(u, mshr[c][u.line])
            /\ Lead(s.mshr, u) + Times(u, q) = Lead(mshr[c], u)
  <2>1. \A u \in SeenBy(c) : Times(u, q) <= Lead(b.mshr, u)
    BY <1>3, <1>4
  <2>2. \A x \in Fills(c), t \in SeenBy(c) :
           x \in Fills(c) /\ Leads(x.mshr, t) => Fill(c, x, t) \in Fills(c)
    BY FillStep
  <2> QED
    BY <1>2, <1>3, <2>1, <2>2, AllFill DEF s
<1>7. s.out \in Seq(SeenBy(c)) /\ s.sets \in LruSets(c) /\ s.evicts \in Seq(Victim) /\ MshrFits(c, s.mshr)
  BY <1>6 DEF Fills
<1>8. /\ issued' = issued /\ waiting' = waiting /\ dram' = dram /\ inReq' = inReq
      /\ outReq' = outReq /\ stalled' = stalled /\ pq' = pq /\ freeLd' = freeLd /\ freeSt' = freeSt
  BY <1>5 DEF client, ports
<1>9. mshr'[c] = s.mshr /\ outResp'[c] = s.out /\ inResp'[c] = <<>> /\ evicts'[c] = s.evicts
  BY <1>1, <1>5 DEF PerCache
<1>10. \A d \in Caches \ {c} : Kept(d)
  BY <1>1, <1>5, <1>8 DEF PerCache, Kept
<1>11. PerCache'
  <2>1. lru' \in Lrus
    BY <1>1, <1>5, <1>7 DEF PerCache, Lrus
  <2> QED
    BY <1>1, <1>5, <1>8, <2>1 DEF PerCache
<1>12. CacheType(c)'
  <2>1. SeenBy(c)' = SeenBy(c) /\ Down(c)' = Down(c) /\ Piping(c)' = Piping(c)
    BY <1>8, SameMade
  <2>2. MshrFits(c, mshr[c])'
    BY <1>7, <1>9, <2>1 DEF MshrFits, MshrUsed, PerLine, Entered, OnLine
  <2>3. inResp'[c] \in Seq(SeenBy(c))
    BY <1>9
  <2> QED
    BY <1>1, <1>7, <1>8, <1>9, <2>1, <2>2, <2>3 DEF CacheType
<1>13. ASSUME NEW u \in SeenBy(c)
       PROVE  Held(c, u)' = Held(c, u) /\ Own(c, u)' + Lead(mshr[c], u) = Own(c, u) + Lead(mshr[c], u)'
  <2>1. u.line \in Lines
    BY SeenIs
  <2>2. /\ Held(c, u)' = Times(u, inReq[c]) + Times(u, Piped(pq[c])) + Times(u, stalled[c])
                           + Times(u, s.out) + Times(u, s.mshr[u.line])
        /\ Own(c, u)' = Times(u, outReq[c]) + Times(u, <<>>) /\ Lead(mshr[c], u)' = Lead(s.mshr, u)
    BY <1>8, <1>9 DEF Held, Own, Lead, Leads, Times, Piped
  <2>3. /\ Times(u, inReq[c]) \in Nat /\ Times(u, Piped(pq[c])) \in Nat /\ Times(u, stalled[c]) \in Nat
        /\ Times(u, outResp[c]) \in Nat /\ Times(u, mshr[c][u.line]) \in Nat
        /\ Times(u, outReq[c]) \in Nat /\ Times(u, q) \in Nat
    BY <1>1, <2>1, CountsAre DEF q
  <2>4. Times(u, s.mshr[u.line]) \in Nat /\ Times(u, s.out) \in Nat
    <3>1. s.mshr[u.line] \in Seq(SeenBy(c))
      BY <1>7, <2>1 DEF MshrFits, PerLine
    <3> QED
      BY <1>7, <3>1, TimesIs
  <2>5. Lead(mshr[c], u) \in Nat /\ Lead(s.mshr, u) \in Nat
    BY DEF Lead
  <2>6. Held(c, u)' = Held(c, u)
    <3> DEFINE i0 == Times(u, inReq[c])  p == Times(u, Piped(pq[c]))  w == Times(u, stalled[c])
               o0 == Times(u, outResp[c])  m == Times(u, mshr[c][u.line])
               o2 == Times(u, s.out)  m2 == Times(u, s.mshr[u.line])
    <3>1. /\ i0 \in Nat /\ p \in Nat /\ w \in Nat /\ o0 \in Nat /\ m \in Nat /\ o2 \in Nat /\ m2 \in Nat
          /\ o2 + m2 = o0 + m
      BY <1>6, <2>3, <2>4
    <3>2. Held(c, u)' = i0 + p + w + o2 + m2 /\ Held(c, u) = i0 + p + w + o0 + m
      BY <2>2 DEF Held
    <3> HIDE DEF i0, p, w, o0, m, o2, m2
    <3>3. i0 + p + w + o2 + m2 = i0 + p + w + o0 + m
      BY <3>1
    <3> QED
      BY <3>2, <3>3
  <2>7. Own(c, u)' + Lead(mshr[c], u) = Own(c, u) + Lead(s.mshr, u)
    <3> DEFINE o0 == Times(u, outReq[c])  l == Lead(mshr[c], u)  l2 == Lead(s.mshr, u)
               x == Times(u, q)  z == Times(u, <<>>)
    <3>1. z = 0
      BY TimesEmpty
    <3>2. o0 \in Nat /\ l \in Nat /\ l2 \in Nat /\ x \in Nat /\ l2 + x = l
      BY <1>6, <2>3, <2>5
    <3>3. Own(c, u)' = o0 + z /\ Own(c, u) = o0 + x
      BY <2>2 DEF Own, q
    <3> HIDE DEF o0, l, l2, x, z
    <3>4. (o0 + z) + l = (o0 + x) + l2
      BY <3>1, <3>2
    <3> QED
      BY <3>3, <3>4 DEF l, l2
  <2> QED
    BY <2>2, <2>6, <2>7
<1> QED
  BY <1>8, <1>10, <1>11, <1>12, <1>13, InsideStep

\* The invariant after a step that makes no transaction, count by count.
LEMMA CountedStep ==
    ASSUME issued' = issued, CType',
           \A t \in Made : Held(Owner(t), t)' = IF t \in waiting' THEN 1 ELSE 0,
           \A d \in Caches : \A u \in SeenBy(d) : Own(d, u)' + Below(d, u)' = Lead(mshr[d], u)'
    PROVE  CInv'
<1>1. Made' = Made /\ \A d : SeenBy(d)' = SeenBy(d)
  BY SameMade
<1>2. AnsweredExactlyOnce'
  BY <1>1 DEF AnsweredExactlyOnce, Owner
<1>3. ASSUME NEW d \in Caches, NEW u \in SeenBy(d)
      PROVE  AskedBelow(d, u)' = IF Leads(mshr'[d], u) THEN 1 ELSE 0
  <2>1. AskedBelow(d, u)' = Lead(mshr[d], u)'
    BY <1>3, AskedIsPrimed
  <2> QED
    BY <2>1 DEF Lead, Leads
<1>4. OneFillPerEntry'
  BY <1>1, <1>3 DEF OneFillPerEntry
<1> QED
  BY <1>2, <1>4 DEF CInv

\* The counts as the invariant has them before the step.
LEMMA CountsBefore ==
    ASSUME CInv
    PROVE  /\ \A t \in Made : Held(Owner(t), t) = IF t \in waiting THEN 1 ELSE 0
           /\ \A d \in Caches : \A u \in SeenBy(d) : Own(d, u) + Below(d, u) = Lead(mshr[d], u)
<1>1. \A t \in Made : Held(Owner(t), t) = IF t \in waiting THEN 1 ELSE 0
  BY DEF CInv, AnsweredExactlyOnce
<1>2. ASSUME NEW d \in Caches, NEW u \in SeenBy(d)
      PROVE  Own(d, u) + Below(d, u) = Lead(mshr[d], u)
  BY AskedIs DEF CInv, OneFillPerEntry, Lead
<1> QED
  BY <1>1, <1>2

\* A step that leaves the caches and the reads as they are.
LEMMA QuietStep ==
    ASSUME CInv, \A d \in Caches : Kept(d), UNCHANGED <<issued, waiting, dramReads>>, PerCache',
           DramType'
    PROVE  CInv'
<1>1. CType /\ \A d \in Caches : CacheType(d)
  BY DEF CInv, CType
<1>2. \A d \in Caches : CacheType(d)' /\ \A t : Held(d, t)' = Held(d, t) /\ Own(d, t)' = Own(d, t)
  BY <1>1, KeptIs
<1>3. CType'
  BY <1>1, <1>2, SameMade DEF CType, ClientType
<1>4. ASSUME NEW t \in Made PROVE Held(Owner(t), t)' = IF t \in waiting' THEN 1 ELSE 0
  <2> DEFINE d == Owner(t)
  <2>1. d \in Caches /\ d' = d
    BY MadeIs DEF Owner
  <2>2. Held(d, t) = IF t \in waiting THEN 1 ELSE 0
    BY CountsBefore
  <2> HIDE DEF d
  <2>3. Held(d, t)' = Held(d, t)
    BY <1>2, <2>1
  <2> QED
    BY <2>2, <2>3 DEF d, Owner
<1>5. ASSUME NEW d \in Caches, NEW u \in SeenBy(d)
      PROVE  Own(d, u)' + Below(d, u)' = Lead(mshr[d], u)'
  <2>1. Own(d, u) + Below(d, u) = Lead(mshr[d], u)
    BY CountsBefore
  <2>2. Own(d, u)' = Own(d, u)
    BY <1>2
  <2>3. Below(d, u)' = Below(d, u)
    BY <1>2, L2SeesAll DEF Below
  <2>4. Lead(mshr[d], u)' = Lead(mshr[d], u)
    BY DEF Lead, Leads, Kept
  <2> QED
    BY <2>1, <2>2, <2>3, <2>4
<1> QED
  BY <1>3, <1>4, <1>5, CountedStep

LEMMA RunStep ==
    ASSUME CInv, run \/ process \/ (\E l \in Lines : write_complete(l)) \/ UNCHANGED vars
    PROVE  CInv'
<1>1. /\ issued' = issued /\ waiting' = waiting /\ dramReads' = dramReads
      /\ inReq' = inReq /\ inResp' = inResp /\ outReq' = outReq /\ outResp' = outResp
      /\ stalled' = stalled /\ pq' = pq /\ mshr' = mshr /\ evicts' = evicts /\ lru' = lru
      /\ freeLd' = freeLd /\ freeSt' = freeSt
  BY DEF run, process, write_complete, vars, client, ports, dram
<1>2. \A d \in Caches : Kept(d)
  BY <1>1 DEF Kept
<1>3. PerCache'
  BY <1>1 DEF CInv, CType, PerCache, Lrus, LruSets, LruSet, Entries
<1>4. DramType'
  <2>1. DramType
    BY DEF CInv, CType
  <2>2. PerLine(Made, dramReads)'
    BY <1>1, <2>1, SameMade DEF DramType, PerLine, OnLine
  <2>3. dramWrites' \in [Lines -> Nat]
    <3>1. CASE \E l \in Lines : write_complete(l)
      BY <2>1, <3>1 DEF write_complete, DramType
    <3>2. CASE run \/ process \/ UNCHANGED vars
      BY <2>1, <3>2 DEF run, process, vars, dram, DramType
    <3> QED
      BY <3>1, <3>2
  <2>4. freeRd' \in Int /\ freeWr' \in 0 .. WritePorts
    BY <2>1, SizeAssumption DEF run, process, write_complete, vars, dram, DramType
  <2> QED
    BY <2>2, <2>3, <2>4 DEF DramType
<1> QED
  BY <1>1, <1>2, <1>3, <1>4, QuietStep

\* A step that touches no variable of a cache but outResp or inResp.
LEMMA ReadCompleted ==
    ASSUME CInv, NEW l \in Lines, read_complete(l)
    PROVE  CInv'
<1> DEFINE q == dramReads[l]  k == [dramReads EXCEPT ![l] = <<>>]  r == inResp["L2"] \o q
<1>1. CType /\ PerCache /\ DramType /\ \A d \in Caches : CacheType(d)
  BY DEF CInv, CType
<1>2. /\ issued' = issued /\ waiting' = waiting /\ inReq' = inReq /\ outReq' = outReq
      /\ outResp' = outResp /\ stalled' = stalled /\ pq' = pq /\ mshr' = mshr
      /\ evicts' = evicts /\ lru' = lru /\ freeLd' = freeLd /\ freeSt' = freeSt
      /\ dramWrites' = dramWrites /\ freeRd' = freeRd /\ freeWr' = freeWr
      /\ inResp' = [inResp EXCEPT !["L2"] = r] /\ dramReads' = k
  BY DEF read_complete, client, ports
<1>3. PerLine(Made, dramReads) /\ q \in Seq(Made) /\ inResp["L2"] \in Seq(Made)
  BY <1>1, L2SeesAll DEF DramType, PerLine, CacheType
<1>4. /\ PerLine(Made, k)
      /\ \A u \in Made : Times(u, dramReads[u.line]) = Times(u, k[u.line]) + Times(u, q)
  <2> DEFINE m == dramReads
  <2>1. PerLine(Made, m) /\ \A u \in Made : u.line \in Lines
    BY <1>3, L2SeesAll
  <2> HIDE DEF m
  <2>2. LET e == [m EXCEPT ![l] = <<>>] IN
          /\ PerLine(Made, e)
          /\ \A u \in Made : Times(u, m[u.line]) = Times(u, e[u.line]) + Times(u, m[l])
    BY <2>1, PerLineEmptied
  <2> QED
    BY <2>2 DEF m
<1>5. r \in Seq(Made) /\ \A u \in Made : Times(u, r) = Times(u, inResp["L2"]) + Times(u, q)
  <2> HIDE DEF q
  <2> QED
    BY <1>3, ConcatProperties, TimesConcat
<1> HIDE DEF q, k, r
<1>6. inResp'["L2"] = r /\ \A d \in Caches \ {"L2"} : inResp'[d] = inResp[d]
  BY <1>1, <1>2, L2SeesAll DEF PerCache
<1>7. \A d \in Caches \ {"L2"} : Kept(d)
  BY <1>2, <1>6 DEF Kept
<1>8. \A d \in Caches \ {"L2"} : CacheType(d)' /\ \A t : Own(d, t)' = Own(d, t)
  BY <1>1, <1>2, <1>7, KeptIs
<1>9. \A d \in Caches : \A t : Held(d, t)' = Held(d, t)
  BY <1>2 DEF Held
<1>10. CType'
  <2>1. Made' = Made /\ SeenBy("L2")' = SeenBy("L2") /\ Down("L2")' = Down("L2")
        /\ Piping("L2")' = Piping("L2")
    BY <1>2, SameMade
  <2>2. CacheType("L2")'
    <3>1. MshrFits("L2", mshr["L2"])'
      BY <1>1, <1>2, <2>1, L2SeesAll DEF CacheType, MshrFits, MshrUsed, PerLine, Entered, OnLine
    <3> QED
      BY <1>1, <1>2, <1>5, <1>6, <2>1, <3>1, L2SeesAll DEF CacheType
  <2>3. DramType'
    BY <1>1, <1>2, <1>4, <2>1 DEF DramType, PerLine, OnLine
  <2>4. PerCache'
    BY <1>1, <1>2 DEF PerCache, Lrus, LruSets, LruSet, Entries
  <2>5. ClientType'
    BY <1>1, <1>2, <2>1 DEF CType, ClientType
  <2> QED
    BY <1>8, <2>2, <2>3, <2>4, <2>5 DEF CType
<1>11. ASSUME NEW t \in Made PROVE Held(Owner(t), t)' = IF t \in waiting' THEN 1 ELSE 0
  <2> DEFINE d == Owner(t)
  <2>1. d \in Caches /\ Held(d, t) = IF t \in waiting THEN 1 ELSE 0
    BY MadeIs, CountsBefore
  <2> HIDE DEF d
  <2>2. Held(d, t)' = Held(d, t)
    BY <1>9, <2>1
  <2> QED
    BY <1>2, <2>1, <2>2 DEF d, Owner
<1>12. ASSUME NEW d \in Caches, NEW u \in SeenBy(d)
       PROVE  Own(d, u)' + Below(d, u)' = Lead(mshr[d], u)'
  <2>1. Own(d, u) + Below(d, u) = Lead(mshr[d], u) /\ u \in Made
    BY CountsBefore, SeenIs
  <2>2. Lead(mshr[d], u)' = Lead(mshr[d], u)
    BY <1>2 DEF Lead, Leads
  <2>3. CASE d # "L2"
    <3>1. Own(d, u)' = Own(d, u) /\ Below(d, u)' = Below(d, u)
      BY <1>8, <1>9, <2>3, L2SeesAll DEF Below
    <3> QED
      BY <2>1, <2>2, <3>1
  <2>4. CASE d = "L2"
    <3> DEFINE o == Times(u, outReq["L2"])  i == Times(u, inResp["L2"])  x == Times(u, q)
               w == Times(u, k[u.line])  i2 == Times(u, r)  w2 == Times(u, dramReads[u.line])
    <3>1. i2 = i + x /\ w2 = w + x
      BY <1>4, <1>5, <2>1
    <3>2. o \in Nat /\ i \in Nat
      BY <1>1, <2>1, L2SeesAll, CountsAre
    <3>3. x \in Nat /\ w \in Nat
      <4>1. k[u.line] \in Seq(Made)
        BY <1>4, <2>1, L2SeesAll DEF PerLine
      <4> QED
        BY <1>3, <4>1, TimesIs
    <3>4. Own(d, u)' + Below(d, u)' = (o + i2) + w /\ Own(d, u) + Below(d, u) = (o + i) + w2
      BY <1>2, <1>6, <2>4 DEF Own, Below, Times
    <3> HIDE DEF o, i, x, w, i2, w2
    <3>5. (o + i2) + w = (o + i) + w2
      BY <3>1, <3>2, <3>3
    <3> QED
      BY <2>1, <2>2, <3>4, <3>5
  <2> QED
    BY <2>3, <2>4
<1> QED
  BY <1>2, <1>10, <1>11, <1>12, CountedStep

\* A transaction that its owner answers was waiting, and is held no more.
LEMMA AnsweredIs ==
    ASSUME CInv, NEW c \in Caches, NEW t \in Made, Owner(t) = c, t \in ToSet(outResp[c])
    PROVE  t \in waiting /\ Held(c, t) = 1 /\ Times(t, outResp[c]) = 1
<1>1. CacheType(c) /\ t.line \in Lines
  BY L2SeesAll DEF CInv, CType
<1>2. outResp[c] \in Seq(SeenBy(c))
  BY <1>1 DEF CacheType
<1>3. \E i \in 1 .. Len(outResp[c]) : outResp[c][i] = t
  BY <1>2, LenProperties DEF ToSet
<1>4. Times(t, outResp[c]) > 0
  BY <1>2, <1>3, TimesIs
<1>5. Held(c, t) = IF t \in waiting THEN 1 ELSE 0
  BY CountsBefore
<1> DEFINE i == Times(t, inReq[c])  p == Times(t, Piped(pq[c]))  w == Times(t, stalled[c])
           o == Times(t, outResp[c])  m == Times(t, mshr[c][t.line])
<1>6. i \in Nat /\ p \in Nat /\ w \in Nat /\ o \in Nat /\ m \in Nat /\ o > 0
  BY <1>1, <1>4, CountsAre
<1>7. Held(c, t) = i + p + w + o + m
  BY DEF Held
<1> HIDE DEF i, p, w, o, m
<1>8. Held(c, t) = 1 /\ o = 1 /\ t \in waiting
  BY <1>5, <1>6, <1>7
<1> QED
  BY <1>8 DEF o

\* What is not in the responses occurs there 0 times.
LEMMA NotAnswered ==
    ASSUME NEW S, NEW s \in Seq(S), NEW t, t \notin ToSet(s)
    PROVE  Times(t, s) = 0
<1>1. ~\E i \in 1 .. Len(s) : s[i] = t
  BY LenProperties DEF ToSet
<1>2. Times(t, s) \in Nat /\ ~(Times(t, s) > 0)
  BY <1>1, TimesIs
<1> QED
  BY <1>2

LEMMA L1Answers ==
    ASSUME CInv, NEW c \in L1s, sendResponsesL1(c)
    PROVE  CInv'
<1> DEFINE q == outResp[c]
<1>1. CType /\ PerCache /\ DramType /\ \A d \in Caches : CacheType(d)
  BY DEF CInv, CType
<1>2. /\ issued' = issued /\ inReq' = inReq /\ outReq' = outReq /\ inResp' = inResp
      /\ stalled' = stalled /\ pq' = pq /\ mshr' = mshr
      /\ evicts' = evicts /\ lru' = lru /\ freeLd' = freeLd /\ freeSt' = freeSt
      /\ dramReads' = dramReads /\ dramWrites' = dramWrites /\ freeRd' = freeRd /\ freeWr' = freeWr
      /\ waiting' = waiting \ ToSet(q) /\ outResp' = [outResp EXCEPT ![c] = <<>>]
  BY DEF sendResponsesL1, ports, dram
<1>3. c \in Caches /\ c # "L2" /\ q \in Seq(SeenBy(c))
  BY <1>1 DEF CacheType, Caches, L1s
<1> HIDE DEF q
<1>4. outResp'[c] = <<>> /\ \A d \in Caches \ {c} : outResp'[d] = outResp[d]
  BY <1>1, <1>2, <1>3 DEF PerCache
<1>5. \A d \in Caches \ {c} : Kept(d)
  BY <1>2, <1>4 DEF Kept
<1>6. \A d \in Caches \ {c} : CacheType(d)' /\ \A t : Held(d, t)' = Held(d, t)
  BY <1>1, <1>2, <1>5, KeptIs
<1>7. \A d \in Caches : \A t : Own(d, t)' = Own(d, t)
  BY <1>2 DEF Own
<1>8. CType'
  <2>1. Made' = Made /\ SeenBy(c)' = SeenBy(c) /\ Down(c)' = Down(c) /\ Piping(c)' = Piping(c)
    BY <1>2, SameMade
  <2>2. CacheType(c)'
    <3>1. MshrFits(c, mshr[c])'
      BY <1>1, <1>2, <1>3, <2>1 DEF CacheType, MshrFits, MshrUsed, PerLine, Entered, OnLine
    <3>2. outResp'[c] \in Seq(SeenBy(c))
      BY <1>4
    <3> QED
      BY <1>1, <1>2, <1>3, <2>1, <3>1, <3>2 DEF CacheType
  <2>3. DramType'
    BY <1>1, <1>2, <2>1 DEF DramType, PerLine, OnLine
  <2>4. PerCache'
    BY <1>1, <1>2 DEF PerCache, Lrus, LruSets, LruSet, Entries
  <2>5. ClientType'
    BY <1>1, <1>2, <2>1 DEF CType, ClientType
  <2> QED
    BY <1>6, <2>2, <2>3, <2>4, <2>5 DEF CType
<1>9. ASSUME NEW t \in Made PROVE Held(Owner(t), t)' = IF t \in waiting' THEN 1 ELSE 0
  <2> DEFINE d == Owner(t)
  <2>1. d \in Caches /\ Held(d, t) = (IF t \in waiting THEN 1 ELSE 0) /\ t.line \in Lines
    BY MadeIs, CountsBefore
  <2>2. t \in ToSet(q) => d = c
    <3>1. ASSUME t \in ToSet(q) PROVE t \in SeenBy(c)
      <4>1. PICK i \in 1 .. Len(q) : t = q[i]
        BY <1>3, <3>1, LenProperties DEF ToSet
      <4> QED
        BY <1>3, <4>1, ElementOfSeq
    <3> QED
      BY <3>1, MadeIs
  <2> HIDE DEF d
  <2>3. CASE d # c
    <3>1. Held(d, t)' = Held(d, t) /\ t \notin ToSet(q)
      BY <1>6, <2>1, <2>2, <2>3
    <3> QED
      BY <1>2, <2>1, <3>1 DEF d, Owner
  <2>4. CASE d = c
    <3> DEFINE i == Times(t, inReq[c])  p == Times(t, Piped(pq[c]))  w == Times(t, stalled[c])
               o == Times(t, q)  m == Times(t, mshr[c][t.line])  z == Times(t, <<>>)
    <3>1. i \in Nat /\ p \in Nat /\ w \in Nat /\ o \in Nat /\ m \in Nat /\ z = 0
      BY <1>1, <1>3, <2>1, CountsAre, TimesEmpty DEF q
    <3>2. Held(d, t) = i + p + w + o + m /\ Held(d, t)' = i + p + w + z + m
      BY <1>2, <1>4, <2>4 DEF Held, q, Times, Piped
    <3>3. CASE t \in ToSet(q)
      <4>1. Held(d, t) = 1 /\ o = 1
        BY <1>3, <2>4, <3>3, AnsweredIs DEF d, q
      <4> HIDE DEF i, p, w, o, m, z
      <4>2. Held(d, t)' = 0
        BY <3>1, <3>2, <4>1
      <4> QED
        BY <1>2, <3>3, <4>2 DEF d, Owner
    <3>4. CASE t \notin ToSet(q)
      <4>1. o = 0
        BY <1>3, <3>4, NotAnswered
      <4> HIDE DEF i, p, w, o, m, z
      <4>2. Held(d, t)' = Held(d, t)
        BY <3>1, <3>2, <4>1
      <4> QED
        BY <1>2, <2>1, <3>4, <4>2 DEF d, Owner
    <3> QED
      BY <3>3, <3>4
  <2> QED
    BY <2>3, <2>4
<1>10. ASSUME NEW d \in Caches, NEW u \in SeenBy(d)
       PROVE  Own(d, u)' + Below(d, u)' = Lead(mshr[d], u)'
  <2>1. Own(d, u) + Below(d, u) = Lead(mshr[d], u)
    BY CountsBefore
  <2>2. Lead(mshr[d], u)' = Lead(mshr[d], u) /\ Own(d, u)' = Own(d, u)
    BY <1>2, <1>7 DEF Lead, Leads
  <2>3. Below(d, u)' = Below(d, u)
    BY <1>2, <1>3, <1>6, L2SeesAll DEF Below
  <2> QED
    BY <2>1, <2>2, <2>3
<1> QED
  BY <1>2, <1>8, <1>9, <1>10, CountedStep

\* L2 answers the DMA engine, or hands the transaction back to the L1 it came from:
\* there it was asked for, here it was held.
LEMMA L2Answers ==
    ASSUME CInv, sendResponsesL2
    PROVE  CInv'
<1> DEFINE q == outResp["L2"]  r == [c \in Caches |-> AnswerEach(c, inResp[c], q)]
<1>1. CType /\ PerCache /\ DramType /\ \A d \in Caches : CacheType(d)
  BY DEF CInv, CType
<1>2. /\ issued' = issued /\ inReq' = inReq /\ outReq' = outReq
      /\ stalled' = stalled /\ pq' = pq /\ mshr' = mshr
      /\ evicts' = evicts /\ lru' = lru /\ freeLd' = freeLd /\ freeSt' = freeSt
      /\ dramReads' = dramReads /\ dramWrites' = dramWrites /\ freeRd' = freeRd /\ freeWr' = freeWr
      /\ waiting' = waiting \ {t \in ToSet(q) : t.port = "DMA"}
      /\ outResp' = [outResp EXCEPT !["L2"] = <<>>] /\ inResp' = r
  BY DEF sendResponsesL2, ports, dram
<1>3. q \in Seq(Made)
  BY <1>1, L2SeesAll DEF CacheType
<1>4. ASSUME NEW c \in Caches
      PROVE  /\ r[c] \in Seq(SeenBy(c))
             /\ \A u \in Made : Times(u, r[c]) = Times(u, inResp[c]) + IF u.port = c THEN Times(u, q) ELSE 0
  <2>1. inResp[c] \in Seq(SeenBy(c))
    BY <1>1 DEF CacheType
  <2>2. r[c] = AnswerEach(c, inResp[c], q)
    OBVIOUS
  <2> HIDE DEF q, r
  <2> QED
    BY <1>3, <2>1, <2>2, AllAnswered
<1>5. DOMAIN r = Caches
  OBVIOUS
<1> HIDE DEF q, r
<1>6. outResp'["L2"] = <<>> /\ \A d \in Caches \ {"L2"} : outResp'[d] = outResp[d]
  BY <1>1, <1>2, L2SeesAll DEF PerCache
<1>7. \A d \in Caches \ {"L2"} : \A t : Held(d, t)' = Held(d, t)
  BY <1>2, <1>6 DEF Held
<1>8. CType'
  <2>1. Made' = Made /\ \A d : SeenBy(d)' = SeenBy(d) /\ Down(d)' = Down(d) /\ Piping(d)' = Piping(d)
    BY <1>2, SameMade
  <2>2. ASSUME NEW d \in Caches PROVE CacheType(d)'
    <3>1. MshrFits(d, mshr[d])'
      BY <1>1, <1>2, <2>1 DEF CacheType, MshrFits, MshrUsed, PerLine, Entered, OnLine
    <3>2. outResp'[d] \in Seq(SeenBy(d))
      <4>1. CASE d = "L2"
        <5>1. outResp'[d] = <<>>
          BY <1>6, <4>1
        <5> QED
          BY <5>1
      <4>2. CASE d # "L2"
        BY <1>1, <1>6, <4>2 DEF CacheType
      <4> QED
        BY <4>1, <4>2
    <3>3. inResp'[d] \in Seq(SeenBy(d))
      BY <1>2, <1>4
    <3> QED
      BY <1>1, <1>2, <2>1, <3>1, <3>2, <3>3 DEF CacheType
  <2>3. DramType'
    BY <1>1, <1>2, <2>1 DEF DramType, PerLine, OnLine
  <2>4. PerCache'
    BY <1>1, <1>2, <1>5 DEF PerCache, Lrus, LruSets, LruSet, Entries
  <2>5. ClientType'
    BY <1>1, <1>2, <2>1 DEF CType, ClientType
  <2> QED
    BY <2>2, <2>3, <2>4, <2>5 DEF CType
\* How often L2 holds a transaction, before and after.
<1>9. ASSUME NEW t \in Made
      PROVE  /\ Held("L2", t) = Held("L2", t)' + Times(t, q)
             /\ Held("L2", t)' \in Nat /\ Times(t, q) \in Nat
  <2> DEFINE i == Times(t, inReq["L2"])  p == Times(t, Piped(pq["L2"]))
             w == Times(t, stalled["L2"])  o == Times(t, q)
             m == Times(t, mshr["L2"][t.line])  z == Times(t, <<>>)
  <2>1. i \in Nat /\ p \in Nat /\ w \in Nat /\ o \in Nat /\ m \in Nat /\ z = 0
    BY <1>1, L2SeesAll, CountsAre, TimesEmpty DEF q
  <2>2. Held("L2", t) = i + p + w + o + m /\ Held("L2", t)' = i + p + w + z + m
    BY <1>2, <1>6 DEF Held, q, Times, Piped
  <2>3. o = Times(t, q)
    OBVIOUS
  <2> HIDE DEF i, p, w, o, m, z
  <2>4. i + p + w + o + m = (i + p + w + z + m) + o /\ i + p + w + z + m \in Nat
    BY <2>1
  <2> QED
    BY <2>1, <2>2, <2>3, <2>4
<1>10. ASSUME NEW t \in Made PROVE Held(Owner(t), t)' = IF t \in waiting' THEN 1 ELSE 0
  <2> DEFINE d == Owner(t)
  <2>1. d \in Caches /\ Held(d, t) = (IF t \in waiting THEN 1 ELSE 0) /\ (d = "L2" <=> t.port = "DMA")
    BY MadeIs, CountsBefore DEF Owner
  <2> HIDE DEF d
  <2>2. CASE d # "L2"
    <3>1. Held(d, t)' = Held(d, t) /\ (t \in waiting' <=> t \in waiting)
      BY <1>2, <1>7, <2>1, <2>2
    <3> QED
      BY <2>1, <3>1 DEF d, Owner
  <2>3. CASE d = "L2"
    <3>1. CASE t \in ToSet(q)
      <4>1. Held("L2", t) = 1 /\ Times(t, q) = 1
        BY <2>3, <3>1, L2SeesAll, AnsweredIs DEF d, q
      <4>2. Held("L2", t)' = 0
        <5> DEFINE h == Held("L2", t)'
        <5>1. h \in Nat /\ 1 = h + 1
          BY <1>9, <4>1
        <5> HIDE DEF h
        <5>2. h = 0
          BY <5>1
        <5> QED
          BY <5>2 DEF h
      <4>3. t \notin waiting'
        BY <1>2, <2>1, <2>3, <3>1
      <4> QED
        BY <2>3, <4>2, <4>3 DEF d, Owner
    <3>2. CASE t \notin ToSet(q)
      <4>1. Times(t, q) = 0
        BY <1>3, <3>2, NotAnswered
      <4>2. Held("L2", t)' = Held("L2", t)
        <5> DEFINE h == Held("L2", t)'  g == Held("L2", t)
        <5>1. h \in Nat /\ g = h + 0
          BY <1>9, <4>1
        <5> HIDE DEF h, g
        <5>2. h = g
          BY <5>1
        <5> QED
          BY <5>2 DEF h, g
      <4>3. t \in waiting' <=> t \in waiting
        BY <1>2, <3>2
      <4> QED
        BY <2>1, <2>3, <4>2, <4>3 DEF d, Owner
    <3> QED
      BY <3>1, <3>2
  <2> QED
    BY <2>2, <2>3
<1>11. ASSUME NEW d \in Caches, NEW u \in SeenBy(d)
       PROVE  Own(d, u)' + Below(d, u)' = Lead(mshr[d], u)'
  <2>1. Own(d, u) + Below(d, u) = Lead(mshr[d], u) /\ u \in Made
    BY CountsBefore, SeenIs
  <2>2. Lead(mshr[d], u)' = Lead(mshr[d], u)
    BY <1>2 DEF Lead, Leads
  <2>3. Times(u, r[d]) = Times(u, inResp[d]) + (IF u.port = d THEN Times(u, q) ELSE 0)
        /\ Own(d, u)' = Times(u, outReq[d]) + Times(u, r[d])
    BY <1>2, <1>4, <2>1 DEF Own, Times
  <2>4. Times(u, outReq[d]) \in Nat /\ Times(u, inResp[d]) \in Nat
    BY <1>1, <2>1, L2SeesAll, CountsAre
  <2> DEFINE o == Times(u, outReq[d])  i == Times(u, inResp[d])  i2 == Times(u, r[d])
             h == Held("L2", u)  h2 == Held("L2", u)'  x == Times(u, q)
  <2>5. /\ h = h2 + x /\ h2 \in Nat /\ x \in Nat /\ o \in Nat /\ i \in Nat
        /\ Own(d, u)' = o + i2 /\ Own(d, u) = o + i
    BY <1>9, <2>1, <2>3, <2>4 DEF Own
  <2>6. CASE d # "L2"
    <3>1. u.port = d
      BY <2>6 DEF SeenBy
    <3>2. i2 = i + x /\ Below(d, u)' = h2 /\ Below(d, u) = h
      BY <2>3, <2>6, <3>1 DEF Below
    <3> HIDE DEF o, i, i2, h, h2, x
    <3>3. (o + i2) + h2 = (o + i) + h
      BY <2>5, <3>2
    <3> QED
      BY <2>1, <2>2, <2>5, <3>2, <3>3
  <2>7. CASE d = "L2"
    <3>1. u.port # d
      BY <2>1, <2>7, MadeIs
    <3>2. i2 = i + 0 /\ Below(d, u)' = Below(d, u)
      BY <1>2, <2>3, <2>7, <3>1 DEF Below
    <3> HIDE DEF o, i, i2
    <3>3. i2 = i
      BY <2>5, <3>2
    <3> QED
      BY <2>1, <2>2, <2>5, <3>2, <3>3
  <2> QED
    BY <2>6, <2>7
<1> QED
  BY <1>2, <1>8, <1>10, <1>11, CountedStep

\* A step that answers nothing, fills no line and enters no miss.
LEMMA MovedStep ==
    ASSUME CInv, UNCHANGED <<issued, waiting, mshr>>, CType',
           \A t \in Made : Held(Owner(t), t)' = Held(Owner(t), t),
           \A d \in Caches : \A u \in SeenBy(d) : Own(d, u)' + Below(d, u)' = Own(d, u) + Below(d, u)
    PROVE  CInv'
<1>1. \A t \in Made : Held(Owner(t), t)' = IF t \in waiting' THEN 1 ELSE 0
  BY CountsBefore
<1>2. \A d \in Caches : \A u \in SeenBy(d) : Own(d, u)' + Below(d, u)' = Lead(mshr[d], u)'
  BY CountsBefore DEF Lead, Leads
<1> QED
  BY <1>1, <1>2, CountedStep

\* What an L1 has for L2: its misses and its dirty victims, which are no requests.
LEMMA OfferedIs ==
    ASSUME NEW c \in L1s, CacheType(c)
    PROVE  LET q == outReq[c] \o WriteBacks(c) IN
           q \in Seq(Down(c)) /\ \A u \in Made : Times(u, q) = Times(u, outReq[c])
<1> DEFINE o == outReq[c]  w == WriteBacks(c)
<1>1. o \in Seq(Down(c)) /\ evicts[c] \in Seq(Victim)
  BY DEF CacheType
<1>2. w \in Seq(Evictions)
  BY <1>1, AllWrittenBack DEF WriteBacks
<1> HIDE DEF o, w
<1>3. w \in Seq(Down(c))
  BY <1>2, SeqGrows DEF Down
<1>4. ASSUME NEW u \in Made PROVE Times(u, w) = 0
  <2>1. u \notin ToSet(w)
    <3>1. SUFFICES ASSUME u \in ToSet(w) PROVE FALSE
      OBVIOUS
    <3>2. PICK i \in 1 .. Len(w) : u = w[i]
      BY <1>2, <3>1, LenProperties DEF ToSet
    <3>3. u \in Evictions
      BY <1>2, <3>2, ElementOfSeq
    <3> QED
      BY <3>3, MadeIs
  <2> QED
    BY <1>2, <2>1, NotAnswered
<1>5. ASSUME NEW u \in Made PROVE Times(u, o \o w) = Times(u, o)
  <2> DEFINE n == Times(u, o)
  <2>1. Times(u, o \o w) = n + Times(u, w) /\ n \in Nat
    BY <1>1, <1>3, TimesConcat, TimesIs DEF o
  <2> HIDE DEF n
  <2>2. Times(u, o \o w) = n
    BY <1>4, <2>1
  <2> QED
    BY <2>2 DEF n
<1>6. o \o w \in Seq(Down(c))
  BY <1>1, <1>3, ConcatProperties DEF o
<1> QED
  BY <1>5, <1>6 DEF o, w

\* An L1 sees only the requests made to it, above and below.
LEMMA NotOffered ==
    ASSUME NEW c \in L1s, NEW s \in Seq(Down(c)), NEW u \in Made, u \notin SeenBy(c)
    PROVE  Times(u, s) = 0
<1>1. u \notin ToSet(s)
  <2>1. SUFFICES ASSUME u \in ToSet(s) PROVE FALSE
    OBVIOUS
  <2>2. PICK i \in 1 .. Len(s) : u = s[i]
    BY <2>1, LenProperties DEF ToSet
  <2>3. u \in Down(c)
    BY <2>2, ElementOfSeq
  <2> QED
    BY <2>3, MadeIs DEF Down
<1> QED
  BY <1>1, NotAnswered

\* sendRequestsL1: a miss or a victim goes into L2's requests or stays.
LEMMA L1Sends ==
    ASSUME CInv, NEW c \in L1s, sendRequestsL1(c)
    PROVE  CInv'
<1> DEFINE b == [in |-> inReq["L2"], ld |-> freeLd["L2"], st |-> freeSt["L2"], keep |-> <<>>]
           q == outReq[c] \o WriteBacks(c)  s == OfferEach(b, q)
<1>1. CType /\ PerCache /\ DramType /\ CacheType(c) /\ CacheType("L2") /\ \A d \in Caches : CacheType(d)
  BY L2SeesAll DEF CInv, CType, L1s, Caches
<1>2. c \in Caches /\ "L2" \in Caches /\ c # "L2"
  BY DEF L1s, Caches
<1>3. b \in Offers(c)
  <2>1. <<>> \in Seq(Down(c))
    OBVIOUS
  <2> QED
    BY <1>1, <2>1 DEF Offers, CacheType
<1>4. q \in Seq(Down(c)) /\ \A u \in Made : Times(u, q) = Times(u, outReq[c])
  BY <1>1, OfferedIs
<1>5. b.in = inReq["L2"] /\ b.keep = <<>>
  OBVIOUS
<1>6. /\ inReq' = [inReq EXCEPT !["L2"] = s.in] /\ outReq' = [outReq EXCEPT ![c] = s.keep]
      /\ evicts' = [evicts EXCEPT ![c] = <<>>]
      /\ freeLd' = [freeLd EXCEPT !["L2"] = s.ld, ![c] = LoadPorts[c]]
      /\ freeSt' = [freeSt EXCEPT !["L2"] = s.st, ![c] = StorePorts[c]]
      /\ pq' = [pq EXCEPT ![c] = Aged(@)]
      /\ issued' = issued /\ waiting' = waiting /\ inResp' = inResp /\ outResp' = outResp
      /\ stalled' = stalled /\ mshr' = mshr /\ lru' = lru
      /\ dramReads' = dramReads /\ dramWrites' = dramWrites /\ freeRd' = freeRd /\ freeWr' = freeWr
  BY DEF sendRequestsL1, client, dram
<1> HIDE DEF b, q
<1>7. /\ s \in Offers(c)
      /\ \A u \in Made : Times(u, s.in) + Times(u, s.keep)
                            = Times(u, inReq["L2"]) + Times(u, <<>>) + Times(u, outReq[c])
  BY <1>3, <1>4, <1>5, AllOffered
<1> HIDE DEF s
<1>8. /\ s.in \in Seq(Down("L2")) /\ s.keep \in Seq(Down(c))
      /\ s.ld \in 0 .. LoadPorts["L2"] /\ s.st \in 0 .. StorePorts["L2"]
  BY <1>7 DEF Offers
<1>9. /\ inReq'["L2"] = s.in /\ \A d \in L1s : inReq'[d] = inReq[d]
      /\ outReq'[c] = s.keep /\ \A d \in Caches \ {c} : outReq'[d] = outReq[d]
  <2>1. \A d \in L1s : d \in Caches /\ d # "L2"
    BY DEF L1s, Caches
  <2> QED
    BY <1>1, <1>2, <1>6, <2>1 DEF PerCache
<1>10. /\ pq'[c] = Aged(pq[c]) /\ \A d \in Caches \ {c} : pq'[d] = pq[d]
       /\ evicts'[c] = <<>> /\ \A d \in Caches \ {c} : evicts'[d] = evicts[d]
  BY <1>1, <1>2, <1>6 DEF PerCache
<1>11. /\ freeLd'["L2"] = s.ld /\ freeLd'[c] = LoadPorts[c]
       /\ freeSt'["L2"] = s.st /\ freeSt'[c] = StorePorts[c]
       /\ \A d \in Caches \ {c, "L2"} : freeLd'[d] = freeLd[d] /\ freeSt'[d] = freeSt[d]
  BY <1>1, <1>2, <1>6 DEF PerCache
<1>12. Aged(pq[c]) \in Seq(Piping(c)) /\ Piped(Aged(pq[c])) = Piped(pq[c])
  BY <1>1, <1>2, PipedAged DEF CacheType
<1>13. ASSUME NEW d \in Caches \ {c, "L2"} PROVE Kept(d)
  <2>1. d \in L1s
    BY DEF L1s, Caches
  <2> QED
    BY <1>6, <1>9, <1>10, <1>11, <2>1 DEF Kept
<1>14. ASSUME NEW d \in Caches \ {c, "L2"}
       PROVE  CacheType(d)' /\ \A t : Held(d, t)' = Held(d, t) /\ Own(d, t)' = Own(d, t)
  BY <1>1, <1>6, <1>13, KeptIs
<1>15. CType'
  <2>1. Made' = Made /\ \A d : SeenBy(d)' = SeenBy(d) /\ Down(d)' = Down(d) /\ Piping(d)' = Piping(d)
    BY <1>6, SameMade
  <2>2. \A d \in Caches : MshrFits(d, mshr[d])'
    BY <1>1, <1>6, <2>1 DEF CacheType, MshrFits, MshrUsed, PerLine, Entered, OnLine
  <2>3. CacheType(c)'
    <3>1. inReq'[c] \in Seq(Down(c)) /\ outReq'[c] \in Seq(Down(c)) /\ pq'[c] \in Seq(Piping(c))
      BY <1>1, <1>8, <1>9, <1>10, <1>12 DEF CacheType
    <3>2. <<>> \in Seq(Victim)
      OBVIOUS
    <3>3. freeLd'[c] \in 0 .. LoadPorts[c] /\ freeSt'[c] \in 0 .. StorePorts[c]
      BY <1>2, <1>11, SizesAre
    <3> QED
      BY <1>1, <1>2, <1>6, <1>10, <2>1, <2>2, <3>1, <3>2, <3>3 DEF CacheType
  <2>4. CacheType("L2")'
    <3>1. inReq'["L2"] \in Seq(Down("L2")) /\ outReq'["L2"] \in Seq(Down("L2")) /\ pq'["L2"] \in Seq(Piping("L2"))
      BY <1>1, <1>2, <1>8, <1>9, <1>10 DEF CacheType
    <3>2. evicts'["L2"] \in Seq(Victim)
      BY <1>1, <1>2, <1>10 DEF CacheType
    <3>3. freeLd'["L2"] \in 0 .. LoadPorts["L2"] /\ freeSt'["L2"] \in 0 .. StorePorts["L2"]
      BY <1>8, <1>11
    <3> QED
      BY <1>1, <1>2, <1>6, <2>1, <2>2, <3>1, <3>2, <3>3 DEF CacheType
  <2>5. \A d \in Caches : CacheType(d)'
    BY <1>14, <2>3, <2>4
  <2>6. DramType'
    BY <1>1, <1>6, <2>1 DEF DramType, PerLine, OnLine
  <2>7. PerCache'
    BY <1>1, <1>6 DEF PerCache, Lrus, LruSets, LruSet, Entries
  <2>8. ClientType'
    BY <1>1, <1>6, <2>1 DEF CType, ClientType
  <2> QED
    BY <2>5, <2>6, <2>7, <2>8 DEF CType
\* L2 holds what the L1 no longer has to send.
<1>16. ASSUME NEW t \in Made
       PROVE  /\ Held(c, t)' = Held(c, t)
              /\ Held("L2", t)' + Times(t, s.keep) = Held("L2", t) + Times(t, outReq[c])
              /\ Held("L2", t) \in Nat /\ Held("L2", t)' \in Nat
              /\ Times(t, s.keep) \in Nat /\ Times(t, outReq[c]) \in Nat
  <2> DEFINE i == Times(t, inReq["L2"])  p == Times(t, Piped(pq["L2"]))
             w == Times(t, stalled["L2"])  o == Times(t, outResp["L2"])
             m == Times(t, mshr["L2"][t.line])  z == Times(t, <<>>)
             j == Times(t, s.in)  k == Times(t, s.keep)  x == Times(t, outReq[c])
  <2>1. i \in Nat /\ p \in Nat /\ w \in Nat /\ o \in Nat /\ m \in Nat /\ z = 0 /\ x \in Nat
    BY <1>1, <1>2, L2SeesAll, CountsAre, TimesEmpty
  <2>2. j \in Nat /\ k \in Nat
    BY <1>8, TimesIs
  <2>3. j + k = i + z + x
    BY <1>7
  <2>4. Held("L2", t) = i + p + w + o + m /\ Held("L2", t)' = j + p + w + o + m
    <3>1. /\ inReq'["L2"] = s.in /\ pq'["L2"] = pq["L2"] /\ stalled'["L2"] = stalled["L2"]
          /\ outResp'["L2"] = outResp["L2"] /\ mshr'["L2"] = mshr["L2"]
      BY <1>2, <1>6, <1>9, <1>10
    <3>2. Held("L2", t) = i + p + w + o + m
      BY DEF Held
    <3>3. /\ Times(t, inReq["L2"])' = j /\ Times(t, Piped(pq["L2"]))' = p
          /\ Times(t, stalled["L2"])' = w /\ Times(t, outResp["L2"])' = o
          /\ Times(t, mshr["L2"][t.line])' = m
      BY <3>1 DEF Times, Piped
    <3>4. Held("L2", t)' = j + p + w + o + m
      BY <3>3 DEF Held
    <3> QED
      BY <3>2, <3>4
  <2>5. Held(c, t)' = Held(c, t)
    BY <1>6, <1>9, <1>10, <1>12 DEF Held
  <2>6. k = Times(t, s.keep) /\ x = Times(t, outReq[c])
    OBVIOUS
  <2> HIDE DEF i, p, w, o, m, z, j, k, x
  <2>7. /\ (j + p + w + o + m) + k = (i + p + w + o + m) + x
        /\ i + p + w + o + m \in Nat /\ j + p + w + o + m \in Nat
    BY <2>1, <2>2, <2>3
  <2> QED
    BY <2>1, <2>2, <2>4, <2>5, <2>6, <2>7
<1>17. ASSUME NEW t \in Made, t \notin SeenBy(c) PROVE Held("L2", t)' = Held("L2", t)
  <2> DEFINE h == Held("L2", t)  h2 == Held("L2", t)'
  <2>1. Times(t, s.keep) = 0 /\ Times(t, outReq[c]) = 0
    BY <1>1, <1>8, <1>17, NotOffered DEF CacheType
  <2>2. h2 + 0 = h + 0 /\ h \in Nat /\ h2 \in Nat
    BY <1>16, <2>1
  <2> HIDE DEF h, h2
  <2>3. h2 = h
    BY <2>2
  <2> QED
    BY <2>3 DEF h, h2
<1>18. ASSUME NEW t \in Made PROVE Held(Owner(t), t)' = Held(Owner(t), t)
  <2> DEFINE d == Owner(t)
  <2>1. d \in Caches /\ (t \in SeenBy(c) <=> d = c)
    BY MadeIs
  <2> HIDE DEF d
  <2>2. CASE d = c
    BY <1>16, <2>2 DEF d, Owner
  <2>3. CASE d = "L2"
    BY <1>2, <1>17, <2>1, <2>3 DEF d, Owner
  <2>4. CASE d # c /\ d # "L2"
    BY <1>14, <2>1, <2>4 DEF d, Owner
  <2> QED
    BY <2>2, <2>3, <2>4
<1>19. ASSUME NEW d \in Caches, NEW u \in SeenBy(d)
       PROVE  Own(d, u)' + Below(d, u)' = Own(d, u) + Below(d, u)
  <2>1. u \in Made
    BY SeenIs
  <2>2. CASE d = c
    <3> DEFINE k == Times(u, s.keep)  x == Times(u, outReq[c])  i == Times(u, inResp[c])
               h == Held("L2", u)  h2 == Held("L2", u)'
    <3>1. h2 + k = h + x /\ h \in Nat /\ h2 \in Nat /\ k \in Nat /\ x \in Nat
      BY <1>16, <2>1
    <3>2. i \in Nat
      BY <1>1, <1>2, <2>1, L2SeesAll, CountsAre
    <3>3. /\ Own(d, u)' = k + i /\ Own(d, u) = x + i /\ Below(d, u)' = h2 /\ Below(d, u) = h
      BY <1>2, <1>6, <1>9, <2>2 DEF Own, Below, Times
    <3> HIDE DEF k, x, i, h, h2
    <3>4. (k + i) + h2 = (x + i) + h
      BY <3>1, <3>2
    <3> QED
      BY <3>3, <3>4
  <2>3. CASE d = "L2"
    <3>1. Own(d, u)' = Own(d, u) /\ Below(d, u)' = Below(d, u)
      BY <1>2, <1>6, <1>9, <2>3 DEF Own, Below, Times
    <3> QED
      BY <3>1
  <2>4. CASE d # c /\ d # "L2"
    <3>1. u \notin SeenBy(c)
      BY <1>2, <2>4, SeenIs
    <3>2. Own(d, u)' = Own(d, u) /\ Below(d, u)' = Below(d, u)
      BY <1>14, <1>17, <2>1, <2>4, <3>1 DEF Below
    <3> QED
      BY <3>2
  <2> QED
    BY <2>2, <2>3, <2>4
<1> QED
  BY <1>6, <1>15, <1>18, <1>19, MovedStep

\* sendRequestsL2: a miss goes to the memory or stays; evictions take lines from the
\* L1s and nothing from the transactions.
LEMMA L2Sends ==
    ASSUME CInv, sendRequestsL2
    PROVE  CInv'
<1> DEFINE b == [rd |-> freeRd, wr |-> freeWr, reads |-> dramReads, writes |-> dramWrites,
                 keep |-> <<>>, evicts |-> <<>>, lru |-> lru, pq |-> pq["L2"]]
           q == outReq["L2"]  v == evicts["L2"]
           r(refused) == SendEach(refused, b, q)
           e(refused) == EvictEach(refused, r(refused), v)
<1>1. CType /\ PerCache /\ DramType /\ CacheType("L2") /\ \A d \in Caches : CacheType(d)
  BY L2SeesAll DEF CInv, CType
<1>2. "L2" \in Caches /\ SeenBy("L2") = Made
  BY L2SeesAll
<1>3. b \in Sends
  <2>1. <<>> \in Seq(Down("L2")) /\ <<>> \in Seq(Victim)
    OBVIOUS
  <2>2. pq["L2"] \in Seq(Piping("L2")) /\ lru \in Lrus
    BY <1>1 DEF CacheType, PerCache
  <2>3. /\ PerLine(Made, dramReads) /\ dramReads \in [Lines -> Seq(Made)]
        /\ dramWrites \in [Lines -> Nat] /\ freeRd \in Int /\ freeWr \in 0 .. WritePorts
    BY <1>1 DEF DramType, PerLine
  <2> QED
    BY <2>1, <2>2, <2>3 DEF Sends
<1>4. b.reads = dramReads /\ b.keep = <<>> /\ b.pq = pq["L2"]
  OBVIOUS
<1>5. q \in Seq(Down("L2")) /\ v \in Seq(Victim)
  BY <1>1 DEF CacheType
<1>6. PICK refused \in (IF MayRefuse THEN SUBSET Lines ELSE {{}}) :
         /\ dramReads' = e(refused).reads /\ dramWrites' = e(refused).writes
         /\ freeRd' = e(refused).rd /\ freeWr' = e(refused).wr
         /\ outReq' = [outReq EXCEPT !["L2"] = e(refused).keep]
         /\ evicts' = [evicts EXCEPT !["L2"] = e(refused).evicts]
         /\ lru' = e(refused).lru
         /\ pq' = [pq EXCEPT !["L2"] = Aged(e(refused).pq)]
  BY DEF sendRequestsL2
<1>7. /\ freeLd' = [freeLd EXCEPT !["L2"] = LoadPorts["L2"]]
      /\ freeSt' = [freeSt EXCEPT !["L2"] = StorePorts["L2"]]
      /\ issued' = issued /\ waiting' = waiting /\ inReq' = inReq /\ inResp' = inResp
      /\ outResp' = outResp /\ stalled' = stalled /\ mshr' = mshr
  BY DEF sendRequestsL2, client
<1> DEFINE s1 == SendEach(refused, b, q)  s == EvictEach(refused, s1, v)
<1>8. /\ dramReads' = s.reads /\ dramWrites' = s.writes /\ freeRd' = s.rd /\ freeWr' = s.wr
      /\ outReq' = [outReq EXCEPT !["L2"] = s.keep] /\ evicts' = [evicts EXCEPT !["L2"] = s.evicts]
      /\ lru' = s.lru /\ pq' = [pq EXCEPT !["L2"] = Aged(s.pq)]
  BY <1>6
<1> HIDE DEF b, q, v, r, e
<1>9. /\ s1 \in Sends /\ s1.pq = pq["L2"]
      /\ \A u \in Made : Times(u, s1.reads[u.line]) + Times(u, s1.keep)
                            = Times(u, dramReads[u.line]) + Times(u, <<>>) + Times(u, q)
  BY <1>3, <1>4, <1>5, AllSent
<1> HIDE DEF s1
<1>10. s \in Sends /\ s.reads = s1.reads /\ s.keep = s1.keep /\ Piped(s.pq) = Piped(pq["L2"])
  BY <1>5, <1>9, AllEvicted
<1> HIDE DEF s
<1>11. /\ s.rd \in Int /\ s.wr \in 0 .. WritePorts /\ PerLine(Made, s.reads)
       /\ s.writes \in [Lines -> Nat] /\ s.keep \in Seq(Down("L2")) /\ s.evicts \in Seq(Victim)
       /\ s.lru \in Lrus /\ s.pq \in Seq(Piping("L2"))
  BY <1>10 DEF Sends
<1>12. Aged(s.pq) \in Seq(Piping("L2")) /\ Piped(Aged(s.pq)) = Piped(pq["L2"])
  BY <1>2, <1>10, <1>11, PipedAged
<1>13. /\ outReq'["L2"] = s.keep /\ evicts'["L2"] = s.evicts /\ pq'["L2"] = Aged(s.pq)
       /\ freeLd'["L2"] = LoadPorts["L2"] /\ freeSt'["L2"] = StorePorts["L2"]
  BY <1>1, <1>2, <1>7, <1>8 DEF PerCache
<1>14. ASSUME NEW d \in Caches \ {"L2"} PROVE Kept(d)
  BY <1>1, <1>2, <1>7, <1>8, <1>14 DEF Kept, PerCache
<1>15. ASSUME NEW d \in Caches \ {"L2"}
       PROVE  CacheType(d)' /\ \A t : Held(d, t)' = Held(d, t) /\ Own(d, t)' = Own(d, t)
  BY <1>1, <1>7, <1>14, KeptIs
<1>16. CType'
  <2>1. Made' = Made /\ \A d : SeenBy(d)' = SeenBy(d) /\ Down(d)' = Down(d) /\ Piping(d)' = Piping(d)
    BY <1>7, SameMade
  <2>2. CacheType("L2")'
    <3>1. MshrFits("L2", mshr["L2"])'
      BY <1>1, <1>2, <1>7, <2>1 DEF CacheType, MshrFits, MshrUsed, PerLine, Entered, OnLine
    <3>2. outReq'["L2"] \in Seq(Down("L2")) /\ pq'["L2"] \in Seq(Piping("L2")) /\ evicts'["L2"] \in Seq(Victim)
      BY <1>11, <1>12, <1>13
    <3>3. freeLd'["L2"] \in 0 .. LoadPorts["L2"] /\ freeSt'["L2"] \in 0 .. StorePorts["L2"]
      BY <1>2, <1>13, SizesAre
    <3> QED
      BY <1>1, <1>2, <1>7, <2>1, <3>1, <3>2, <3>3 DEF CacheType
  <2>3. DramType'
    BY <1>8, <1>11, <2>1 DEF DramType, PerLine, OnLine
  <2>4. PerCache'
    BY <1>1, <1>7, <1>8, <1>11 DEF PerCache, Lrus, LruSets, LruSet, Entries
  <2>5. ClientType'
    BY <1>1, <1>7, <2>1 DEF CType, ClientType
  <2> QED
    BY <1>2, <1>15, <2>2, <2>3, <2>4, <2>5 DEF CType
<1>17. ASSUME NEW d \in Caches PROVE \A t : Held(d, t)' = Held(d, t)
  <2>1. CASE d = "L2"
    BY <1>7, <1>12, <1>13, <2>1 DEF Held
  <2> QED
    BY <1>15, <2>1
<1>18. ASSUME NEW t \in Made PROVE Held(Owner(t), t)' = Held(Owner(t), t)
  <2> DEFINE d == Owner(t)
  <2>1. d \in Caches
    BY MadeIs
  <2> HIDE DEF d
  <2>2. Held(d, t)' = Held(d, t)
    BY <1>17, <2>1
  <2> QED
    BY <2>2 DEF d, Owner
<1>19. ASSUME NEW d \in Caches, NEW u \in SeenBy(d)
       PROVE  Own(d, u)' + Below(d, u)' = Own(d, u) + Below(d, u)
  <2>1. u \in Made /\ u.line \in Lines
    BY SeenIs
  <2>2. CASE d = "L2"
    <3> DEFINE k == Times(u, s.keep)  x == Times(u, q)  i == Times(u, inResp["L2"])
               w == Times(u, dramReads[u.line])  w2 == Times(u, s.reads[u.line])  z == Times(u, <<>>)
    <3>1. w2 + k = w + z + x /\ z = 0
      BY <1>9, <1>10, <2>1, TimesEmpty
    <3>2. i \in Nat /\ x \in Nat
      BY <1>1, <1>2, <2>1, CountsAre DEF q
    <3>3. w \in Nat /\ w2 \in Nat /\ k \in Nat
      <4>1. dramReads[u.line] \in Seq(Made) /\ s.reads[u.line] \in Seq(Made)
        BY <1>1, <1>11, <2>1 DEF DramType, PerLine
      <4> QED
        BY <1>11, <4>1, TimesIs
    <3>4. Own(d, u)' = k + i /\ Own(d, u) = x + i
      BY <1>7, <1>13, <2>2 DEF Own, Times, q
    <3>5. Below(d, u)' = w2 /\ Below(d, u) = w
      BY <1>8, <2>2 DEF Below, Times
    <3> HIDE DEF k, x, i, w, w2, z
    <3>6. (k + i) + w2 = (x + i) + w
      BY <3>1, <3>2, <3>3
    <3> QED
      BY <3>4, <3>5, <3>6
  <2>3. CASE d # "L2"
    <3>1. Own(d, u)' = Own(d, u) /\ Below(d, u)' = Below(d, u)
      BY <1>2, <1>15, <1>17, <2>3 DEF Below
    <3> QED
      BY <3>1
  <2> QED
    BY <2>2, <2>3
<1> QED
  BY <1>7, <1>16, <1>18, <1>19, MovedStep

\* More transactions may be there than a line's sequence has.
LEMMA PerLineGrows ==
    ASSUME NEW S, NEW T, S \subseteq T, NEW m, PerLine(S, m)
    PROVE  PerLine(T, m)
<1>1. ASSUME NEW l \in Lines PROVE m[l] \in Seq(T) /\ m[l] \in Seq(OnLine(T, l))
  <2>1. m[l] \in Seq(S) /\ m[l] \in Seq(OnLine(S, l)) /\ OnLine(S, l) \subseteq OnLine(T, l)
    BY DEF PerLine, OnLine
  <2> QED
    BY <2>1, SeqGrows
<1>2. m \in [Lines -> Seq(T)]
  <2>1. m = [l \in Lines |-> m[l]]
    BY DEF PerLine
  <2> HIDE DEF PerLine
  <2> QED
    BY <1>1, <2>1
<1> QED
  BY <1>1, <1>2 DEF PerLine

\* The request that is made: a new transaction, and none of those made before.
LEMMA NewlyMade ==
    ASSUME CInv, NEW r \in Requests, issued' = issued + 1,
           NEW t, t = Transaction(issued + 1, r)
    PROVE  /\ Made \subseteq Made' /\ t \in Made' /\ t \notin Made
           /\ t.port = r.port /\ t.load = r.load /\ t.line \in Lines
           /\ Owner(t) \in Caches /\ t \in SeenBy(Owner(t))'
           /\ \A d \in L1s : t \in SeenBy(d)' => Owner(t) = d
           /\ \A d \in Caches : SeenBy(d) \subseteq SeenBy(d)' /\ Down(d) \subseteq Down(d)'
           /\ \A d \in Caches : Piping(d) \subseteq Piping(d)'
           /\ \A u \in Made' : /\ u.line \in Lines /\ u \notin Evictions
                               /\ Owner(u) \in Caches /\ u \in SeenBy(Owner(u))'
           /\ \A d \in Caches : \A u \in SeenBy(d)' : u \in Made' /\ (u \in Made => u \in SeenBy(d))
<1>1. issued \in Nat
  BY DEF CInv, CType, ClientType
<1>2. Made \subseteq Made' /\ t \in Made'
  <2>1. 1 .. issued \subseteq 1 .. issued' /\ issued + 1 \in 1 .. issued'
    BY <1>1
  <2> QED
    BY <2>1 DEF Made, Transaction
<1>3. t.port = r.port /\ t.load = r.load /\ t.line \in Lines /\ t.port \in {"L1I", "L1D", "DMA"}
  BY RequestsAssumption DEF Transaction
<1>4. t \notin Made
  <2>1. SUFFICES ASSUME t \in Made PROVE FALSE
    OBVIOUS
  <2>2. PICK n \in 1 .. issued, k \in Requests : t = Transaction(n, k)
    BY <2>1 DEF Made
  <2>3. n = issued + 1
    BY <2>2 DEF Transaction
  <2> QED
    BY <1>1, <2>3
<1>5. ASSUME NEW u \in Made'
      PROVE  u.line \in Lines /\ u.port \in {"L1I", "L1D", "DMA"} /\ u \notin Evictions
  <2>1. PICK n \in 1 .. issued', k \in Requests : u = Transaction(n, k)
    BY DEF Made, Transaction
  <2>2. u.line \in Lines /\ u.port \in {"L1I", "L1D", "DMA"}
    BY <2>1, RequestsAssumption DEF Transaction
  <2> QED
    BY <2>2 DEF Evictions, EvictOf
<1>6. \A u \in Made' : Owner(u) \in Caches /\ u \in SeenBy(Owner(u))'
  BY <1>5 DEF Owner, SeenBy, Caches, L1s
<1>7. Owner(t) \in Caches /\ t \in SeenBy(Owner(t))'
  BY <1>2, <1>6
<1>8. \A d \in L1s : t \in SeenBy(d)' => Owner(t) = d
  BY DEF Owner, SeenBy, L1s
<1>9. \A d \in Caches : SeenBy(d) \subseteq SeenBy(d)' /\ Down(d) \subseteq Down(d)'
  BY <1>2 DEF SeenBy, Down, Evictions, EvictOf
<1>10. \A d \in Caches : Piping(d) \subseteq Piping(d)'
  BY <1>9 DEF Piping
<1>11. \A d \in Caches : \A u \in SeenBy(d)' : u \in Made' /\ (u \in Made => u \in SeenBy(d))
  BY DEF SeenBy
<1> QED
  BY <1>2, <1>3, <1>4, <1>5, <1>6, <1>7, <1>8, <1>9, <1>10, <1>11

\* What is not made yet is nowhere.
LEMMA NowhereYet ==
    ASSUME CType, NEW u, u \notin Made, u \notin Evictions, u.line \in Lines, NEW d \in Caches
    PROVE  /\ Held(d, u) = 0 /\ Own(d, u) = 0 /\ Times(u, dramReads[u.line]) = 0
           /\ Lead(mshr[d], u) = 0
<1>1. CacheType(d) /\ DramType
  BY DEF CType
<1>2. u \notin SeenBy(d) /\ u \notin Down(d)
  BY DEF SeenBy, Down
<1>3. /\ inReq[d] \in Seq(Down(d)) /\ outReq[d] \in Seq(Down(d))
      /\ stalled[d] \in Seq(SeenBy(d)) /\ inResp[d] \in Seq(SeenBy(d))
      /\ outResp[d] \in Seq(SeenBy(d)) /\ pq[d] \in Seq(Piping(d))
      /\ mshr[d][u.line] \in Seq(SeenBy(d)) /\ dramReads[u.line] \in Seq(Made)
  BY <1>1 DEF CacheType, MshrFits, PerLine, DramType
<1>4. Piped(pq[d]) \in Seq(Down(d))
  BY <1>3, PipedIs
<1>5. ASSUME NEW S, NEW s \in Seq(S), u \notin S PROVE Times(u, s) = 0
  <2>1. ~\E i \in 1 .. Len(s) : s[i] = u
    BY <1>5, ElementOfSeq
  <2>2. Times(u, s) \in Nat /\ ~(Times(u, s) > 0)
    BY <2>1, TimesIs
  <2> QED
    BY <2>2
<1>6. Times(u, inReq[d]) = 0 /\ Times(u, Piped(pq[d])) = 0 /\ Times(u, outReq[d]) = 0
  BY <1>2, <1>3, <1>4, <1>5
<1>7. Times(u, stalled[d]) = 0 /\ Times(u, inResp[d]) = 0 /\ Times(u, outResp[d]) = 0
  BY <1>2, <1>3, <1>5
<1>8. Times(u, mshr[d][u.line]) = 0 /\ Times(u, dramReads[u.line]) = 0
  BY <1>2, <1>3, <1>5
<1>9. Lead(mshr[d], u) = 0
  <2>1. SUFFICES ASSUME Leads(mshr[d], u) PROVE FALSE
    BY DEF Lead
  <2>2. mshr[d][u.line] # <<>> /\ Head(mshr[d][u.line]) = u
    BY <2>1 DEF Leads
  <2>3. Head(mshr[d][u.line]) \in SeenBy(d)
    BY <1>3, <2>2, HeadTailProperties
  <2> QED
    BY <1>2, <2>2, <2>3
<1> QED
  BY <1>6, <1>7, <1>8, <1>9 DEF Held, Own

\* A sequence of a cache is one for the transactions made afterwards too.
LEMMA CacheGrows ==
    ASSUME CInv, NEW d \in Caches,
           SeenBy(d) \subseteq SeenBy(d)', Down(d) \subseteq Down(d)', Piping(d) \subseteq Piping(d)'
    PROVE  /\ inReq[d] \in Seq(Down(d)') /\ outReq[d] \in Seq(Down(d)')
           /\ stalled[d] \in Seq(SeenBy(d)') /\ inResp[d] \in Seq(SeenBy(d)')
           /\ outResp[d] \in Seq(SeenBy(d)') /\ pq[d] \in Seq(Piping(d)')
           /\ PerLine(SeenBy(d)', mshr[d])
<1>1. CacheType(d)
  BY DEF CInv, CType
<1>2. /\ inReq[d] \in Seq(Down(d)) /\ outReq[d] \in Seq(Down(d))
      /\ stalled[d] \in Seq(SeenBy(d)) /\ inResp[d] \in Seq(SeenBy(d))
      /\ outResp[d] \in Seq(SeenBy(d)) /\ pq[d] \in Seq(Piping(d)) /\ PerLine(SeenBy(d), mshr[d])
  BY <1>1 DEF CacheType, MshrFits
<1>3. inReq[d] \in Seq(Down(d)') /\ outReq[d] \in Seq(Down(d)')
  BY <1>2, SeqGrows
<1>4. stalled[d] \in Seq(SeenBy(d)') /\ inResp[d] \in Seq(SeenBy(d)') /\ outResp[d] \in Seq(SeenBy(d)')
  BY <1>2, SeqGrows
<1>5. pq[d] \in Seq(Piping(d)')
  BY <1>2, SeqGrows
<1>6. PerLine(SeenBy(d)', mshr[d])
  BY <1>2, PerLineGrows
<1> QED
  BY <1>3, <1>4, <1>5, <1>6

\* submit: the new transaction is held once by the cache it is given to.
LEMMA Submitted ==
    ASSUME CInv, NEW r \in Requests, submit(r)
    PROVE  CInv'
<1>1. PICK t : t = Transaction(issued + 1, r)
  OBVIOUS
<1>2. PICK c : c = Owner(t)
  OBVIOUS
<1>3. CType /\ PerCache /\ DramType /\ \A d \in Caches : CacheType(d)
  BY DEF CInv, CType
<1>4. /\ issued < MaxRequests /\ issued' = issued + 1 /\ waiting' = waiting \cup {t}
      /\ inReq' = [inReq EXCEPT ![c] = Append(@, t)]
      /\ Accepts(freeLd[c], freeSt[c], t)
      /\ freeLd' = [freeLd EXCEPT ![c] = LoadsLeft(@, t)]
      /\ freeSt' = [freeSt EXCEPT ![c] = StoresLeft(@, t)]
      /\ inResp' = inResp /\ outReq' = outReq /\ outResp' = outResp /\ stalled' = stalled
      /\ pq' = pq /\ mshr' = mshr /\ evicts' = evicts /\ lru' = lru
      /\ dramReads' = dramReads /\ dramWrites' = dramWrites /\ freeRd' = freeRd /\ freeWr' = freeWr
  BY <1>1, <1>2 DEF submit, dram
<1>5. /\ Made \subseteq Made' /\ t \in Made' /\ t \notin Made
      /\ c \in Caches /\ t \in SeenBy(c)' /\ t.load \in BOOLEAN
      /\ \A d \in L1s : t \in SeenBy(d)' => c = d
      /\ \A d \in Caches : SeenBy(d) \subseteq SeenBy(d)' /\ Down(d) \subseteq Down(d)'
      /\ \A d \in Caches : Piping(d) \subseteq Piping(d)'
      /\ \A u \in Made' : u.line \in Lines /\ u \notin Evictions /\ Owner(u) \in Caches
      /\ \A d \in Caches : \A u \in SeenBy(d)' : u \in Made' /\ (u \in Made => u \in SeenBy(d))
  BY <1>1, <1>2, <1>4, NewlyMade, RequestsAssumption
<1>6. inReq'[c] = Append(inReq[c], t) /\ \A d \in Caches \ {c} : inReq'[d] = inReq[d]
  BY <1>3, <1>4, <1>5 DEF PerCache
<1>7. /\ inReq[c] \in Seq(Down(c)') /\ t \in Down(c)' /\ inReq'[c] \in Seq(Down(c)')
  <2>1. inReq[c] \in Seq(Down(c)')
    BY <1>5, CacheGrows
  <2>2. t \in Down(c)'
    BY <1>5 DEF Down
  <2> QED
    BY <1>6, <2>1, <2>2, AppendProperties
<1>8. CType'
  <2>1. ASSUME NEW d \in Caches PROVE CacheType(d)'
    <3>1. /\ inReq[d] \in Seq(Down(d)') /\ outReq'[d] \in Seq(Down(d)')
          /\ stalled'[d] \in Seq(SeenBy(d)') /\ inResp'[d] \in Seq(SeenBy(d)')
          /\ outResp'[d] \in Seq(SeenBy(d)') /\ pq'[d] \in Seq(Piping(d)')
          /\ PerLine(SeenBy(d)', mshr[d])
      BY <1>4, <1>5, CacheGrows
    <3>2. inReq'[d] \in Seq(Down(d)')
      <4>1. CASE d = c
        BY <1>7, <4>1
      <4>2. CASE d # c
        BY <1>6, <3>1, <4>2
      <4> QED
        BY <4>1, <4>2
    <3>3. MshrFits(d, mshr[d])'
      <4>1. IsFiniteSet(Entered(mshr[d])) /\ MshrUsed(mshr[d]) <= MshrSize[d]
        BY <1>3 DEF CacheType, MshrFits
      <4>2. PerLine(SeenBy(d), mshr[d])'
        BY <1>4, <3>1 DEF PerLine, OnLine
      <4>3. IsFiniteSet(Entered(mshr[d]))' /\ (MshrUsed(mshr[d]) <= MshrSize[d])'
        BY <1>4, <4>1 DEF Entered, MshrUsed
      <4> QED
        BY <4>2, <4>3 DEF MshrFits
    <3>4. evicts'[d] \in Seq(Victim)
      BY <1>3, <1>4 DEF CacheType
    <3>5. freeLd'[d] \in 0 .. LoadPorts[d] /\ freeSt'[d] \in 0 .. StorePorts[d]
      <4>1. /\ freeLd[d] \in 0 .. LoadPorts[d] /\ freeSt[d] \in 0 .. StorePorts[d]
            /\ LoadPorts[d] \in Nat /\ StorePorts[d] \in Nat
        BY <1>3, SizesAre DEF CacheType
      <4>2. CASE d = c
        <5>1. freeLd'[d] = LoadsLeft(freeLd[d], t) /\ freeSt'[d] = StoresLeft(freeSt[d], t)
          BY <1>3, <1>4, <1>5, <4>2 DEF PerCache
        <5> QED
          BY <1>4, <1>5, <4>1, <4>2, <5>1 DEF Accepts, LoadsLeft, StoresLeft
      <4>3. CASE d # c
        <5>1. freeLd'[d] = freeLd[d] /\ freeSt'[d] = freeSt[d]
          BY <1>3, <1>4, <1>5, <4>3 DEF PerCache
        <5> QED
          BY <4>1, <5>1
      <4> QED
        BY <4>2, <4>3
    <3> QED
      BY <3>1, <3>2, <3>3, <3>4, <3>5 DEF CacheType
  <2>2. DramType'
    <3>1. PerLine(Made', dramReads)
      BY <1>3, <1>5, PerLineGrows DEF DramType
    <3>2. PerLine(Made, dramReads)'
      BY <1>4, <3>1 DEF PerLine, OnLine
    <3> QED
      BY <1>3, <1>4, <3>2 DEF DramType
  <2>3. PerCache'
    BY <1>3, <1>4 DEF PerCache, Lrus, LruSets, LruSet, Entries
  <2>4. ClientType'
    BY <1>3, <1>4, <1>5, SizeAssumption DEF CType, ClientType
  <2> QED
    BY <2>1, <2>2, <2>3, <2>4 DEF CType
<1>9. ASSUME NEW u \in Made', NEW d \in Caches
      PROVE  Held(d, u) \in Nat /\ Own(d, u) \in Nat
  BY <1>3, <1>5, CountsAre
\* Nothing else is held that was not.
<1>10. ASSUME NEW u \in Made', NEW d \in Caches, d # c \/ u # t
       PROVE  Held(d, u)' = Held(d, u)
  <2>1. Times(u, inReq[d])' = Times(u, inReq[d])
    <3>1. CASE d # c
      BY <1>6, <3>1 DEF Times
    <3>2. CASE d = c
      <4>1. Is(t, u) = 0
        BY <1>10, <3>2 DEF Is
      <4>2. Times(u, Append(inReq[c], t)) = Times(u, inReq[c]) + 0
        BY <1>7, <4>1, TimesAppend
      <4>3. Times(u, inReq[c]) \in Nat
        BY <1>7, TimesIs
      <4> DEFINE n == Times(u, inReq[c])
      <4>4. Times(u, Append(inReq[c], t)) = n
        BY <4>2, <4>3
      <4> HIDE DEF n
      <4>5. Times(u, inReq[c])' = n
        BY <1>6, <4>4 DEF Times
      <4> QED
        BY <3>2, <4>5 DEF n
    <3> QED
      BY <3>1, <3>2
  <2> QED
    BY <1>4, <2>1 DEF Held, Times, Piped
<1>11. ASSUME NEW u \in Made', NEW d \in Caches
       PROVE  Own(d, u)' = Own(d, u) /\ Lead(mshr[d], u)' = Lead(mshr[d], u)
              /\ Times(u, dramReads[u.line])' = Times(u, dramReads[u.line])
  BY <1>4 DEF Own, Lead, Leads, Times
<1>12. Held(c, t)' = 1
  <2> DEFINE i == Times(t, inReq[c])  p == Times(t, Piped(pq[c]))  w == Times(t, stalled[c])
             o == Times(t, outResp[c])  m == Times(t, mshr[c][t.line])  j == Times(t, inReq'[c])
  <2>1. i \in Nat /\ p \in Nat /\ w \in Nat /\ o \in Nat /\ m \in Nat
    BY <1>3, <1>5, CountsAre
  <2>2. Held(c, t) = 0 /\ Held(c, t) = i + p + w + o + m
    BY <1>3, <1>5, NowhereYet DEF Held
  <2>3. j = i + Is(t, t) /\ Is(t, t) = 1
    BY <1>6, <1>7, TimesAppend DEF Is
  <2>4. Held(c, t)' = j + p + w + o + m
    BY <1>4 DEF Held, Times, Piped
  <2> HIDE DEF i, p, w, o, m, j
  <2>5. j + p + w + o + m = 1
    BY <2>1, <2>2, <2>3
  <2> QED
    BY <2>4, <2>5
<1>13. ASSUME NEW u \in Made' PROVE Held(Owner(u), u)' = IF u \in waiting' THEN 1 ELSE 0
  <2>1. CASE u = t
    BY <1>2, <1>4, <1>12, <2>1 DEF Owner
  <2>2. CASE u # t /\ u \in Made
    <3>1. Held(Owner(u), u) = IF u \in waiting THEN 1 ELSE 0
      BY <2>2, CountsBefore
    <3>2. PICK d \in Caches : d = Owner(u)
      BY <1>5
    <3>3. Held(d, u)' = Held(d, u)
      BY <1>10, <2>2, <3>2
    <3> QED
      BY <1>4, <2>2, <3>1, <3>2, <3>3
  <2>3. CASE u # t /\ u \notin Made
    <3>1. PICK d \in Caches : d = Owner(u)
      BY <1>5
    <3>2. Held(d, u)' = Held(d, u) /\ Held(d, u) = 0
      BY <1>3, <1>5, <1>10, <2>3, <3>1, NowhereYet
    <3>3. u \notin waiting'
      BY <1>3, <1>4, <2>3 DEF CType, ClientType
    <3> QED
      BY <3>1, <3>2, <3>3
  <2> QED
    BY <2>1, <2>2, <2>3
<1>14. ASSUME NEW d \in Caches, NEW u \in SeenBy(d)'
       PROVE  Own(d, u)' + Below(d, u)' = Lead(mshr[d], u)'
  <2>1. u \in Made' /\ u.line \in Lines /\ u \notin Evictions
    BY <1>5
  <2>2. "L2" \in Caches
    BY DEF Caches
  <2>3. Below(d, u)' = Below(d, u)
    <3>1. CASE d = "L2"
      BY <1>11, <2>1, <3>1 DEF Below
    <3>2. CASE d # "L2"
      <4>1. u = t => c # "L2"
        BY <1>5, <3>2 DEF Caches
      <4>2. Held("L2", u)' = Held("L2", u)
        BY <1>10, <2>1, <2>2, <4>1
      <4> QED
        BY <3>2, <4>2 DEF Below
    <3> QED
      BY <3>1, <3>2
  <2>4. Own(d, u) + Below(d, u) = Lead(mshr[d], u)
    <3>1. CASE u \in Made
      BY <1>5, <3>1, CountsBefore
    <3>2. CASE u \notin Made
      <4>1. Own(d, u) = 0 /\ Lead(mshr[d], u) = 0 /\ Times(u, dramReads[u.line]) = 0 /\ Held("L2", u) = 0
        BY <1>3, <2>1, <2>2, <3>2, NowhereYet
      <4>2. Below(d, u) = 0
        BY <4>1 DEF Below
      <4> QED
        BY <4>1, <4>2
    <3> QED
      BY <3>1, <3>2
  <2> QED
    BY <1>11, <2>1, <2>3, <2>4
<1>15. AnsweredExactlyOnce'
  BY <1>13 DEF AnsweredExactlyOnce, Owner
<1>16. OneFillPerEntry'
  <2>1. ASSUME NEW d \in Caches, NEW u \in SeenBy(d)'
        PROVE  AskedBelow(d, u)' = IF Leads(mshr'[d], u) THEN 1 ELSE 0
    <3>1. AskedBelow(d, u)' = Lead(mshr[d], u)'
      BY <1>14, AskedIsPrimed
    <3> QED
      BY <3>1 DEF Lead, Leads
  <2> QED
    BY <2>1 DEF OneFillPerEntry
<1> QED
  BY <1>8, <1>15, <1>16 DEF CInv

-----------------------------------------------------------------------------
(* The theorems.                                                           *)

LEMMA InitHolds ==
    ASSUME Init
    PROVE  CInv
<1>1. Made = {}
  <2>1. 1 .. issued = {}
    BY DEF Init
  <2> QED
    BY <2>1 DEF Made
<1>2. ASSUME NEW d \in Caches
      PROVE  /\ inReq[d] = <<>> /\ outReq[d] = <<>> /\ stalled[d] = <<>> /\ inResp[d] = <<>>
             /\ outResp[d] = <<>> /\ pq[d] = <<>> /\ evicts[d] = <<>>
             /\ mshr[d] = [l \in Lines |-> <<>>]
             /\ freeLd[d] = LoadPorts[d] /\ freeSt[d] = StorePorts[d]
  BY DEF Init
<1>3. \A S : <<>> \in Seq(S)
  OBVIOUS
<1>4. ASSUME NEW S, NEW m, m = [l \in Lines |-> <<>>] PROVE PerLine(S, m)
  BY <1>3, <1>4 DEF PerLine
<1>5. ASSUME NEW d \in Caches PROVE CacheType(d)
  <2>1. MshrFits(d, mshr[d])
    <3>1. PerLine(SeenBy(d), mshr[d])
      BY <1>2, <1>4
    <3>2. Entered(mshr[d]) = {}
      BY <1>2 DEF Entered
    <3>3. IsFiniteSet({}) /\ Cardinality({}) = 0
      BY FS_EmptySet
    <3>4. MshrUsed(mshr[d]) = 0
      BY <3>2, <3>3 DEF MshrUsed, Entered
    <3>5. MshrUsed(mshr[d]) <= MshrSize[d]
      BY <3>4, SizesAre
    <3> QED
      BY <3>1, <3>2, <3>3, <3>5 DEF MshrFits
  <2>2. freeLd[d] \in 0 .. LoadPorts[d] /\ freeSt[d] \in 0 .. StorePorts[d]
    BY <1>2, SizesAre
  <2> QED
    BY <1>2, <1>3, <2>1, <2>2 DEF CacheType
<1>6. DramType
  <2>1. PerLine(Made, dramReads)
    BY <1>4 DEF Init
  <2>2. dramWrites \in [Lines -> Nat] /\ freeRd \in Int /\ freeWr \in 0 .. WritePorts
    BY SizeAssumption DEF Init
  <2> QED
    BY <2>1, <2>2 DEF DramType
<1>7. PerCache
  <2>1. ASSUME NEW d \in Caches PROVE lru[d] \in LruSets(d)
    <3>1. lru[d] = [k \in 0 .. Sets[d] - 1 |-> <<>>]
      BY DEF Init
    <3>2. <<>> \in LruSet(Ways[d])
      <4>1. Len(<<>>) = 0 /\ <<>> \in Seq(Entries)
        OBVIOUS
      <4>2. Len(<<>>) <= Ways[d]
        BY <4>1, SizesAre
      <4> QED
        BY <4>1, <4>2 DEF LruSet
    <3> QED
      BY <3>1, <3>2 DEF LruSets
  <2>2. lru \in Lrus
    <3>1. DOMAIN lru = Caches /\ lru = [d \in Caches |-> lru[d]]
      BY DEF Init
    <3>2. \A d \in Caches : lru[d] \in UNION {LruSets(c) : c \in Caches}
      BY <2>1
    <3> HIDE DEF Init
    <3> QED
      BY <2>1, <3>1, <3>2 DEF Lrus
  <2>3. DOMAIN freeLd = Caches /\ DOMAIN freeSt = Caches
    BY SizeAssumption DEF Init
  <2> QED
    BY <2>2, <2>3 DEF PerCache, Init
<1>8. ClientType
  BY SizeAssumption DEF ClientType, Init
<1>9. AnsweredExactlyOnce /\ OneFillPerEntry
  BY <1>1 DEF AnsweredExactlyOnce, OneFillPerEntry, SeenBy
<1> QED
  BY <1>5, <1>6, <1>7, <1>8, <1>9 DEF CInv, CType

LEMMA NextHolds ==
    ASSUME CInv, [Next]_vars
    PROVE  CInv'
<1>1. CASE \E r \in Requests : submit(r)
  BY <1>1, Submitted
<1>2. CASE run \/ process \/ UNCHANGED vars
  BY <1>2, RunStep
<1>3. ASSUME NEW c \in Caches, CacheProcess(c)
      PROVE  CInv'
  <2>1. CASE handleRequests(c)
    BY <2>1, RequestsHandled
  <2>2. CASE retryStalled(c)
    BY <2>2, StalledRetried
  <2>3. CASE processPq(c)
    BY <2>3, PqProcessed
  <2>4. CASE handleResponses(c)
    BY <2>4, ResponsesHandled
  <2> QED
    BY <1>3, <2>1, <2>2, <2>3, <2>4 DEF CacheProcess
<1>4. ASSUME NEW c \in L1s, sendResponsesL1(c) \/ sendRequestsL1(c)
      PROVE  CInv'
  BY <1>4, L1Answers, L1Sends
<1>5. CASE sendResponsesL2 \/ sendRequestsL2
  BY <1>5, L2Answers, L2Sends
<1>6. ASSUME NEW l \in Lines, read_complete(l) \/ write_complete(l)
      PROVE  CInv'
  <2>1. CASE read_complete(l)
    BY <2>1, ReadCompleted
  <2>2. CASE write_complete(l)
    BY <2>2, RunStep
  <2> QED
    BY <1>6, <2>1, <2>2
<1> QED
  BY <1>1, <1>2, <1>3, <1>4, <1>5, <1>6 DEF Next

\* Whatever is asked, refused and evicted, every cache keeps to its sizes, holds each of
\* its unanswered requests once, and has one fill under way for each MSHR entry.
THEOREM CacheInvariant == Spec => []CInv
<1>1. Init => CInv
  BY InitHolds
<1>2. CInv /\ [Next]_vars => CInv'
  BY NextHolds
<1> QED
  BY <1>1, <1>2, PTL DEF Spec

\* The limits of the hardware follow: a sequence has its elements in its set.
LEMMA LimitsKept ==
    ASSUME CInv
    PROVE  TypeOK
<1>1. ClientType /\ DramType /\ PerCache /\ \A c \in Caches : CacheType(c)
  BY DEF CInv, CType
<1>2. ASSUME NEW S, NEW s \in Seq(S) PROVE ToSet(s) \subseteq S
  <2>1. SUFFICES ASSUME NEW x \in ToSet(s) PROVE x \in S
    OBVIOUS
  <2>2. PICK i \in 1 .. Len(s) : x = s[i]
    BY LenProperties DEF ToSet
  <2> QED
    BY <2>2, ElementOfSeq
<1>3. ASSUME NEW S, NEW m, PerLine(S, m), NEW l \in Lines, NEW t \in ToSet(m[l])
      PROVE  t \in S /\ t.line = l
  <2>1. t \in OnLine(S, l)
    BY <1>2, <1>3 DEF PerLine
  <2> QED
    BY <2>1 DEF OnLine
<1>4. ASSUME NEW c \in Caches
      PROVE  /\ ToSet(inReq[c]) \subseteq Down(c) /\ ToSet(outReq[c]) \subseteq Down(c)
             /\ ToSet(stalled[c]) \subseteq SeenBy(c) /\ ToSet(inResp[c]) \subseteq SeenBy(c)
             /\ ToSet(outResp[c]) \subseteq SeenBy(c)
  BY <1>1, <1>2 DEF CacheType
<1>5. ASSUME NEW c \in Caches
      PROVE  /\ \A l \in Lines : \A t \in ToSet(mshr[c][l]) : t \in SeenBy(c) /\ t.line = l
             /\ MshrUsed(mshr[c]) <= MshrSize[c]
             /\ freeLd[c] \in 0 .. LoadPorts[c] /\ freeSt[c] \in 0 .. StorePorts[c]
  <2>1. PerLine(SeenBy(c), mshr[c])
    BY <1>1 DEF CacheType, MshrFits
  <2>2. \A l \in Lines : \A t \in ToSet(mshr[c][l]) : t \in SeenBy(c) /\ t.line = l
    BY <1>3, <2>1
  <2> QED
    BY <1>1, <2>2 DEF CacheType, MshrFits
<1>6. ASSUME NEW c \in Caches, NEW s \in 0 .. Sets[c] - 1
      PROVE  Len(lru[c][s]) <= Ways[c]
  <2>1. lru[c] \in LruSets(c)
    BY <1>1 DEF PerCache, Lrus
  <2>2. lru[c][s] \in LruSet(Ways[c])
    BY <2>1 DEF LruSets
  <2> QED
    BY <2>2 DEF LruSet
<1>7. \A l \in Lines : \A t \in ToSet(dramReads[l]) : t \in Made /\ t.line = l
  BY <1>1, <1>3 DEF DramType
<1>8. \A c \in Caches : ToSet(inReq[c]) \cup ToSet(outReq[c])
                            \subseteq SeenBy(c) \cup {EvictOf(l) : l \in Lines}
  BY <1>4 DEF Down, Evictions
<1>9. issued \in 0 .. MaxRequests /\ waiting \subseteq Made /\ freeWr \in 0 .. WritePorts
  BY <1>1, SizeAssumption DEF ClientType, DramType
<1> QED
  BY <1>4, <1>5, <1>6, <1>7, <1>8, <1>9 DEF TypeOK

-----------------------------------------------------------------------------
(* One copy of a line, for a cache of latency 1.                           *)

\* Between two stages of a cache: no line twice in a set, none in the cache that it is
\* still to fetch, and what is in the pipeline decided by what the cache has.  A request
\* stalls only on a full MSHR, and not on a line that is being fetched.
OneCopy(c) ==
    /\ AllTidy(c, lru[c])
    /\ Entered(mshr[c]) \cap LinesOf(c, lru[c]) = {}
    /\ \A i \in 1 .. Len(stalled[c]) :
          stalled[c][i].line \notin LinesOf(c, lru[c]) \cup Entered(mshr[c])
    /\ \A i \in 1 .. Len(pq[c]) :
          pq[c][i].due = 0 /\ (~pq[c][i].hit => pq[c][i].t.line \notin LinesOf(c, lru[c]))
    /\ pq[c] # <<>> => pc \in {<<c, "stalled">>, <<c, "pq">>}
    /\ pc = <<c, "pq">> /\ stalled[c] # <<>> => MshrUsed(mshr[c]) >= MshrSize[c]

CInvOne == CInv /\ \A c \in Caches : Latency[c] = 1 => OneCopy(c)

\* handleRequests: a cache that has the lines L decides by them.
Decided(c, L) ==
    {x \in Arrivals(c) : /\ AllTidy(c, x.sets) /\ LinesOf(c, x.sets) = L
                         /\ \A i \in 1 .. Len(x.pq) :
                               x.pq[i].due = 0 /\ (~x.pq[i].hit => x.pq[i].t.line \notin L)}

LEMMA ArriveDecided ==
    ASSUME NEW c \in Caches, Latency[c] = 1, NEW L, NEW x \in Decided(c, L), NEW t \in Down(c)
    PROVE  Arrive(c, x, t) \in Decided(c, L)
<1> DEFINE i == SetOf(c, t.line)  f == x.sets  g == [f EXCEPT ![i] = access(@, t.line, t.load)]
           e == [t |-> t, hit |-> present(f[i], t.line), due |-> Latency[c] - 1,
                 conflict |-> FALSE]
           p == Append(x.pq, e)  y == Arrive(c, x, t)
<1>1. y = [sets |-> g, pq |-> p] /\ y \in Arrivals(c)
  BY ArriveStep DEF Arrive, Decided
<1>2. t.line \in Lines /\ t.load \in BOOLEAN /\ i \in 0 .. Sets[c] - 1
  BY DownIs, SetOfIs
<1>3. /\ x.pq \in Seq(Piping(c)) /\ f \in LruSets(c) /\ AllTidy(c, f) /\ LinesOf(c, f) = L
      /\ \A k \in 1 .. Len(x.pq) : x.pq[k].due = 0 /\ (~x.pq[k].hit => x.pq[k].t.line \notin L)
  BY DEF Decided, Arrivals
<1>4. e.due = 0 /\ e.t = t /\ e.hit = present(f[i], t.line)
  OBVIOUS
<1> HIDE DEF e, i, f, y
<1>5. f[i] \in Seq(Entries) /\ Tidy(f[i])
  BY <1>2, <1>3 DEF LruSets, LruSet, AllTidy
<1>6. Tidy(access(f[i], t.line, t.load)) /\ LinesIn(access(f[i], t.line, t.load)) = LinesIn(f[i])
  BY <1>2, <1>5, AccessTidy
<1>7. \A s \in 0 .. Sets[c] - 1 : g[s] = IF s = i THEN access(f[i], t.line, t.load) ELSE f[s]
  BY <1>2, <1>3 DEF LruSets
<1> HIDE DEF g
<1>8. AllTidy(c, g)
  BY <1>3, <1>6, <1>7 DEF AllTidy
<1>9. LinesOf(c, g) = L
  <2>1. ASSUME NEW l \in Lines PROVE LinesIn(g[SetOf(c, l)]) = LinesIn(f[SetOf(c, l)])
    <3>1. SetOf(c, l) \in 0 .. Sets[c] - 1
      BY SetOfIs
    <3> QED
      BY <1>6, <1>7, <3>1
  <2> QED
    BY <1>3, <2>1 DEF LinesOf
<1>10. ~e.hit => t.line \notin L
  <2>1. SUFFICES ASSUME ~e.hit PROVE t.line \notin L
    OBVIOUS
  <2>2. ~present(f[i], t.line)
    BY <1>4, <2>1
  <2>3. t.line \notin LinesIn(f[i])
    BY <1>5, <2>2, AbsentIs
  <2> QED
    BY <1>3, <2>3 DEF LinesOf, i
<1>11. e \in Piping(c)
  <2>1. y.pq = p /\ y.pq \in Seq(Piping(c))
    BY <1>1 DEF Arrivals
  <2>2. e \in {e} \cup Piping(c) /\ x.pq \in Seq({e} \cup Piping(c))
    BY <1>3, SeqGrows
  <2>3. Len(p) = Len(x.pq) + 1 /\ p[Len(x.pq) + 1] = e /\ Len(x.pq) \in Nat
    BY <2>2, AppendProperties, LenProperties
  <2>4. Len(x.pq) + 1 \in 1 .. Len(p)
    BY <2>3
  <2> QED
    BY <2>1, <2>3, <2>4, ElementOfSeq
<1>12. ASSUME NEW k \in 1 .. Len(p) PROVE p[k].due = 0 /\ (~p[k].hit => p[k].t.line \notin L)
  <2>1. /\ Len(p) = Len(x.pq) + 1 /\ Len(x.pq) \in Nat /\ p[Len(x.pq) + 1] = e
        /\ \A j \in 1 .. Len(x.pq) : p[j] = x.pq[j]
    BY <1>3, <1>11, AppendProperties, LenProperties
  <2>2. CASE k = Len(x.pq) + 1
    BY <1>4, <1>10, <2>1, <2>2
  <2>3. CASE k # Len(x.pq) + 1
    <3>1. k \in 1 .. Len(x.pq)
      BY <2>1, <2>3
    <3> QED
      BY <1>3, <2>1, <3>1
  <2> QED
    BY <2>2, <2>3
<1> HIDE DEF p
<1>13. y.sets = g /\ y.pq = p
  BY <1>1
<1>14. y \in Decided(c, L)
  BY <1>1, <1>8, <1>9, <1>12, <1>13 DEF Decided
<1> QED
  BY <1>14 DEF y

LEMMA AllDecided ==
    ASSUME NEW c \in Caches, Latency[c] = 1, NEW L, NEW b \in Decided(c, L), NEW q \in Seq(Down(c))
    PROVE  ArriveEach(c, b, q) \in Decided(c, L)
<1> DEFINE X == Decided(c, L)  D == [n \in 0 .. Len(q) |-> X]
<1>1. Len(q) \in Nat /\ DOMAIN q = 1 .. Len(q)
  BY LenProperties
<1>2. b \in X /\ b \in D[0]
  BY <1>1
<1>3. ASSUME NEW x \in X, NEW n \in 1 .. Len(q)
      PROVE  LET y == Arrive(c, x, q[n]) IN y \in X /\ (x \in D[n - 1] => y \in D[n])
  <2> DEFINE y == Arrive(c, x, q[n])
  <2>1. q[n] \in Down(c)
    BY ElementOfSeq
  <2>2. y \in X
    BY <2>1, ArriveDecided
  <2>3. n \in 0 .. Len(q)
    BY <1>1
  <2> HIDE DEF y, X
  <2> QED
    BY <2>2, <2>3 DEF y
<1> HIDE DEF X, D
<1>4. LET r == ArriveEach(c, b, q) IN r \in X /\ r \in D[Len(q)]
  BY <1>1, <1>2, <1>3, ArriveLoop
<1> QED
  BY <1>4 DEF X

\* retryStalled and processPq: misses on lines of A, which the cache does not have.
Waiting(c, A) ==
    {x \in Misses(c) :
        /\ Entered(x.mshr) \subseteq A
        /\ \A i \in 1 .. Len(x.stalled) : x.stalled[i].line \in A \ Entered(x.mshr)
        /\ x.stalled # <<>> => MshrUsed(x.mshr) >= MshrSize[c]}

LEMMA EnterWaits ==
    ASSUME NEW c \in Caches, NEW A, NEW x \in Waiting(c, A), NEW t \in SeenBy(c), t.line \in A
    PROVE  enterMSHR(c, x, t) \in Waiting(c, A)
<1> DEFINE m == x.mshr  k == [m EXCEPT ![t.line] = Append(@, t)]  y == enterMSHR(c, x, t)
<1>1. y \in Misses(c)
  BY EnterStep DEF Waiting
<1>2. /\ m \in [Lines -> Seq(SeenBy(c))] /\ x.out \in Seq(Down(c)) /\ x.stalled \in Seq(SeenBy(c))
      /\ PerLine(SeenBy(c), m) /\ IsFiniteSet(Entered(m))
      /\ x = [mshr |-> m, out |-> x.out, stalled |-> x.stalled]
  BY DEF Waiting, Misses, MshrFits
<1>3. /\ Entered(m) \subseteq A
      /\ \A i \in 1 .. Len(x.stalled) : x.stalled[i].line \in A \ Entered(m)
      /\ x.stalled # <<>> => MshrUsed(m) >= MshrSize[c]
  BY DEF Waiting
<1>4. t.line \in Lines /\ \A u \in SeenBy(c) : u.line \in Lines
  BY SeenIs
<1>5. CASE m[t.line] = <<>> /\ MshrUsed(m) >= MshrSize[c]
  <2> DEFINE w == Append(x.stalled, t)
  <2>1. y = [mshr |-> m, out |-> x.out, stalled |-> w]
    BY <1>2, <1>5 DEF enterMSHR
  <2>2. /\ Len(w) = Len(x.stalled) + 1 /\ Len(x.stalled) \in Nat /\ w[Len(x.stalled) + 1] = t
        /\ \A i \in 1 .. Len(x.stalled) : w[i] = x.stalled[i]
    BY <1>2, AppendProperties, LenProperties
  <2> HIDE DEF w, y, m
  <2>3. ASSUME NEW i \in 1 .. Len(w) PROVE w[i].line \in A \ Entered(m)
    <3>1. CASE i = Len(x.stalled) + 1
      BY <1>5, <2>2, <3>1 DEF Entered
    <3>2. CASE i # Len(x.stalled) + 1
      <4>1. i \in 1 .. Len(x.stalled)
        BY <2>2, <3>2
      <4> QED
        BY <1>3, <2>2, <4>1
    <3> QED
      BY <3>1, <3>2
  <2>4. y.mshr = m /\ y.stalled = w
    BY <2>1
  <2>5. y \in Waiting(c, A)
    BY <1>1, <1>3, <1>5, <2>3, <2>4 DEF Waiting, y
  <2> QED
    BY <2>5 DEF y
<1>6. CASE ~(m[t.line] = <<>> /\ MshrUsed(m) >= MshrSize[c])
  <2> DEFINE w == IF m[t.line] = <<>> THEN Append(x.out, t) ELSE x.out
  <2>1. y = [mshr |-> k, out |-> w, stalled |-> x.stalled]
    BY <1>2, <1>6 DEF enterMSHR
  <2>2. Entered(k) = Entered(m) \cup {t.line}
    BY <1>2, <1>4, PerLineAppend
  <2> HIDE DEF w, y, m, k
  <2>3. y.mshr = k /\ y.stalled = x.stalled
    BY <2>1
  <2>4. CASE m[t.line] # <<>>
    <3>1. Entered(k) = Entered(m)
      BY <1>4, <2>2, <2>4 DEF Entered
    <3>2. MshrUsed(k) = MshrUsed(m)
      BY <3>1 DEF MshrUsed, Entered
    <3>3. y \in Waiting(c, A)
      BY <1>1, <1>3, <2>3, <3>1, <3>2 DEF Waiting, y
    <3> QED
      BY <3>3 DEF y
  <2>5. CASE m[t.line] = <<>>
    <3>1. x.stalled = <<>>
      BY <1>3, <1>6, <2>5
    <3>2. Len(y.stalled) = 0 /\ y.stalled = <<>>
      BY <2>3, <3>1
    <3>3. y \in Waiting(c, A)
      BY <1>1, <1>3, <2>2, <2>3, <3>2 DEF Waiting, y
    <3> QED
      BY <3>3 DEF y
  <2> QED
    BY <2>4, <2>5
<1> QED
  BY <1>5, <1>6

LEMMA AllWait ==
    ASSUME NEW c \in Caches, NEW A, NEW b \in Waiting(c, A), NEW q \in Seq(SeenBy(c)),
           \A i \in 1 .. Len(q) : q[i].line \in A
    PROVE  EnterEach(c, b, q) \in Waiting(c, A)
<1> DEFINE X == Waiting(c, A)  D == [n \in 0 .. Len(q) |-> X]
<1>1. Len(q) \in Nat /\ DOMAIN q = 1 .. Len(q)
  BY LenProperties
<1>2. b \in X /\ b \in D[0]
  BY <1>1
<1>3. ASSUME NEW x \in X, NEW n \in 1 .. Len(q)
      PROVE  LET y == enterMSHR(c, x, q[n]) IN y \in X /\ (x \in D[n - 1] => y \in D[n])
  <2> DEFINE y == enterMSHR(c, x, q[n])
  <2>1. q[n] \in SeenBy(c) /\ q[n].line \in A
    BY ElementOfSeq
  <2>2. y \in X
    BY <2>1, EnterWaits
  <2>3. n \in 0 .. Len(q)
    BY <1>1
  <2> HIDE DEF y, X
  <2> QED
    BY <2>2, <2>3 DEF y
<1> HIDE DEF X, D
<1>4. LET r == EnterEach(c, b, q) IN r \in X /\ r \in D[Len(q)]
  BY <1>1, <1>2, <1>3, enterMSHRLoop
<1> QED
  BY <1>4 DEF X

\* handleResponses: W are the lines of stalled misses.
Filling(c, W) ==
    {x \in Fills(c) : /\ AllTidy(c, x.sets)
                      /\ LinesOf(c, x.sets) \cap (W \cup Entered(x.mshr)) = {}
                      /\ W \cap Entered(x.mshr) = {}}

LEMMA FillKeepsTidy ==
    ASSUME NEW c \in Caches, NEW W, NEW x \in Filling(c, W), NEW t \in SeenBy(c), Leads(x.mshr, t)
    PROVE  Fill(c, x, t) \in Filling(c, W)
<1> DEFINE m == x.mshr  k == [m EXCEPT ![t.line] = <<>>]  f == x.sets  i == SetOf(c, t.line)
           v == insert(f[i], t.line, t.load, Ways[c])  g == [f EXCEPT ![i] = v]
           y == Fill(c, x, t)
<1>1. y \in Fills(c) /\ y.sets = g /\ y.mshr = k
  BY FillStep DEF Fill, Filling
<1>2. /\ PerLine(SeenBy(c), m) /\ f \in LruSets(c) /\ AllTidy(c, f)
      /\ LinesOf(c, f) \cap (W \cup Entered(m)) = {} /\ W \cap Entered(m) = {}
  BY DEF Filling, Fills, MshrFits
<1>3. /\ t.line \in Lines /\ t.load \in BOOLEAN /\ i \in 0 .. Sets[c] - 1
      /\ \A u \in SeenBy(c) : u.line \in Lines
  BY SeenIs, SetOfIs
<1>4. Entered(k) = Entered(m) \ {t.line}
  BY <1>2, <1>3, PerLineEmptied
<1>5. t.line \in Entered(m)
  BY <1>3 DEF Leads, Entered
<1> HIDE DEF y, m, k
<1>6. t.line \notin LinesIn(f[i])
  BY <1>2, <1>3, <1>5 DEF LinesOf
<1>7. f[i] \in LruSet(Ways[c]) /\ Tidy(f[i]) /\ Ways[c] \in Nat \ {0}
  BY <1>2, <1>3, SizesAre DEF LruSets, AllTidy
<1>8. \A s \in 0 .. Sets[c] - 1 : g[s] = IF s = i THEN v ELSE f[s]
  BY <1>2, <1>3 DEF LruSets
<1>9. Tidy(v) /\ LinesIn(v) \subseteq LinesIn(f[i]) \cup {t.line}
  <2> DEFINE s == f[i]  n == Ways[c]  l == t.line  ld == t.load
  <2>1. /\ s \in LruSet(n) /\ Tidy(s) /\ n \in Nat \ {0} /\ l \notin LinesIn(s)
        /\ l \in Lines /\ ld \in BOOLEAN /\ v = insert(s, l, ld, n)
    BY <1>3, <1>6, <1>7
  <2> HIDE DEF s, n, l, ld, v
  <2>2. Tidy(v) /\ LinesIn(v) \subseteq LinesIn(s) \cup {l}
    BY <2>1, InsertTidy
  <2> QED
    BY <2>2 DEF s, l
<1> HIDE DEF v, g, i, f
<1>10. AllTidy(c, g)
  BY <1>2, <1>8, <1>9 DEF AllTidy
<1>11. LinesOf(c, g) \subseteq LinesOf(c, f) \cup {t.line}
  <2>1. ASSUME NEW l \in Lines, l \in LinesIn(g[SetOf(c, l)]), l # t.line
        PROVE  l \in LinesIn(f[SetOf(c, l)])
    <3>1. SetOf(c, l) \in 0 .. Sets[c] - 1
      BY SetOfIs
    <3>2. CASE SetOf(c, l) = i
      BY <1>8, <1>9, <2>1, <3>1, <3>2
    <3>3. CASE SetOf(c, l) # i
      BY <1>8, <2>1, <3>1, <3>3
    <3> QED
      BY <3>2, <3>3
  <2> QED
    BY <2>1 DEF LinesOf
<1>12. LinesOf(c, g) \cap (W \cup Entered(k)) = {} /\ W \cap Entered(k) = {}
  BY <1>2, <1>4, <1>5, <1>11
<1>13. y \in Filling(c, W)
  BY <1>1, <1>10, <1>12 DEF Filling
<1> QED
  BY <1>13 DEF y

\* sendRequestsL2: a cache has at most the lines L left.
Emptied(c, L) ==
    {x \in Sends : AllTidy(c, x.lru[c]) /\ LinesOf(c, x.lru[c]) \subseteq L}

LEMMA EvictEmpties ==
    ASSUME NEW c \in Caches, NEW L, NEW refused, NEW x \in Emptied(c, L), NEW e \in Victim
    PROVE  EvictDown(refused, x, e) \in Emptied(c, L)
<1> DEFINE y == EvictDown(refused, x, e)  f == x.lru  g == Invalidated(f, e.line)
           i == SetOf(c, e.line)
<1>1. y \in Sends /\ (y.lru = f \/ y.lru = g)
  <2>1. y \in Sends
    BY EvictStep DEF Emptied
  <2>2. y.lru = f \/ y.lru = g
    <3>1. CASE x.wr = 0 \/ e.line \in refused
      <4>1. y = [x EXCEPT !.evicts = Append(@, e)]
        BY <3>1 DEF EvictDown
      <4> QED
        BY <4>1 DEF Emptied, Sends
    <3>2. CASE ~(x.wr = 0 \/ e.line \in refused)
      BY <3>2 DEF EvictDown, Emptied, Sends
    <3> QED
      BY <3>1, <3>2
  <2> QED
    BY <2>1, <2>2
<1>2. AllTidy(c, f[c]) /\ LinesOf(c, f[c]) \subseteq L /\ f[c] \in LruSets(c)
  BY DEF Emptied, Sends, Lrus
<1>3. AllTidy(c, g[c]) /\ LinesOf(c, g[c]) \subseteq L
  <2>1. CASE c = "L2"
    <3>1. g[c] = f[c]
      BY <2>1 DEF Invalidated
    <3> QED
      BY <1>2, <3>1
  <2>2. CASE c # "L2"
    <3> DEFINE h == f[c]  v == invalidate(h[i], e.line)
    <3>1. g[c] = [h EXCEPT ![i] = v]
      BY <2>2 DEF Invalidated
    <3>2. i \in 0 .. Sets[c] - 1
      BY SetOfIs DEF Victim
    <3>3. h[i] \in Seq(Entries) /\ Tidy(h[i])
      BY <1>2, <3>2 DEF LruSets, LruSet, AllTidy
    <3>4. Tidy(v) /\ LinesIn(v) \subseteq LinesIn(h[i])
      BY <3>3, InvalidateTidy
    <3>5. \A s \in 0 .. Sets[c] - 1 : g[c][s] = IF s = i THEN v ELSE h[s]
      BY <1>2, <3>1, <3>2 DEF LruSets
    <3>6. AllTidy(c, h) /\ LinesOf(c, h) \subseteq L
      BY <1>2
    <3> HIDE DEF h, v, g, i
    <3>7. AllTidy(c, g[c])
      BY <3>4, <3>5, <3>6 DEF AllTidy
    <3>8. LinesOf(c, g[c]) \subseteq LinesOf(c, h)
      <4>1. ASSUME NEW l \in Lines PROVE LinesIn(g[c][SetOf(c, l)]) \subseteq LinesIn(h[SetOf(c, l)])
        <5>1. SetOf(c, l) \in 0 .. Sets[c] - 1
          BY SetOfIs
        <5> QED
          BY <3>4, <3>5, <5>1
      <4> QED
        BY <4>1 DEF LinesOf
    <3> QED
      BY <3>6, <3>7, <3>8
  <2> QED
    BY <2>1, <2>2
<1> HIDE DEF y, g, f
<1>4. AllTidy(c, y.lru[c]) /\ LinesOf(c, y.lru[c]) \subseteq L
  BY <1>1, <1>2, <1>3
<1>5. y \in Emptied(c, L)
  BY <1>1, <1>4 DEF Emptied
<1> QED
  BY <1>5 DEF y

LEMMA AllEmpty ==
    ASSUME NEW c \in Caches, NEW L, NEW refused, NEW b \in Emptied(c, L), NEW q \in Seq(Victim)
    PROVE  EvictEach(refused, b, q) \in Emptied(c, L)
<1> DEFINE X == Emptied(c, L)  D == [n \in 0 .. Len(q) |-> X]
<1>1. Len(q) \in Nat /\ DOMAIN q = 1 .. Len(q)
  BY LenProperties
<1>2. b \in X /\ b \in D[0]
  BY <1>1
<1>3. ASSUME NEW x \in X, NEW n \in 1 .. Len(q)
      PROVE  LET y == EvictDown(refused, x, q[n]) IN y \in X /\ (x \in D[n - 1] => y \in D[n])
  <2> DEFINE y == EvictDown(refused, x, q[n])
  <2>1. q[n] \in Victim
    BY ElementOfSeq
  <2>2. y \in X
    BY <2>1, EvictEmpties
  <2>3. n \in 0 .. Len(q)
    BY <1>1
  <2> HIDE DEF y, X
  <2> QED
    BY <2>2, <2>3 DEF y
<1> HIDE DEF X, D
<1>4. LET r == EvictEach(refused, b, q) IN r \in X /\ r \in D[Len(q)]
  BY <1>1, <1>2, <1>3, EvictDownLoop
<1> QED
  BY <1>4 DEF X

-----------------------------------------------------------------------------
(* The steps again.                                                        *)

\* A cache that at most loses lines, and is not about to look at its pipeline.
LEMMA OneCopyKept ==
    ASSUME NEW c \in Caches, OneCopy(c),
           mshr'[c] = mshr[c], stalled'[c] = stalled[c], pq'[c] = pq[c],
           AllTidy(c, lru'[c]), LinesOf(c, lru'[c]) \subseteq LinesOf(c, lru[c]),
           pc' = pc \/ (pq[c] = <<>> /\ pc' # <<c, "pq">>)
    PROVE  OneCopy(c)'
<1>1. AllTidy(c, lru[c])'
  BY DEF AllTidy, Tidy
<1>2. Entered(mshr[c])' = Entered(mshr[c]) /\ MshrUsed(mshr[c])' = MshrUsed(mshr[c])
  BY DEF Entered, MshrUsed
<1>3. LinesOf(c, lru[c])' \subseteq LinesOf(c, lru[c])
  BY DEF LinesOf, LinesIn, SetOf
<1>4. (Entered(mshr[c]) \cap LinesOf(c, lru[c]))' = {}
  BY <1>2, <1>3 DEF OneCopy
<1>5. \A i \in 1 .. Len(stalled'[c]) :
         stalled'[c][i].line \notin LinesOf(c, lru[c])' \cup Entered(mshr[c])'
  BY <1>2, <1>3 DEF OneCopy
<1>6. \A i \in 1 .. Len(pq'[c]) :
         pq'[c][i].due = 0 /\ (~pq'[c][i].hit => pq'[c][i].t.line \notin LinesOf(c, lru[c])')
  BY <1>3 DEF OneCopy
<1>7. pq'[c] # <<>> => pc' \in {<<c, "stalled">>, <<c, "pq">>}
  BY DEF OneCopy
<1>8. pc' = <<c, "pq">> /\ stalled'[c] # <<>> => MshrUsed(mshr[c])' >= MshrSize[c]
  BY <1>2 DEF OneCopy
<1> QED
  BY <1>1, <1>4, <1>5, <1>6, <1>7, <1>8 DEF OneCopy

\* What OneCopy says of a state in other words.
LEMMA OneCopyNext ==
    ASSUME NEW c \in Caches,
           AllTidy(c, lru'[c]),
           Entered(mshr'[c]) \cap LinesOf(c, lru'[c]) = {},
           \A i \in 1 .. Len(stalled'[c]) :
              stalled'[c][i].line \notin LinesOf(c, lru'[c]) \cup Entered(mshr'[c]),
           \A i \in 1 .. Len(pq'[c]) :
              pq'[c][i].due = 0 /\ (~pq'[c][i].hit => pq'[c][i].t.line \notin LinesOf(c, lru'[c])),
           pq'[c] # <<>> => pc' \in {<<c, "stalled">>, <<c, "pq">>},
           pc' = <<c, "pq">> /\ stalled'[c] # <<>> => MshrUsed(mshr'[c]) >= MshrSize[c]
    PROVE  OneCopy(c)'
<1>1. AllTidy(c, lru[c])'
  BY DEF AllTidy, Tidy
<1>2. Entered(mshr[c])' = Entered(mshr'[c]) /\ MshrUsed(mshr[c])' = MshrUsed(mshr'[c])
  BY DEF Entered, MshrUsed
<1>3. LinesOf(c, lru[c])' = LinesOf(c, lru'[c])
  BY DEF LinesOf, LinesIn, SetOf
<1> QED
  BY <1>1, <1>2, <1>3 DEF OneCopy

LEMMA RequestsDecided ==
    ASSUME CInv, NEW c \in Caches, Latency[c] = 1, OneCopy(c), handleRequests(c)
    PROVE  OneCopy(c)'
<1> DEFINE b == [sets |-> lru[c], pq |-> pq[c]]  s == ArriveEach(c, b, inReq[c])
           L == LinesOf(c, lru[c])
<1>1. CacheType(c) /\ PerCache
  BY DEF CInv, CType
<1>2. /\ lru' = [lru EXCEPT ![c] = s.sets] /\ pq' = [pq EXCEPT ![c] = s.pq]
      /\ mshr' = mshr /\ stalled' = stalled /\ pc' = <<c, "stalled">> /\ pc = <<c, "requests">>
  BY DEF handleRequests
<1>3. lru \in Lrus /\ lru[c] \in LruSets(c) /\ DOMAIN lru = Caches /\ DOMAIN pq = Caches
  BY <1>1 DEF PerCache, Lrus
<1>4. pq[c] = <<>>
  BY <1>2 DEF OneCopy
<1>5. b \in Arrivals(c) /\ inReq[c] \in Seq(Down(c))
  BY <1>1, <1>3 DEF CacheType, Arrivals
<1>6. AllTidy(c, b.sets) /\ LinesOf(c, b.sets) = L /\ Len(b.pq) = 0
  BY <1>4 DEF OneCopy
<1> HIDE DEF b, L
<1>7. b \in Decided(c, L)
  BY <1>5, <1>6 DEF Decided
<1>8. s \in Decided(c, L)
  BY <1>5, <1>7, AllDecided
<1> HIDE DEF s
<1>9. lru'[c] = s.sets /\ pq'[c] = s.pq
  BY <1>2, <1>3
<1>10. AllTidy(c, lru'[c]) /\ LinesOf(c, lru'[c]) = L
  BY <1>8, <1>9 DEF Decided
<1>11. \A i \in 1 .. Len(pq'[c]) :
          pq'[c][i].due = 0 /\ (~pq'[c][i].hit => pq'[c][i].t.line \notin L)
  BY <1>8, <1>9 DEF Decided
<1>12. Entered(mshr[c]) \cap L = {} /\ \A i \in 1 .. Len(stalled[c]) :
          stalled[c][i].line \notin L \cup Entered(mshr[c])
  BY DEF OneCopy, L
<1>13. pc' \in {<<c, "stalled">>, <<c, "pq">>} /\ pc' # <<c, "pq">>
  BY <1>2
<1> QED
  BY <1>2, <1>10, <1>11, <1>12, <1>13, OneCopyNext

\* A stalled miss is on a line the cache does not have, and enters or stalls again.
LEMMA StalledOnce ==
    ASSUME CInv, NEW c \in Caches, Latency[c] = 1, OneCopy(c), retryStalled(c)
    PROVE  OneCopy(c)'
<1> DEFINE b == MissState(c, <<>>)  s == EnterEach(c, b, stalled[c])
           L == LinesOf(c, lru[c])  A == Lines \ L
<1>1. CacheType(c) /\ PerCache
  BY DEF CInv, CType
<1>2. /\ mshr' = [mshr EXCEPT ![c] = s.mshr] /\ stalled' = [stalled EXCEPT ![c] = s.stalled]
      /\ pq' = pq /\ lru' = lru /\ pc' = <<c, "pq">> /\ pc = <<c, "stalled">>
  BY DEF retryStalled, EnterAll
<1>3. stalled[c] \in Seq(SeenBy(c)) /\ MshrFits(c, mshr[c]) /\ outReq[c] \in Seq(Down(c))
  BY <1>1 DEF CacheType
<1>4. b = [mshr |-> mshr[c], out |-> outReq[c], stalled |-> <<>>]
  BY DEF MissState
<1>5. b \in Misses(c)
  <2>1. <<>> \in Seq(SeenBy(c)) /\ mshr[c] \in [Lines -> Seq(SeenBy(c))]
    BY <1>3 DEF MshrFits, PerLine
  <2> HIDE DEF b
  <2> QED
    BY <1>3, <1>4, <2>1 DEF Misses
<1> HIDE DEF b
<1>6. Entered(mshr[c]) \subseteq A
  BY DEF OneCopy, Entered
<1>7. b \in Waiting(c, A)
  <2>1. b.mshr = mshr[c] /\ b.stalled = <<>> /\ Len(b.stalled) = 0
    BY <1>4
  <2> HIDE DEF A
  <2> QED
    BY <1>5, <1>6, <2>1 DEF Waiting
<1>8. \A i \in 1 .. Len(stalled[c]) : stalled[c][i].line \in A
  <2>1. ASSUME NEW i \in 1 .. Len(stalled[c]) PROVE stalled[c][i].line \in Lines
    BY <1>3, ElementOfSeq, SeenIs
  <2> QED
    BY <2>1 DEF OneCopy
<1> HIDE DEF A
<1>9. s \in Waiting(c, A)
  BY <1>3, <1>7, <1>8, AllWait
<1> HIDE DEF s
<1>10. mshr'[c] = s.mshr /\ stalled'[c] = s.stalled
  BY <1>1, <1>2 DEF PerCache
<1>11. /\ Entered(mshr'[c]) \subseteq A
       /\ \A i \in 1 .. Len(stalled'[c]) : stalled'[c][i].line \in A \ Entered(mshr'[c])
       /\ stalled'[c] # <<>> => MshrUsed(mshr'[c]) >= MshrSize[c]
  BY <1>9, <1>10 DEF Waiting
<1>12. AllTidy(c, lru'[c]) /\ LinesOf(c, lru'[c]) = L
  BY <1>2 DEF OneCopy
<1>13. Entered(mshr'[c]) \cap L = {}
  BY <1>11 DEF A
<1>14. \A i \in 1 .. Len(stalled'[c]) : stalled'[c][i].line \notin L \cup Entered(mshr'[c])
  BY <1>11 DEF A
<1>15. \A i \in 1 .. Len(pq'[c]) :
          pq'[c][i].due = 0 /\ (~pq'[c][i].hit => pq'[c][i].t.line \notin L)
  BY <1>2 DEF OneCopy
<1>16. pc' \in {<<c, "stalled">>, <<c, "pq">>}
  BY <1>2
<1> HIDE DEF L
<1> QED
  BY <1>11, <1>12, <1>13, <1>14, <1>15, <1>16, OneCopyNext

\* A miss leaves the pipeline in the cycle in which it came: the line is still missing.
LEMMA PqOnce ==
    ASSUME CInv, NEW c \in Caches, Latency[c] = 1, OneCopy(c), processPq(c)
    PROVE  OneCopy(c)'
<1> DEFINE b == MissState(c, stalled[c])  L == LinesOf(c, lru[c])  A == Lines \ L
           w == pq[c]
<1>1. CacheType(c) /\ PerCache
  BY DEF CInv, CType
<1>2. PICK i \in Due(c) :
         /\ pc = <<c, "pq">> /\ pq' = [pq EXCEPT ![c] = RemoveAt(@, i)]
         /\ IF ~w[i].hit /\ w[i].t.port # "evict"
            THEN EnterAll(c, enterMSHR(c, b, w[i].t))
            ELSE UNCHANGED <<mshr, outReq, stalled>>
         /\ pc' = pc /\ lru' = lru
  BY DEF processPq
<1> DEFINE t == w[i].t  s == enterMSHR(c, b, t)
<1>3. /\ stalled[c] \in Seq(SeenBy(c)) /\ MshrFits(c, mshr[c]) /\ outReq[c] \in Seq(Down(c))
      /\ w \in Seq(Piping(c))
  BY <1>1 DEF CacheType
<1>4. i \in 1 .. Len(w)
  BY DEF Due
<1>5. w[i] \in Piping(c)
  BY <1>3, <1>4, ElementOfSeq
<1>6. b = [mshr |-> mshr[c], out |-> outReq[c], stalled |-> stalled[c]]
  BY DEF MissState
<1>7. b \in Misses(c) /\ b.mshr = mshr[c] /\ b.stalled = stalled[c]
  <2>1. mshr[c] \in [Lines -> Seq(SeenBy(c))]
    BY <1>3 DEF MshrFits, PerLine
  <2> HIDE DEF b
  <2> QED
    BY <1>3, <1>6, <2>1 DEF Misses
<1> HIDE DEF b
<1>8. Entered(mshr[c]) \subseteq A
  BY DEF OneCopy, Entered
<1>9. \A k \in 1 .. Len(stalled[c]) : stalled[c][k].line \in A \ Entered(mshr[c])
  <2>1. ASSUME NEW k \in 1 .. Len(stalled[c]) PROVE stalled[c][k].line \in Lines
    BY <1>3, ElementOfSeq, SeenIs
  <2> QED
    BY <2>1 DEF OneCopy
<1>10. stalled[c] # <<>> => MshrUsed(mshr[c]) >= MshrSize[c]
  BY <1>2 DEF OneCopy
<1>11. \A k \in 1 .. Len(w) : w[k].due = 0 /\ (~w[k].hit => w[k].t.line \notin L)
  BY DEF OneCopy
<1>12. AllTidy(c, lru'[c]) /\ LinesOf(c, lru'[c]) = L
  BY <1>2 DEF OneCopy
<1> HIDE DEF L
<1>13. /\ Entered(mshr'[c]) \subseteq A
       /\ \A k \in 1 .. Len(stalled'[c]) : stalled'[c][k].line \in A \ Entered(mshr'[c])
       /\ stalled'[c] # <<>> => MshrUsed(mshr'[c]) >= MshrSize[c]
  <2>1. CASE ~w[i].hit /\ w[i].t.port # "evict"
    <3>1. t \in SeenBy(c) /\ t.line \in A
      <4>1. t \in Down(c)
        BY <1>5 DEF Piping
      <4>2. t \in SeenBy(c) /\ t.line \in Lines
        BY <2>1, <4>1, DownIs
      <4> QED
        BY <1>4, <1>11, <2>1, <4>2
    <3> HIDE DEF A
    <3>2. b \in Waiting(c, A)
      BY <1>7, <1>8, <1>9, <1>10 DEF Waiting
    <3> HIDE DEF t
    <3>3. s \in Waiting(c, A)
      BY <3>1, <3>2, EnterWaits
    <3>4. mshr' = [mshr EXCEPT ![c] = s.mshr] /\ stalled' = [stalled EXCEPT ![c] = s.stalled]
      BY <1>2, <2>1 DEF EnterAll, t
    <3> HIDE DEF s
    <3>5. mshr'[c] = s.mshr /\ stalled'[c] = s.stalled
      BY <1>1, <3>4 DEF PerCache
    <3> QED
      BY <3>3, <3>5 DEF Waiting
  <2>2. CASE ~(~w[i].hit /\ w[i].t.port # "evict")
    <3>1. mshr' = mshr /\ stalled' = stalled
      BY <1>2, <2>2
    <3> HIDE DEF A
    <3> QED
      BY <1>8, <1>9, <1>10, <3>1
  <2> QED
    BY <2>1, <2>2
<1>14. ASSUME NEW k \in 1 .. Len(pq'[c])
       PROVE  pq'[c][k].due = 0 /\ (~pq'[c][k].hit => pq'[c][k].t.line \notin L)
  <2>1. pq'[c] = RemoveAt(w, i)
    BY <1>1, <1>2 DEF PerCache
  <2>2. Len(pq'[c]) = Len(w) - 1 /\ Len(w) \in Nat
        /\ \A j \in 1 .. Len(w) - 1 : pq'[c][j] = IF j < i THEN w[j] ELSE w[j + 1]
    BY <1>3, <1>4, <2>1, RemoveIs, LenProperties
  <2>3. k \in 1 .. Len(w) /\ k + 1 \in 1 .. Len(w)
    BY <2>2
  <2>4. pq'[c][k] = w[k] \/ pq'[c][k] = w[k + 1]
    BY <2>2
  <2> HIDE DEF w
  <2> QED
    BY <1>11, <2>3, <2>4
<1>15. /\ Entered(mshr'[c]) \cap L = {}
       /\ \A k \in 1 .. Len(stalled'[c]) : stalled'[c][k].line \notin L \cup Entered(mshr'[c])
  BY <1>13
<1>16. pc' \in {<<c, "stalled">>, <<c, "pq">>}
  BY <1>2
<1> QED
  BY <1>12, <1>13, <1>14, <1>15, <1>16, OneCopyNext

\* A line that comes was being fetched, so the cache does not have it.
LEMMA ResponsesOnce ==
    ASSUME CInv, NEW c \in Caches, Latency[c] = 1, OneCopy(c), handleResponses(c)
    PROVE  OneCopy(c)'
<1> DEFINE b == [sets |-> lru[c], evicts |-> evicts[c], out |-> outResp[c], mshr |-> mshr[c]]
           s == FillEach(c, b, inResp[c])  q == inResp[c]
           W == {l \in Lines : \E k \in 1 .. Len(stalled[c]) : stalled[c][k].line = l}
           G == Filling(c, W)
<1>1. CacheType(c) /\ PerCache
  BY DEF CInv, CType
<1>2. /\ lru' = [lru EXCEPT ![c] = s.sets] /\ mshr' = [mshr EXCEPT ![c] = s.mshr]
      /\ stalled' = stalled /\ pq' = pq /\ pc' = <<c, "respond">> /\ Due(c) = {}
  BY DEF handleResponses
<1>3. pq[c] = <<>>
  <2>1. pq[c] \in Seq(Piping(c)) /\ Len(pq[c]) \in Nat
    BY <1>1, LenProperties DEF CacheType
  <2>2. \A i \in 1 .. Len(pq[c]) : i \in Due(c)
    BY DEF OneCopy, Due
  <2>3. Len(pq[c]) = 0
    BY <1>2, <2>1, <2>2
  <2> QED
    BY <2>1, <2>3, EmptySeq
<1>4. b \in Fills(c) /\ q \in Seq(SeenBy(c))
  BY <1>1 DEF CacheType, PerCache, Lrus, Fills, MshrFits, PerLine
<1>5. b.mshr = mshr[c] /\ b.sets = lru[c]
  OBVIOUS
<1> HIDE DEF b
<1>6. W \cap (LinesOf(c, lru[c]) \cup Entered(mshr[c])) = {}
  BY DEF OneCopy
<1>7. AllTidy(c, lru[c]) /\ Entered(mshr[c]) \cap LinesOf(c, lru[c]) = {}
  BY DEF OneCopy
<1>w. \A l \in Lines : l \in W <=> \E k \in 1 .. Len(stalled[c]) : stalled[c][k].line = l
  OBVIOUS
<1> HIDE DEF W
<1>8. b \in G
  BY <1>4, <1>5, <1>6, <1>7 DEF Filling
<1>9. \A x \in Fills(c), t \in SeenBy(c) : x \in G /\ Leads(x.mshr, t) => Fill(c, x, t) \in G
  BY FillKeepsTidy
<1>10. \A u \in SeenBy(c) : Times(u, q) <= Lead(b.mshr, u)
  BY <1>5, RepliesLead
<1> HIDE DEF G, q
<1>11. s \in G
  BY <1>4, <1>8, <1>9, <1>10, AllFill DEF q
<1> HIDE DEF s
<1>12. lru'[c] = s.sets /\ mshr'[c] = s.mshr
  BY <1>1, <1>2 DEF PerCache, Lrus
<1>13. /\ AllTidy(c, lru'[c]) /\ LinesOf(c, lru'[c]) \cap (W \cup Entered(mshr'[c])) = {}
       /\ W \cap Entered(mshr'[c]) = {}
  BY <1>11, <1>12 DEF G, Filling
<1>14. ASSUME NEW k \in 1 .. Len(stalled'[c])
       PROVE  stalled'[c][k].line \notin LinesOf(c, lru'[c]) \cup Entered(mshr'[c])
  <2>1. stalled[c] \in Seq(SeenBy(c)) /\ k \in 1 .. Len(stalled[c]) /\ stalled'[c] = stalled[c]
    BY <1>1, <1>2 DEF CacheType
  <2>2. stalled[c][k].line \in Lines
    BY <2>1, ElementOfSeq, SeenIs
  <2>3. stalled[c][k].line \in W
    BY <1>w, <2>1, <2>2
  <2> QED
    BY <1>13, <2>1, <2>3
<1>15. Len(pq'[c]) = 0 /\ pq'[c] = <<>>
  BY <1>2, <1>3
<1>16. pc' # <<c, "pq">>
  BY <1>2
<1>17. \A i \in 1 .. Len(pq'[c]) :
          pq'[c][i].due = 0 /\ (~pq'[c][i].hit => pq'[c][i].t.line \notin LinesOf(c, lru'[c]))
  BY <1>15
<1>18. Entered(mshr'[c]) \cap LinesOf(c, lru'[c]) = {}
  BY <1>13
<1> QED
  BY <1>13, <1>14, <1>15, <1>16, <1>17, <1>18, OneCopyNext

\* The stages of another cache.
LEMMA OthersOnce ==
    ASSUME CInv, NEW c \in Caches, OneCopy(c), NEW d \in Caches, d # c, CacheProcess(d)
    PROVE  OneCopy(c)'
<1>1. PerCache /\ DOMAIN lru = Caches
  BY DEF CInv, CType, PerCache, Lrus
<1>2. pc[1] = d
  BY DEF CacheProcess, handleRequests, retryStalled, processPq, handleResponses
<1>3. pq[c] = <<>>
  BY <1>2 DEF OneCopy
<1>4. lru'[c] = lru[c]
  BY <1>1 DEF CacheProcess, handleRequests, retryStalled, processPq, handleResponses
<1>5. mshr'[c] = mshr[c] /\ stalled'[c] = stalled[c]
  <2>1. CASE handleRequests(d)
    BY <2>1 DEF handleRequests
  <2>2. CASE retryStalled(d)
    BY <1>1, <2>2 DEF retryStalled, EnterAll, PerCache
  <2>3. CASE processPq(d)
    BY <1>1, <2>3 DEF processPq, EnterAll, PerCache
  <2>4. CASE handleResponses(d)
    BY <1>1, <2>4 DEF handleResponses, PerCache
  <2> QED
    BY <2>1, <2>2, <2>3, <2>4 DEF CacheProcess
<1>6. pq'[c] = pq[c]
  BY <1>1 DEF CacheProcess, handleRequests, retryStalled, processPq, handleResponses, PerCache
<1>7. pc' # <<c, "pq">>
  BY <1>2 DEF CacheProcess, handleRequests, retryStalled, processPq, handleResponses
<1>8. AllTidy(c, lru'[c]) /\ LinesOf(c, lru'[c]) \subseteq LinesOf(c, lru[c])
  BY <1>4 DEF OneCopy
<1> QED
  BY <1>3, <1>5, <1>6, <1>7, <1>8, OneCopyKept

\* Time passes for nothing in an empty pipeline.
LEMMA AgedEmpty ==
    ASSUME NEW c \in Caches, NEW q \in Seq(Piping(c)), Piped(q) = <<>>
    PROVE  q = <<>> /\ Aged(q) = <<>>
<1>1. Aged(q) \in Seq(Piping(c)) /\ Piped(Aged(q)) = Piped(q)
  BY PipedAged
<1>2. Len(Piped(q)) = Len(q) /\ Len(Piped(Aged(q))) = Len(Aged(q))
  BY <1>1, PipedIs
<1>3. Len(q) = 0 /\ Len(Aged(q)) = 0
  BY <1>1, <1>2
<1> QED
  BY <1>1, <1>3, EmptySeq

LEMMA PipedEmpty == Piped(<<>>) = <<>>
  BY DEF Piped

\* An L1 that has sent its requests.
LEMMA L1SendsOnce ==
    ASSUME CInv, NEW c \in Caches, OneCopy(c), NEW d \in L1s, sendRequestsL1(d)
    PROVE  OneCopy(c)'
<1>1. PerCache /\ pq[c] \in Seq(Piping(c)) /\ d \in Caches
  BY DEF CInv, CType, CacheType, L1s, Caches
<1>2. /\ pq' = [pq EXCEPT ![d] = Aged(@)] /\ mshr' = mshr /\ stalled' = stalled /\ lru' = lru
      /\ pc = <<d, "send">> /\ pc' = After(d)
  BY DEF sendRequestsL1
<1>3. pq[c] = <<>>
  BY <1>2 DEF OneCopy
<1>4. pq'[c] = pq[c]
  <2>1. CASE c = d
    <3>1. pq'[c] = Aged(pq[c])
      BY <1>1, <1>2, <2>1 DEF PerCache
    <3> QED
      BY <1>1, <1>3, <3>1, AgedEmpty, PipedEmpty
  <2>2. CASE c # d
    BY <1>1, <1>2, <2>2 DEF PerCache
  <2> QED
    BY <2>1, <2>2
<1>5. pc' # <<c, "pq">>
  BY <1>2 DEF After, L1s
<1>6. AllTidy(c, lru'[c]) /\ LinesOf(c, lru'[c]) \subseteq LinesOf(c, lru[c])
  BY <1>2 DEF OneCopy
<1> QED
  BY <1>2, <1>3, <1>4, <1>5, <1>6, OneCopyKept

\* L2 sends, and its evictions only take lines from the L1s.
LEMMA L2SendsOnce ==
    ASSUME CInv, NEW c \in Caches, OneCopy(c), sendRequestsL2
    PROVE  OneCopy(c)'
<1> DEFINE b == [rd |-> freeRd, wr |-> freeWr, reads |-> dramReads, writes |-> dramWrites,
                 keep |-> <<>>, evicts |-> <<>>, lru |-> lru, pq |-> pq["L2"]]
           q == outReq["L2"]  v == evicts["L2"]  L == LinesOf(c, lru[c])
           e(refused) == EvictEach(refused, SendEach(refused, b, q), v)
<1>1. CType /\ PerCache /\ DramType /\ CacheType("L2") /\ "L2" \in Caches /\ CacheType(c)
  BY L2SeesAll DEF CInv, CType
<1>2. b \in Sends /\ b.lru = lru /\ b.pq = pq["L2"]
  <2>1. <<>> \in Seq(Down("L2")) /\ <<>> \in Seq(Victim)
    OBVIOUS
  <2>2. pq["L2"] \in Seq(Piping("L2")) /\ lru \in Lrus
    BY <1>1 DEF CacheType, PerCache
  <2>3. /\ PerLine(Made, dramReads) /\ dramReads \in [Lines -> Seq(Made)]
        /\ dramWrites \in [Lines -> Nat] /\ freeRd \in Int /\ freeWr \in 0 .. WritePorts
    BY <1>1 DEF DramType, PerLine
  <2> QED
    BY <2>1, <2>2, <2>3 DEF Sends
<1>3. q \in Seq(Down("L2")) /\ v \in Seq(Victim)
  BY <1>1 DEF CacheType
<1>4. PICK refused \in (IF MayRefuse THEN SUBSET Lines ELSE {{}}) :
         lru' = e(refused).lru /\ pq' = [pq EXCEPT !["L2"] = Aged(e(refused).pq)]
  BY DEF sendRequestsL2
<1>5. mshr' = mshr /\ stalled' = stalled /\ pc = <<"L2", "send">> /\ pc' = <<"DRAM", "update">>
  BY DEF sendRequestsL2, After
<1> DEFINE s1 == SendEach(refused, b, q)  s == EvictEach(refused, s1, v)
<1>6. lru' = s.lru /\ pq' = [pq EXCEPT !["L2"] = Aged(s.pq)]
  BY <1>4
<1> HIDE DEF b, q, v, e, L
<1>7. s1 \in Sends /\ s1.lru = lru /\ s1.pq = pq["L2"]
  <2>1. b \in Sends
    BY <1>2
  <2>2. q \in Seq(Down("L2"))
    BY <1>3
  <2> HIDE DEF s, s1
  <2>3. LET r == SendEach(refused, b, q) IN r \in Sends /\ r.lru = b.lru /\ r.pq = b.pq
    BY <2>1, <2>2, AllSent
  <2>4. s1 = SendEach(refused, b, q)
    BY DEF s1
  <2>5. s1 \in Sends /\ s1.lru = b.lru /\ s1.pq = b.pq
    BY <2>3, <2>4
  <2> QED
    BY <1>2, <2>5
<1> HIDE DEF s1
<1>8. s \in Sends /\ Piped(s.pq) = Piped(pq["L2"])
  BY <1>3, <1>7, AllEvicted
<1>9. s1 \in Emptied(c, L)
  BY <1>7 DEF Emptied, OneCopy, L
<1>10. s \in Emptied(c, L)
  BY <1>3, <1>9, AllEmpty
<1> HIDE DEF s
<1>11. AllTidy(c, lru'[c]) /\ LinesOf(c, lru'[c]) \subseteq L
  BY <1>6, <1>10 DEF Emptied
<1>12. pq[c] = <<>>
  BY <1>5 DEF OneCopy
<1>13. pq'[c] = pq[c]
  <2>1. CASE c = "L2"
    <3>1. s.pq \in Seq(Piping("L2")) /\ Piped(s.pq) = <<>>
      BY <1>8, <1>12, <2>1, PipedEmpty DEF Sends
    <3>2. Aged(s.pq) = <<>>
      BY <1>1, <3>1, AgedEmpty
    <3> QED
      BY <1>1, <1>6, <1>12, <2>1, <3>2 DEF PerCache
  <2>2. CASE c # "L2"
    BY <1>1, <1>6, <2>2 DEF PerCache
  <2> QED
    BY <2>1, <2>2
<1>14. pc' # <<c, "pq">>
  BY <1>1, <1>5 DEF Caches, L1s
<1> QED
  BY <1>5, <1>11, <1>12, <1>13, <1>14, OneCopyKept DEF L

\* Steps that touch none of it.
LEMMA RestOnce ==
    ASSUME CInv, NEW c \in Caches, OneCopy(c),
           \/ \E r \in Requests : submit(r)
           \/ run \/ process \/ UNCHANGED vars \/ sendResponsesL2
           \/ \E d \in L1s : sendResponsesL1(d)
           \/ \E l \in Lines : read_complete(l) \/ write_complete(l)
    PROVE  OneCopy(c)'
<1>1. mshr' = mshr /\ stalled' = stalled /\ pq' = pq /\ lru' = lru
  BY DEF submit, run, process, vars, sendResponsesL1, sendResponsesL2, read_complete, write_complete
<1>2. pc' = pc \/ (pq[c] = <<>> /\ pc' # <<c, "pq">>)
  <2>1. CASE (\E r \in Requests : submit(r)) \/ UNCHANGED vars
             \/ \E l \in Lines : read_complete(l) \/ write_complete(l)
    BY <2>1 DEF submit, vars, read_complete, write_complete
  <2>2. CASE run \/ process
    <3>1. pc \in {<<"CPU", "submit">>, <<"DRAM", "update">>} /\ pc' \in {<<"L1I", "requests">>, <<"CPU", "submit">>}
      BY <2>2 DEF run, process
    <3>2. pq[c] = <<>>
      BY <3>1 DEF OneCopy
    <3> QED
      BY <3>1, <3>2
  <2>3. CASE sendResponsesL2 \/ \E d \in L1s : sendResponsesL1(d)
    <3>1. PICK d \in Caches : pc = <<d, "respond">> /\ pc' = <<d, "send">>
      BY <2>3 DEF sendResponsesL2, sendResponsesL1, Caches
    <3>2. pq[c] = <<>>
      BY <3>1 DEF OneCopy
    <3> QED
      BY <3>1, <3>2
  <2> QED
    BY <2>1, <2>2, <2>3
<1>3. AllTidy(c, lru'[c]) /\ LinesOf(c, lru'[c]) \subseteq LinesOf(c, lru[c])
  BY <1>1 DEF OneCopy
<1> QED
  BY <1>1, <1>2, <1>3, OneCopyKept

LEMMA OnceHolds ==
    ASSUME CInv, [Next]_vars, NEW c \in Caches, Latency[c] = 1, OneCopy(c)
    PROVE  OneCopy(c)'
<1>1. ASSUME NEW d \in Caches, CacheProcess(d)
      PROVE  OneCopy(c)'
  <2>1. CASE d = c
    BY <1>1, <2>1, RequestsDecided, StalledOnce, PqOnce, ResponsesOnce DEF CacheProcess
  <2>2. CASE d # c
    BY <1>1, <2>2, OthersOnce
  <2> QED
    BY <2>1, <2>2
<1>2. ASSUME NEW d \in L1s, sendResponsesL1(d) \/ sendRequestsL1(d)
      PROVE  OneCopy(c)'
  BY <1>2, L1SendsOnce, RestOnce
<1>3. CASE sendResponsesL2 \/ sendRequestsL2
  BY <1>3, L2SendsOnce, RestOnce
<1>4. CASE \/ \E r \in Requests : submit(r)
           \/ run \/ process \/ UNCHANGED vars
           \/ \E l \in Lines : read_complete(l) \/ write_complete(l)
  BY <1>4, RestOnce
<1> QED
  BY <1>1, <1>2, <1>3, <1>4 DEF Next

LEMMA InitOnce ==
    ASSUME Init, NEW c \in Caches
    PROVE  OneCopy(c)
<1>1. /\ stalled[c] = <<>> /\ pq[c] = <<>> /\ mshr[c] = [l \in Lines |-> <<>>]
      /\ lru[c] = [s \in 0 .. Sets[c] - 1 |-> <<>>] /\ pc = <<"CPU", "submit">>
  BY DEF Init
<1>2. Entered(mshr[c]) = {}
  BY <1>1 DEF Entered
<1>3. AllTidy(c, lru[c])
  BY <1>1 DEF AllTidy, Tidy
<1> QED
  BY <1>1, <1>2, <1>3 DEF OneCopy

\* The property: there is at most one entry that has the line, it is mapped, and there is
\* none while the line is fetched.
LEMMA OnceIs ==
    ASSUME CInv, NEW c \in Caches, OneCopy(c), NEW l \in Lines
    PROVE  LET set == lru[c][SetOf(c, l)]
               copies == {i \in 1 .. Len(set) : set[i].line = l}
           IN  /\ Cardinality(copies) <= 1
               /\ \A i \in copies : set[i].mapped
               /\ mshr[c][l] # <<>> => copies = {}
<1> DEFINE set == lru[c][SetOf(c, l)]  copies == {i \in 1 .. Len(set) : set[i].line = l}
<1>1. Tidy(set)
  BY SetOfIs DEF OneCopy, AllTidy
<1>2. \A i \in copies : set[i].mapped
  BY <1>1 DEF Tidy
<1>3. \A i, j \in copies : i = j
  BY <1>1 DEF Tidy
<1>4. mshr[c][l] # <<>> => copies = {}
  <2>1. SUFFICES ASSUME mshr[c][l] # <<>> PROVE copies = {}
    OBVIOUS
  <2>2. l \in Entered(mshr[c])
    BY <2>1 DEF Entered
  <2>3. l \notin LinesOf(c, lru[c])
    BY <2>2 DEF OneCopy
  <2>4. l \notin LinesIn(set)
    BY <2>3 DEF LinesOf
  <2> QED
    BY <2>4 DEF LinesIn
<1> HIDE DEF copies
<1>5. Cardinality(copies) <= 1
  <2>1. CASE copies = {}
    BY <2>1, FS_EmptySet
  <2>2. CASE copies # {}
    <3>1. PICK i : i \in copies
      BY <2>2
    <3>2. copies = {i}
      BY <1>3, <3>1
    <3> QED
      BY <3>2, FS_Singleton
  <2> QED
    BY <2>1, <2>2
<1> QED
  BY <1>2, <1>4, <1>5 DEF copies

\* With latency 1 in all caches, or without: what RequestsKept says.
LEMMA InvariantIs ==
    ASSUME CInvOne
    PROVE  RequestsKept
<1>1. CInv /\ TypeOK /\ AnsweredExactlyOnce /\ OneFillPerEntry
  BY LimitsKept DEF CInvOne, CInv
<1>2. ASSUME \A c \in Caches : Latency[c] = 1 PROVE OneCopyPerCache
  BY <1>1, <1>2, OnceIs DEF CInvOne, OneCopyPerCache
<1> QED
  BY <1>1, <1>2 DEF RequestsKept

\* For every number and shape of requests, sets, ways, MSHR entries, ports and latencies:
\* an accepted request is held once by its cache until it is answered, every MSHR entry
\* has one fill under way (so every response finds its entry), the limits of the hardware
\* are kept, and at latency 1 no cache has a line twice or fetches one it has.
THEOREM CacheKeepsRequests == Spec => []RequestsKept
<1>1. Init => CInvOne
  BY InitHolds, InitOnce DEF CInvOne
<1>2. CInvOne /\ [Next]_vars => CInvOne'
  <2>1. SUFFICES ASSUME CInvOne, [Next]_vars PROVE CInvOne'
    OBVIOUS
  <2>2. CInv'
    BY <2>1, NextHolds DEF CInvOne
  <2>3. ASSUME NEW c \in Caches, Latency[c] = 1 PROVE OneCopy(c)'
    BY <2>1, <2>3, OnceHolds DEF CInvOne
  <2> QED
    BY <2>2, <2>3 DEF CInvOne
<1>3. CInvOne => RequestsKept
  BY InvariantIs
<1> QED
  BY <1>1, <1>2, <1>3, PTL DEF Spec
=============================================================================
