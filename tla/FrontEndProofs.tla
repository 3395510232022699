----------------------------- MODULE FrontEndProofs -----------------------------
(***************************************************************************)
(* FetchInOrder is an invariant of the front end, for every line size,     *)
(* width and penalty and for every program of basic blocks: proofs about   *)
(* module FrontEnd.  The inductive invariant FInv says where each queue    *)
(* begins and ends (Run), that the groups described by FTQ and fetchCount  *)
(* tile processedOps (Tiled), and which instruction lastOp is while a      *)
(* mispredicted branch holds fetch back (BranchIsLast).                    *)
(***************************************************************************)
EXTENDS FrontEnd, TLAPS, SequenceTheorems

\* q holds the instructions from a up to, and without, b.
Run(q, a, b) ==
    /\ q \in Seq(Nat) /\ Len(q) = b - a
    /\ \A i \in 1 .. Len(q) : q[i] = a + i - 1

\* Groups that begin at starts, of sizes count, tile the instructions from a up
\* to b of the program o, line by line.
Tiled(starts, count, a, b, o) ==
    LET N == Len(count) IN
    /\ starts \in Seq(Nat) /\ count \in Seq(Nat) /\ Len(starts) = N
    /\ N = 0 <=> a = b
    /\ N > 0 => starts[1] = a
    /\ \A g \in 1 .. N :
          /\ count[g] > 0 /\ starts[g] + count[g] <= b
          /\ starts[g] + count[g] = IF g < N THEN starts[g + 1] ELSE b
          /\ Line(o[starts[g] + count[g]].uid) = Line(o[starts[g] + 1].uid)

Op == [uid : Nat, mispredict : BOOLEAN]

FType ==
    /\ next \in Nat /\ ops \in Seq(Op) /\ Len(ops) = next
    /\ FTQ \in Seq(Nat) /\ responses \in Seq(Nat) /\ retired \in Nat
    /\ request \in Nat \cup {-1} /\ lastOp \in {-1, next - 1}

\* The IFU is occupied exactly while one group is asked for or answered.
OneRequest ==
    /\ occupied = (request # -1 \/ responses # <<>>)
    /\ Len(responses) <= 1 /\ (request # -1 => responses = <<>>)

\* The queues follow one another; the groups tile the last one.
QueuesFollow ==
    \E a, b, c, d, e \in Int :
        /\ Run(insnQueue, a, b) /\ Run(to_rename, b, c) /\ Run(to_decode, c, d)
        /\ Run(fetchBuffer, d, e) /\ Run(processedOps, e, next)
        /\ Tiled(GroupStarts, fetchCount, e, next, ops)

\* While a mispredicted branch has not retired, it is lastOp and the youngest.
BranchIsLast ==
    \A i \in 1 .. Len(ops) :
        ops[i].mispredict /\ i - 1 >= retired => i = next /\ lastOp = i - 1

FInv == FType /\ OneRequest /\ QueuesFollow /\ BranchIsLast

-----------------------------------------------------------------------------
(* Stretches of instructions.                                              *)

\* A stretch can be cut anywhere.
LEMMA RunCut ==
    ASSUME NEW q, NEW a \in Int, NEW b \in Int, Run(q, a, b), NEW n \in 0 .. Len(q)
    PROVE  Run(Moved(q, n), a, a + n) /\ Run(Left(q, n), a + n, b)
<1>1. /\ q \in Seq(Nat) /\ Len(q) \in Nat /\ Len(q) = b - a
      /\ \A i \in 1 .. Len(q) : q[i] = a + i - 1
  BY LenProperties DEF Run
<1>2. Run(Moved(q, n), a, a + n)
  <2> DEFINE m == SubSeq(q, 1, n)
  <2>1. m \in Seq(Nat) /\ Len(m) = n /\ \A i \in 1 .. n : m[i] = q[i]
    BY <1>1, SubSeqProperties
  <2> HIDE DEF m
  <2>2. n \in Nat /\ (a + n) - a = n /\ \A i \in 1 .. n : i \in 1 .. Len(q)
    BY <1>1
  <2>3. Run(m, a, a + n)
    BY <1>1, <2>1, <2>2 DEF Run
  <2> QED
    BY <2>3 DEF m, Moved
<1>3. Run(Left(q, n), a + n, b)
  <2> DEFINE m == SubSeq(q, n + 1, Len(q))
  <2>1. m \in Seq(Nat) /\ Len(m) = Len(q) - n /\ \A i \in 1 .. Len(q) - n : m[i] = q[n + i]
    BY <1>1, SubSeqProperties
  <2> HIDE DEF m
  <2>2. Run(m, a + n, b)
    BY <1>1, <2>1 DEF Run
  <2> QED
    BY <2>2 DEF m, Left
<1> QED
  BY <1>2, <1>3

\* Two stretches of which one begins where the other ends are one.
LEMMA RunJoin ==
    ASSUME NEW q, NEW r, NEW a \in Int, NEW b \in Int, NEW c \in Int, Run(q, a, b), Run(r, b, c)
    PROVE  Run(q \o r, a, c)
<1>1. /\ q \in Seq(Nat) /\ Len(q) \in Nat /\ Len(q) = b - a
      /\ \A i \in 1 .. Len(q) : q[i] = a + i - 1
      /\ r \in Seq(Nat) /\ Len(r) \in Nat /\ Len(r) = c - b
      /\ \A i \in 1 .. Len(r) : r[i] = b + i - 1
  BY LenProperties DEF Run
<1> DEFINE u == q \o r
<1>2. /\ u \in Seq(Nat) /\ Len(u) = Len(q) + Len(r)
      /\ \A i \in 1 .. Len(q) + Len(r) : u[i] = IF i <= Len(q) THEN q[i] ELSE r[i - Len(q)]
  BY <1>1, ConcatProperties
<1> HIDE DEF u
<1>3. ASSUME NEW i \in 1 .. Len(u) PROVE u[i] = a + i - 1
  <2>1. CASE i <= Len(q)
    BY <1>1, <1>2, <2>1
  <2>2. CASE ~(i <= Len(q))
    <3>1. i - Len(q) \in 1 .. Len(r)
      BY <1>1, <1>2, <2>2
    <3> QED
      BY <1>1, <1>2, <2>2, <3>1
  <2> QED
    BY <2>1, <2>2
<1>4. Run(u, a, c)
  BY <1>1, <1>2, <1>3 DEF Run
<1> QED
  BY <1>4 DEF u

\* Of a stretch nothing may be left.
LEMMA RunEmpty ==
    ASSUME NEW q, NEW a \in Int, NEW b \in Int, Run(q, a, b)
    PROVE  (q = <<>> <=> a = b) /\ a <= b /\ (q # <<>> => Head(q) = a) /\ Len(q) \in Nat
  BY LenProperties, EmptySeq DEF Run

-----------------------------------------------------------------------------
(* How a block is cut at the ends of lines.                                *)

\* A factor may be replaced by a larger one.
LEMMA ProductGrows ==
    ASSUME NEW m \in Nat, NEW n \in Nat, NEW k \in Nat, m <= n
    PROVE  m * k <= n * k
<1>1. PICK d \in Nat : n = m + d
  <2>1. n - m \in Nat /\ n = m + (n - m)
    OBVIOUS
  <2> QED
    BY <2>1
<1>2. d * k \in Nat /\ m * k \in Nat
  OBVIOUS
<1>3. n * k = m * k + d * k
  BY <1>1
<1> QED
  BY <1>2, <1>3

\* The line of an instruction between two multiples of the line size.
LEMMA LineIs ==
    ASSUME NEW j \in Nat, NEW u \in Nat, j * NInst <= u, u < (j + 1) * NInst
    PROVE  Line(u) = j * NInst
<1> DEFINE v == u \div NInst
<1>0. NInst \in Nat /\ NInst > 0
  BY FrontEndAssumption
<1>1. v \in Nat /\ v * NInst <= u /\ u < (v + 1) * NInst
  BY <1>0
<1>2. Line(u) = v * NInst
  BY DEF Line
<1> HIDE DEF v
<1>3. ~(v + 1 <= j)
  <2> SUFFICES ASSUME v + 1 <= j PROVE FALSE
    OBVIOUS
  <2>1. (v + 1) * NInst <= j * NInst
    BY <1>0, <1>1, ProductGrows
  <2>2. (v + 1) * NInst \in Nat /\ j * NInst \in Nat
    BY <1>0, <1>1
  <2> QED
    BY <1>1, <2>1, <2>2
<1>4. ~(j + 1 <= v)
  <2> SUFFICES ASSUME j + 1 <= v PROVE FALSE
    OBVIOUS
  <2>1. (j + 1) * NInst <= v * NInst
    BY <1>0, <1>1, ProductGrows
  <2>2. (j + 1) * NInst \in Nat /\ v * NInst \in Nat
    BY <1>0, <1>1
  <2> QED
    BY <1>1, <2>1, <2>2
<1>5. v = j
  BY <1>1, <1>3, <1>4
<1> QED
  BY <1>2, <1>5

\* The groups of a block tile it, and none crosses the end of a line.
LEMMA GroupsTile ==
    ASSUME NEW s \in BlockShapes
    PROVE  /\ Groups(s) \in Seq(Nat) /\ Len(Groups(s)) \in Nat \ {0} /\ Before(s, 1) = 0
           /\ \A g \in 1 .. Len(Groups(s)) :
                 /\ Before(s, g) \in Nat /\ Groups(s)[g] > 0 /\ Before(s, g) + Groups(s)[g] <= s.len
                 /\ Before(s, g) + Groups(s)[g] = IF g < Len(Groups(s)) THEN Before(s, g + 1) ELSE s.len
                 /\ Line(s.first + (Before(s, g) + Groups(s)[g] - 1)) = Line(s.first + Before(s, g))
<1> DEFINE L == s.len  F == s.first  n == NInst
           r == F % n  Q == F \div n  w == (r + L - 1) \div n  G == 1 + w
           b(g) == Before(s, g)
           z(g) == Least(b(g + 1), L) - b(g)
<1>1. n \in Nat /\ n > 0 /\ F \in Nat /\ L \in Nat /\ L > 0
  BY FrontEndAssumption
<1>2. r \in Nat /\ r < n /\ Q \in Nat /\ F = Q * n + r
  <2> HIDE DEF F, n
  <2>1. F % n \in Nat /\ F % n < n
    BY <1>1
  <2>2. F \div n \in Nat
    BY <1>1
  <2>3. F = (F \div n) * n + (F % n)
    BY <1>1
  <2> QED
    BY <2>1, <2>2, <2>3
<1>3. w \in Nat /\ w * n <= r + L - 1 /\ r + L - 1 < (w + 1) * n
  <2> DEFINE x == r + L - 1
  <2>1. x \in Nat
    BY <1>1, <1>2
  <2> HIDE DEF x, n
  <2>2. x \div n \in Nat /\ (x \div n) * n <= x /\ x < (x \div n + 1) * n
    BY <1>1, <2>1
  <2> QED
    BY <2>2 DEF x
<1>4. Groups(s) = [g \in 1 .. G |-> z(g)]
  BY DEF Groups, InLine
<1>5. b(1) = 0 /\ \A g \in Nat : g > 1 => b(g) = (g - 1) * n - r
  BY DEF Before, InLine
<1> HIDE DEF b, r, Q, w, L, F, n
<1>6. \A g \in 1 .. G : b(g + 1) = g * n - r
  <2> SUFFICES ASSUME NEW g \in 1 .. G PROVE b(g + 1) = g * n - r
    OBVIOUS
  <2>1. g \in Nat /\ g + 1 \in Nat /\ g + 1 > 1 /\ (g + 1) - 1 = g
    BY <1>3
  <2> QED
    BY <1>5, <2>1
<1>7. ASSUME NEW g \in 1 .. G
      PROVE  /\ b(g) \in Nat /\ z(g) \in Nat /\ z(g) > 0 /\ b(g) + z(g) <= L
             /\ b(g) + z(g) = IF g < G THEN b(g + 1) ELSE L
             /\ b(g) + z(g) <= g * n - r
             /\ (Q + (g - 1)) * n <= F + b(g)
  <2>0. g \in Nat /\ g - 1 \in Nat /\ g <= w + 1 /\ g - 1 <= w
    BY <1>3
  <2>1. /\ g * n \in Nat /\ (g - 1) * n \in Nat /\ g * n = (g - 1) * n + n
        /\ w * n \in Nat /\ (w + 1) * n \in Nat /\ Q * n \in Nat
        /\ (Q + (g - 1)) * n = Q * n + (g - 1) * n
    BY <1>1, <1>2, <1>3, <2>0
  <2>2. b(g + 1) = g * n - r /\ b(g + 1) \in Int
    BY <1>2, <1>6, <2>1
  <2>3. (g - 1) * n <= w * n
    BY <1>1, <1>3, <2>0, ProductGrows
  <2>4. /\ b(g) \in Nat /\ b(g) <= L - 1 /\ b(g) < g * n - r
        /\ (Q + (g - 1)) * n <= F + b(g)
    <3>1. CASE g = 1
      <4>1. b(g) = 0
        BY <1>5, <3>1
      <4>2. (g - 1) * n = 0
        BY <1>1, <3>1
      <4> QED
        BY <4>1, <4>2, <1>1, <1>2, <2>1
    <3>2. CASE g # 1
      <4>1. b(g) = (g - 1) * n - r /\ 1 <= g - 1 /\ 1 \in Nat
        BY <1>5, <2>0, <3>2
      <4>2. 1 * n <= (g - 1) * n
        BY <4>1, <2>0, <1>1, ProductGrows
      <4>3. n <= (g - 1) * n
        BY <4>2, <1>1
      <4> QED
        BY <4>1, <4>3, <1>1, <1>2, <1>3, <2>1, <2>3
    <3> QED
      BY <3>1, <3>2
  <2>5. CASE g < G
    <3>1. g <= w
      BY <2>0, <2>5, <1>3
    <3>2. g * n <= w * n
      BY <3>1, <1>1, <1>3, <2>0, ProductGrows
    <3>3. b(g + 1) < L
      BY <3>2, <2>1, <2>2, <1>1, <1>2, <1>3
    <3>4. z(g) = b(g + 1) - b(g)
      BY <3>3 DEF Least
    <3> HIDE DEF z
    <3> QED
      BY <3>3, <3>4, <2>2, <2>4, <2>5, <1>1
  <2>6. CASE ~(g < G)
    <3>1. g = w + 1
      BY <2>0, <2>6, <1>3
    <3>2. b(g + 1) >= L
      BY <3>1, <2>1, <2>2, <1>1, <1>2, <1>3
    <3>3. z(g) = L - b(g)
      BY <3>2, <2>2, <1>1 DEF Least
    <3> HIDE DEF z
    <3> QED
      BY <3>2, <3>3, <2>2, <2>4, <2>6, <1>1
  <2> QED
    BY <2>5, <2>6
<1>8. ASSUME NEW g \in 1 .. G
      PROVE  Line(F + (b(g) + z(g) - 1)) = Line(F + b(g))
  <2> DEFINE j == Q + (g - 1)  x == F + b(g)  y == F + (b(g) + z(g) - 1)
  <2>0. g \in Nat /\ g - 1 \in Nat
    BY <1>3
  <2>1. b(g) \in Nat /\ z(g) \in Nat /\ z(g) > 0 /\ b(g) + z(g) <= g * n - r /\ j * n <= F + b(g)
    BY <1>7
  <2> HIDE DEF z
  <2>2. (j + 1) * n = Q * n + g * n /\ Q * n \in Nat /\ g * n \in Nat
    BY <1>1, <1>2, <2>0
  <2>3. j \in Nat /\ x \in Nat /\ y \in Nat /\ x <= y
    BY <1>1, <1>2, <2>0, <2>1
  <2>4. y < (j + 1) * n
    BY <2>1, <2>2, <1>1, <1>2
  <2>5. j * n \in Nat /\ (j + 1) * n \in Nat /\ j * n <= x
    BY <1>1, <2>1, <2>3
  <2> HIDE DEF j, x, y
  <2>6. j * n <= y /\ x < (j + 1) * n
    BY <2>3, <2>4, <2>5
  <2>7. Line(x) = j * n /\ Line(y) = j * n
    BY <2>3, <2>4, <2>5, <2>6, LineIs DEF n
  <2> QED
    BY <2>7 DEF x, y
<1>9. G \in Nat \ {0}
  BY <1>3
<1>10. Groups(s) \in Seq(Nat) /\ Len(Groups(s)) = G /\ \A g \in 1 .. G : Groups(s)[g] = z(g)
  <2>1. \A g \in 1 .. G : z(g) \in Nat
    BY <1>7
  <2> HIDE DEF z, G
  <2> QED
    BY <1>4, <1>9, <2>1
<1> HIDE DEF z, G
<1>11. b(1) = 0 /\ \A g \in 1 .. G :
         /\ b(g) \in Nat /\ Groups(s)[g] > 0 /\ b(g) + Groups(s)[g] <= L
         /\ b(g) + Groups(s)[g] = IF g < G THEN b(g + 1) ELSE L
         /\ Line(F + (b(g) + Groups(s)[g] - 1)) = Line(F + b(g))
  BY <1>5, <1>7, <1>8, <1>10
<1> QED
  BY <1>9, <1>10, <1>11 DEF b, L, F
-----------------------------------------------------------------------------
(* Groups in the queues.                                                   *)

\* The facts of Tiled, with the bounds of the stretch in order.
LEMMA TiledFacts ==
    ASSUME NEW st, NEW c, NEW a \in Int, NEW b \in Int, NEW o, Tiled(st, c, a, b, o)
    PROVE  /\ st \in Seq(Nat) /\ c \in Seq(Nat) /\ Len(c) \in Nat /\ Len(st) = Len(c) /\ a <= b
           /\ \A g \in 1 .. Len(c) :
                 /\ st[g] \in Nat /\ c[g] \in Nat /\ c[g] > 0 /\ st[g] + c[g] <= b
                 /\ st[g] + c[g] = IF g < Len(c) THEN st[g + 1] ELSE b
<1>1. st \in Seq(Nat) /\ c \in Seq(Nat) /\ Len(c) \in Nat /\ Len(st) = Len(c)
  BY LenProperties DEF Tiled
<1>2. \A g \in 1 .. Len(c) : st[g] \in Nat /\ c[g] \in Nat
  BY <1>1, ElementOfSeq
<1>3. \A g \in 1 .. Len(c) :
        /\ c[g] > 0 /\ st[g] + c[g] <= b
        /\ st[g] + c[g] = IF g < Len(c) THEN st[g + 1] ELSE b
  BY DEF Tiled
<1>4. a <= b
  <2>1. CASE Len(c) = 0
    BY <2>1 DEF Tiled
  <2>2. CASE Len(c) # 0
    <3>1. 1 \in 1 .. Len(c) /\ Len(c) > 0
      BY <1>1, <2>2
    <3>2. st[1] = a
      BY <3>1 DEF Tiled
    <3>3. st[1] \in Nat /\ c[1] \in Nat /\ st[1] + c[1] <= b
      BY <1>2, <1>3, <3>1
    <3> QED
      BY <3>2, <3>3
  <2> QED
    BY <2>1, <2>2
<1> QED
  BY <1>1, <1>2, <1>3, <1>4

\* The first group is at the front, is there in full, and the others tile the rest.
LEMMA TiledPop ==
    ASSUME NEW st, NEW c, NEW a \in Int, NEW b \in Int, NEW o, Tiled(st, c, a, b, o), c # <<>>
    PROVE  /\ st # <<>> /\ Head(st) = a /\ Head(c) \in Nat /\ Head(c) <= b - a
           /\ Tiled(Tail(st), Tail(c), a + Head(c), b, o)
<1> DEFINE N == Len(c)  h == Head(c)  ts == Tail(st)  tc == Tail(c)
<1>1. /\ st \in Seq(Nat) /\ c \in Seq(Nat) /\ N \in Nat /\ Len(st) = N
      /\ \A g \in 1 .. N :
            /\ st[g] \in Nat /\ c[g] \in Nat /\ c[g] > 0 /\ st[g] + c[g] <= b
            /\ st[g] + c[g] = IF g < N THEN st[g + 1] ELSE b
  BY TiledFacts
<1>2. N > 0 /\ 1 \in 1 .. N /\ st # <<>>
  BY <1>1, EmptySeq
<1>3. /\ h = c[1] /\ Head(st) = st[1] /\ st[1] = a
      /\ tc \in Seq(Nat) /\ Len(tc) = N - 1 /\ \A g \in 1 .. N - 1 : tc[g] = c[g + 1]
      /\ ts \in Seq(Nat) /\ Len(ts) = N - 1 /\ \A g \in 1 .. N - 1 : ts[g] = st[g + 1]
  <2>1. st[1] = a
    BY <1>2 DEF Tiled
  <2> QED
    BY <1>1, <1>2, <2>1, HeadTailProperties
<1>4. h \in Nat /\ h > 0 /\ a + h <= b /\ a + h = IF 1 < N THEN st[2] ELSE b
  BY <1>1, <1>2, <1>3
<1>5. N - 1 = 0 <=> a + h = b
  <2>1. CASE 1 < N
    <3>1. 2 \in 1 .. N
      BY <1>1, <2>1
    <3>2. st[2] \in Nat /\ c[2] \in Nat /\ c[2] > 0 /\ st[2] + c[2] <= b
      BY <1>1, <3>1
    <3>3. a + h < b
      BY <1>4, <2>1, <3>2
    <3>4. a + h # b
      BY <1>4, <3>3
    <3>t. N \in Nat
      BY <1>1
    <3> HIDE DEF N, h
    <3>5. N - 1 # 0
      BY <3>t, <2>1
    <3> QED
      BY <3>4, <3>5
  <2>2. CASE ~(1 < N)
    BY <1>1, <1>2, <1>4, <2>2
  <2> QED
    BY <2>1, <2>2
<1>6. N - 1 > 0 => ts[1] = a + h
  BY <1>1, <1>3, <1>4
<1>7. ASSUME NEW g \in 1 .. N - 1
      PROVE  /\ tc[g] > 0 /\ ts[g] + tc[g] <= b
             /\ ts[g] + tc[g] = IF g < N - 1 THEN ts[g + 1] ELSE b
             /\ Line(o[ts[g] + tc[g]].uid) = Line(o[ts[g] + 1].uid)
  <2>1. g + 1 \in 1 .. N /\ ts[g] = st[g + 1] /\ tc[g] = c[g + 1]
    BY <1>1, <1>3
  <2>2. Line(o[st[g + 1] + c[g + 1]].uid) = Line(o[st[g + 1] + 1].uid)
    BY <2>1 DEF Tiled
  <2>3. c[g + 1] > 0 /\ st[g + 1] + c[g + 1] <= b
        /\ st[g + 1] + c[g + 1] = IF g + 1 < N THEN st[(g + 1) + 1] ELSE b
    BY <1>1, <2>1
  <2>4. g < N - 1 => ts[g + 1] = st[(g + 1) + 1] /\ g + 1 < N
    BY <1>1, <1>3
  <2>5. ~(g < N - 1) => ~(g + 1 < N)
    BY <1>1
  <2> QED
    BY <2>1, <2>2, <2>3, <2>4, <2>5
<1>8. Tiled(ts, tc, a + h, b, o)
  <2> HIDE DEF ts, tc, h
  <2> QED
    BY <1>3, <1>5, <1>6, <1>7 DEF Tiled
<1> QED
  BY <1>2, <1>3, <1>4, <1>8

\* First instructions of the groups of block s when it begins with instruction b.
StartsOf(s, b) == [g \in 1 .. Len(Groups(s)) |-> b + Before(s, g)]

\* A block that preprocess delivers is tiled by its groups, after those before it.
LEMMA TiledBlock ==
    ASSUME NEW st, NEW c, NEW a \in Int, NEW b \in Nat, NEW o \in Seq(Op), Len(o) = b,
           Tiled(st, c, a, b, o), NEW s \in BlockShapes
    PROVE  /\ BlockOps(s) \in Seq(Op) /\ Len(BlockOps(s)) = s.len
           /\ StartsOf(s, b) \in Seq(Nat)
           /\ Tiled(st \o StartsOf(s, b), c \o Groups(s), a, b + s.len, o \o BlockOps(s))
<1> DEFINE G == Len(Groups(s))  N == Len(c)  L == s.len
           v == StartsOf(s, b)
           gs == Groups(s)
           B == BlockOps(s)
           ns == st \o v  nc == c \o gs  no == o \o B
<1>1. /\ gs \in Seq(Nat) /\ G \in Nat \ {0} /\ Before(s, 1) = 0
      /\ \A g \in 1 .. G :
            /\ Before(s, g) \in Nat /\ gs[g] > 0 /\ Before(s, g) + gs[g] <= L
            /\ Before(s, g) + gs[g] = IF g < G THEN Before(s, g + 1) ELSE L
            /\ Line(s.first + (Before(s, g) + gs[g] - 1)) = Line(s.first + Before(s, g))
  BY GroupsTile
<1>2. L \in Nat /\ L > 0 /\ s.first \in Nat /\ s.mispredict \in BOOLEAN
  BY FrontEndAssumption
<1>3. /\ B \in Seq(Op) /\ Len(B) = L /\ \A i \in 1 .. L : B[i].uid = s.first + i - 1
  <2>1. B = [i \in 1 .. L |-> [uid |-> s.first + i - 1, mispredict |-> s.mispredict /\ i = L]]
    BY DEF BlockOps
  <2>2. \A i \in 1 .. L : [uid |-> s.first + i - 1, mispredict |-> s.mispredict /\ i = L] \in Op
    <3> SUFFICES ASSUME NEW i \in 1 .. L
                 PROVE  [uid |-> s.first + i - 1, mispredict |-> s.mispredict /\ i = L] \in Op
      OBVIOUS
    <3>1. s.first + i - 1 \in Nat
      BY <1>2
    <3>2. (s.mispredict /\ i = L) \in BOOLEAN
      OBVIOUS
    <3> HIDE DEF L
    <3> QED
      BY <3>1, <3>2 DEF Op
  <2> HIDE DEF B, L
  <2>3. B \in Seq(Op) /\ Len(B) = L
    BY <2>1, <2>2, <1>2
  <2>4. \A i \in 1 .. L : B[i].uid = s.first + i - 1
    BY <2>1
  <2> QED
    BY <2>3, <2>4
<1>4. v \in Seq(Nat) /\ Len(v) = G /\ \A g \in 1 .. G : v[g] = b + Before(s, g)
  <2>1. \A g \in 1 .. G : b + Before(s, g) \in Nat
    BY <1>1
  <2>2. v = [g \in 1 .. G |-> b + Before(s, g)]
    BY DEF StartsOf
  <2> HIDE DEF G, v
  <2> QED
    BY <1>1, <2>1, <2>2
<1> HIDE DEF v, B, gs, L
<1>5. /\ st \in Seq(Nat) /\ c \in Seq(Nat) /\ N \in Nat /\ Len(st) = N /\ a <= b
      /\ \A g \in 1 .. N :
            /\ st[g] \in Nat /\ c[g] \in Nat /\ c[g] > 0 /\ st[g] + c[g] <= b
            /\ st[g] + c[g] = IF g < N THEN st[g + 1] ELSE b
  BY TiledFacts
<1>6. /\ ns \in Seq(Nat) /\ Len(ns) = N + G
      /\ \A g \in 1 .. N + G : ns[g] = IF g <= N THEN st[g] ELSE v[g - N]
  <2>1. st \in Seq(Nat) /\ v \in Seq(Nat) /\ Len(st) = N /\ Len(v) = G
    BY <1>4, <1>5
  <2> HIDE DEF N, G
  <2> QED
    BY <2>1, ConcatProperties
<1>7. /\ nc \in Seq(Nat) /\ Len(nc) = N + G
      /\ \A g \in 1 .. N + G : nc[g] = IF g <= N THEN c[g] ELSE gs[g - N]
  BY <1>1, <1>5, ConcatProperties DEF gs
<1>8. \A i \in 1 .. b + L : no[i] = IF i <= b THEN o[i] ELSE B[i - b]
  BY <1>3, ConcatProperties
<1> HIDE DEF ns, nc, no, N, G
<1>9. N + G # 0 /\ a # b + L
  BY <1>1, <1>2, <1>5
<1>10. N + G > 0 => ns[1] = a
  <2>1. CASE N > 0
    <3>1. st[1] = a
      BY <2>1 DEF Tiled, N
    <3> QED
      BY <1>1, <1>5, <1>6, <2>1, <3>1
  <2>2. CASE N = 0
    <3>1. a = b
      BY <2>2 DEF Tiled, N
    <3>2. v[1] = b /\ 1 \in 1 .. G
      BY <1>1, <1>4
    <3>3. ns[1] = v[1]
      BY <1>1, <1>6, <2>2, <3>2
    <3> QED
      BY <3>1, <3>2, <3>3
  <2> QED
    BY <1>5, <2>1, <2>2
<1>11. ASSUME NEW g \in 1 .. N + G
       PROVE  /\ nc[g] > 0 /\ ns[g] + nc[g] <= b + L
              /\ ns[g] + nc[g] = IF g < N + G THEN ns[g + 1] ELSE b + L
              /\ Line(no[ns[g] + nc[g]].uid) = Line(no[ns[g] + 1].uid)
  <2>1. CASE g <= N
    <3>0. g \in 1 .. N
      BY <1>1, <1>5, <2>1
    <3>1. g \in 1 .. N /\ ns[g] = st[g] /\ nc[g] = c[g]
      BY <1>6, <1>7, <2>1, <3>0
    <3>2. /\ st[g] \in Nat /\ c[g] \in Nat /\ c[g] > 0 /\ st[g] + c[g] <= b
          /\ st[g] + c[g] = IF g < N THEN st[g + 1] ELSE b
      BY <1>5, <3>1
    <3>3. g + 1 \in 1 .. N + G /\ g < N + G
      BY <1>1, <1>5, <2>1
    <3>4. ns[g + 1] = IF g < N THEN st[g + 1] ELSE b
      <4>1. CASE g < N
        BY <1>5, <1>6, <3>3, <4>1
      <4>2. CASE ~(g < N)
        <5>1. ~(g + 1 <= N) /\ (g + 1) - N = 1
          BY <1>5, <2>1, <4>2
        <5>2. v[1] = b
          BY <1>1, <1>4
        <5> QED
          BY <1>6, <3>3, <4>2, <5>1, <5>2
      <4> QED
        BY <4>1, <4>2
    <3>5. /\ st[g] + c[g] \in 1 .. b + L /\ st[g] + c[g] <= b
          /\ st[g] + 1 \in 1 .. b + L /\ st[g] + 1 <= b
      BY <1>2, <3>2
    <3>6. Line(o[st[g] + c[g]].uid) = Line(o[st[g] + 1].uid)
      BY <3>1 DEF Tiled, N
    <3>7. Line(no[ns[g] + nc[g]].uid) = Line(no[ns[g] + 1].uid)
      BY <1>8, <3>1, <3>5, <3>6
    <3>8. st[g] + c[g] <= b + L
      BY <1>2, <3>2
    <3> QED
      BY <3>1, <3>2, <3>3, <3>4, <3>7, <3>8
  <2>2. CASE ~(g <= N)
    <3> DEFINE k == g - N
    <3>1. k \in 1 .. G /\ ns[g] = v[k] /\ nc[g] = gs[k]
      <4>1. k \in 1 .. G
        BY <1>1, <1>5, <2>2
      <4> QED
        BY <1>6, <1>7, <2>2, <4>1
    <3>2. v[k] = b + Before(s, k)
      BY <1>4, <3>1
    <3> HIDE DEF k
    <3>3. /\ Before(s, k) \in Nat /\ gs[k] > 0 /\ Before(s, k) + gs[k] <= L
          /\ Before(s, k) + gs[k] = IF k < G THEN Before(s, k + 1) ELSE L
          /\ Line(s.first + (Before(s, k) + gs[k] - 1)) = Line(s.first + Before(s, k))
      BY <1>1, <3>1
    <3>4. gs[k] \in Nat
      <4>1. k \in 1 .. Len(gs)
        BY <3>1 DEF G, gs
      <4>2. gs \in Seq(Nat)
        BY <1>1
      <4> QED
        BY <4>1, <4>2, ElementOfSeq
    <3>5. g < N + G <=> k < G
      BY <1>1, <1>5 DEF k
    <3>6. g < N + G => ns[g + 1] = b + Before(s, k + 1)
      <4> SUFFICES ASSUME g < N + G PROVE ns[g + 1] = b + Before(s, k + 1)
        OBVIOUS
      <4>1. g + 1 \in 1 .. N + G /\ ~(g + 1 <= N) /\ (g + 1) - N = k + 1 /\ k + 1 \in 1 .. G
        BY <1>1, <1>5, <2>2, <3>1, <3>5 DEF k
      <4>2. ns[g + 1] = v[k + 1]
        BY <1>6, <4>1
      <4> QED
        BY <1>4, <4>1, <4>2
    <3> DEFINE p == Before(s, k)  z == gs[k]
    <3>7. p + z \in 1 .. L /\ p + 1 \in 1 .. L
      <4>1. p \in Nat /\ z \in Nat /\ z > 0 /\ p + z <= L
        BY <3>3, <3>4
      <4> HIDE DEF p, z
      <4> QED
        BY <4>1, <1>2
    <3>8. B[p + z].uid = s.first + (p + z - 1) /\ B[p + 1].uid = s.first + p
      <4>1. B[p + z].uid = s.first + (p + z) - 1 /\ B[p + 1].uid = s.first + (p + 1) - 1
        BY <1>3, <3>7
      <4>2. p \in Nat /\ z \in Nat
        BY <3>3, <3>4
      <4> HIDE DEF p, z
      <4>3. s.first + (p + z) - 1 = s.first + (p + z - 1) /\ s.first + (p + 1) - 1 = s.first + p
        BY <4>2, <1>2
      <4> QED
        BY <4>1, <4>3
    <3>9. /\ p + z \in Nat /\ p + z > 0 /\ p \in Nat /\ z \in Nat
      BY <3>3, <3>4
    <3>10. Line(B[p + z].uid) = Line(B[p + 1].uid)
      BY <3>3, <3>8
    <3>11. p + z = IF k < G THEN Before(s, k + 1) ELSE L
      BY <3>3
    <3>12. ns[g] = b + p /\ nc[g] = z /\ z > 0 /\ p + z <= L
      BY <3>1, <3>2, <3>3
    <3> HIDE DEF p, z
    <3>13. no[b + (p + z)] = B[p + z] /\ no[b + (p + 1)] = B[p + 1]
      <4>1. ASSUME NEW i \in 1 .. L PROVE no[b + i] = B[i]
        <5>1. b + i \in 1 .. b + L /\ ~(b + i <= b) /\ (b + i) - b = i
          BY <1>2
        <5> QED
          BY <1>8, <5>1
      <4> QED
        BY <3>7, <4>1
    <3>14. (b + p) + z = b + (p + z) /\ (b + p) + 1 = b + (p + 1) /\ b + (p + z) <= b + L
      BY <1>2, <3>9, <3>12
    <3>15. (b + p) + z = IF g < N + G THEN ns[g + 1] ELSE b + L
      BY <3>5, <3>6, <3>11, <3>14
    <3> QED
      BY <3>10, <3>12, <3>13, <3>14, <3>15
  <2> QED
    BY <2>1, <2>2
<1>12. Tiled(ns, nc, a, b + L, no)
  BY <1>6, <1>7, <1>9, <1>10, <1>11 DEF Tiled
<1> QED
  BY <1>3, <1>4, <1>12 DEF ns, nc, no, v, gs, B, L, G

-----------------------------------------------------------------------------
(* The two halves of fetch.                                                *)

\* The group that L1I is asked for and has not answered.
Pend == IF request # -1 THEN <<request>> ELSE <<>>

Queues == [ftq : Seq(Nat), count : Seq(Nat), processed : Seq(Nat), buffer : Seq(Nat)]

\* What holds between the halves: the queues f describe the instructions from d
\* up to n of the program o.
Halfway(f, o, d, n) ==
    /\ f \in Queues
    /\ \E e \in Int : /\ Run(f.buffer, d, e) /\ Run(f.processed, e, n)
                      /\ Tiled(Pend \o f.ftq, f.count, e, n, o)

\* A queue behind a single element.
LEMMA BehindOne ==
    ASSUME NEW s \in Seq(Nat), NEW t \in Seq(Nat), Len(s) = 1
    PROVE  Tail(s \o t) = t /\ s \o t \in Seq(Nat) /\ s \o t # <<>>
<1> DEFINE u == s \o t
<1>1. /\ u \in Seq(Nat) /\ Len(u) = 1 + Len(t) /\ Len(t) \in Nat
      /\ \A i \in 1 .. 1 + Len(t) : u[i] = IF i <= 1 THEN s[i] ELSE t[i - 1]
  <2>1. Len(t) \in Nat
    BY LenProperties
  <2>2. /\ u \in Seq(Nat) /\ Len(u) = Len(s) + Len(t)
        /\ \A i \in 1 .. Len(s) + Len(t) : u[i] = IF i <= Len(s) THEN s[i] ELSE t[i - Len(s)]
    BY ConcatProperties
  <2> HIDE DEF u
  <2> QED
    BY <2>1, <2>2
<1> HIDE DEF u
<1>2. u # <<>>
  BY <1>1, EmptySeq
<1>3. /\ Tail(u) \in Seq(Nat) /\ Len(Tail(u)) = Len(t)
      /\ \A i \in 1 .. Len(t) : Tail(u)[i] = u[i + 1]
  BY <1>1, <1>2, HeadTailProperties
<1>4. \A i \in 1 .. Len(t) : Tail(u)[i] = t[i]
  <2> SUFFICES ASSUME NEW i \in 1 .. Len(t) PROVE Tail(u)[i] = t[i]
    OBVIOUS
  <2>1. i + 1 \in 1 .. 1 + Len(t) /\ ~(i + 1 <= 1) /\ (i + 1) - 1 = i
    BY <1>1
  <2> QED
    BY <1>1, <1>3, <2>1
<1>5. Tail(u) = t
  BY <1>3, <1>4, SeqEqual
<1> QED
  BY <1>1, <1>2, <1>5 DEF u

\* An element put back in front of the rest.
LEMMA HeadAndTail ==
    ASSUME NEW t \in Seq(Nat), t # <<>>
    PROVE  /\ <<Head(t)>> \o Tail(t) = t /\ Head(t) \in Nat /\ Tail(t) \in Seq(Nat)
           /\ <<>> \o Tail(t) = Tail(t) /\ <<>> \o t = t
<1> DEFINE h == Head(t)  r == Tail(t)  u == <<h>> \o r
<1>1. /\ h \in Nat /\ h = t[1] /\ r \in Seq(Nat) /\ Len(t) \in Nat /\ Len(r) = Len(t) - 1
      /\ \A i \in 1 .. Len(t) - 1 : r[i] = t[i + 1]
  BY HeadTailProperties, LenProperties, EmptySeq
<1>2. Len(t) > 0
  BY <1>1, EmptySeq
<1> HIDE DEF h, r
<1>3. <<h>> \in Seq(Nat) /\ Len(<<h>>) = 1 /\ <<h>>[1] = h
  BY <1>1
<1>4. /\ u \in Seq(Nat) /\ Len(u) = Len(t)
      /\ \A i \in 1 .. Len(t) : u[i] = IF i <= 1 THEN <<h>>[i] ELSE r[i - 1]
  BY <1>1, <1>2, <1>3, ConcatProperties
<1> HIDE DEF u
<1>5. \A i \in 1 .. Len(t) : u[i] = t[i]
  <2> SUFFICES ASSUME NEW i \in 1 .. Len(t) PROVE u[i] = t[i]
    OBVIOUS
  <2>1. CASE i = 1
    BY <1>1, <1>3, <1>4, <2>1
  <2>2. CASE i # 1
    <3>1. ~(i <= 1) /\ i - 1 \in 1 .. Len(t) - 1 /\ (i - 1) + 1 = i
      BY <1>1, <2>2
    <3> QED
      BY <1>1, <1>4, <3>1
  <2> QED
    BY <2>1, <2>2
<1>6. u = t
  BY <1>4, <1>5, SeqEqual
<1> QED
  BY <1>1, <1>6, ConcatEmptySeq DEF u, h, r

\* A group that leaves processedOps for fetchBuffer is taken in full.
LEMMA GroupMoves ==
    ASSUME NEW st, NEW c, NEW o, NEW p, NEW q, NEW d \in Int, NEW e \in Int, NEW b \in Int,
           Run(q, d, e), Run(p, e, b), Tiled(st, c, e, b, o), c # <<>>
    PROVE  /\ st # <<>> /\ Head(st) = e /\ e + Head(c) \in Int
           /\ Run(q \o Moved(p, Least(Head(c), Len(p))), d, e + Head(c))
           /\ Run(Left(p, Least(Head(c), Len(p))), e + Head(c), b)
           /\ Tiled(Tail(st), Tail(c), e + Head(c), b, o)
<1> DEFINE h == Head(c)
<1>1. st # <<>> /\ Head(st) = e /\ h \in Nat /\ h <= b - e /\ Tiled(Tail(st), Tail(c), e + h, b, o)
  BY TiledPop
<1> HIDE DEF h
<1>2. Len(p) = b - e /\ Len(p) \in Nat
  BY LenProperties DEF Run
<1>3. Least(h, Len(p)) = h /\ h \in 0 .. Len(p) /\ e + h \in Int
  BY <1>1, <1>2 DEF Least
<1>4. Run(Moved(p, h), e, e + h) /\ Run(Left(p, h), e + h, b)
  BY <1>3, RunCut
<1>5. Run(q \o Moved(p, h), d, e + h)
  BY <1>3, <1>4, RunJoin
<1> QED
  BY <1>1, <1>3, <1>4, <1>5 DEF h

\* IF1 takes the group that L1I has answered for.
LEMMA TakenHalfway ==
    ASSUME FType, OneRequest, NEW d \in Int, NEW e \in Int,
           Run(fetchBuffer, d, e), Run(processedOps, e, next),
           Tiled(GroupStarts, fetchCount, e, next, ops)
    PROVE  Halfway(Taken, ops, d, next) /\ Taken.ftq = FTQ
<1> DEFINE n == Least(Head(fetchCount), Len(processedOps))
<1>1. /\ next \in Int /\ FTQ \in Seq(Nat) /\ responses \in Seq(Nat)
      /\ fetchCount \in Seq(Nat) /\ fetchBuffer \in Seq(Nat) /\ processedOps \in Seq(Nat)
      /\ Len(GroupStarts) = Len(fetchCount)
  BY DEF FType, Run, Tiled
<1>2. CASE responses = <<>>
  <2>1. Taken = [ftq |-> FTQ, count |-> fetchCount, processed |-> processedOps,
                 buffer |-> fetchBuffer]
    BY <1>2 DEF Taken, Take
  <2>2. GroupStarts = Pend \o FTQ
    BY <1>2 DEF GroupStarts, Pend
  <2>3. Taken \in Queues
    BY <1>1, <2>1 DEF Queues
  <2>4. /\ Taken.ftq = FTQ /\ Taken.count = fetchCount /\ Taken.processed = processedOps
        /\ Taken.buffer = fetchBuffer
    BY <2>1
  <2> QED
    BY <2>2, <2>3, <2>4 DEF Halfway
<1>3. CASE responses # <<>>
  <2>1. Taken = [ftq |-> FTQ, count |-> Tail(fetchCount), processed |-> Left(processedOps, n),
                 buffer |-> fetchBuffer \o Moved(processedOps, n)]
    BY <1>3 DEF Taken, Take
  <2>2. request = -1 /\ Len(responses) = 1
    <3>1. Len(responses) \in Nat /\ Len(responses) # 0 /\ Len(responses) <= 1
      BY <1>1, <1>3, LenProperties, EmptySeq DEF OneRequest
    <3>2. Len(responses) = 1
      BY <3>1
    <3>3. request = -1
      BY <1>3 DEF OneRequest
    <3> QED
      BY <3>2, <3>3
  <2>3. GroupStarts = responses \o FTQ /\ Pend = <<>>
    BY <2>2 DEF GroupStarts, Pend
  <2>4. Tail(GroupStarts) = FTQ /\ GroupStarts \in Seq(Nat) /\ GroupStarts # <<>>
    BY <1>1, <2>2, <2>3, BehindOne
  <2>5. fetchCount # <<>>
    BY <1>1, <2>4, EmptySeq
  <2>6. /\ e + Head(fetchCount) \in Int
        /\ Run(fetchBuffer \o Moved(processedOps, n), d, e + Head(fetchCount))
        /\ Run(Left(processedOps, n), e + Head(fetchCount), next)
        /\ Tiled(FTQ, Tail(fetchCount), e + Head(fetchCount), next, ops)
    BY <1>1, <2>4, <2>5, GroupMoves
  <2>7. Pend \o FTQ = FTQ
    BY <1>1, <2>3, ConcatEmptySeq
  <2> HIDE DEF n
  <2>8. /\ Taken.ftq = FTQ /\ Taken.count = Tail(fetchCount)
        /\ Taken.processed = Left(processedOps, n)
        /\ Taken.buffer = fetchBuffer \o Moved(processedOps, n)
    BY <2>1
  <2>9. Tail(fetchCount) \in Seq(Nat) /\ Left(processedOps, n) \in Seq(Nat)
        /\ fetchBuffer \o Moved(processedOps, n) \in Seq(Nat)
    BY <2>6 DEF Run, Tiled
  <2>10. Taken \in Queues
    BY <1>1, <2>1, <2>9 DEF Queues
  <2> QED
    BY <2>6, <2>7, <2>8, <2>10 DEF Halfway
<1> QED
  BY <1>2, <1>3

\* preprocess delivers a block when FTQ is empty.
LEMMA BlockHalfway ==
    ASSUME FType, NEW d \in Int, NEW f, Halfway(f, ops, d, next), f.ftq = <<>>, NEW s \in BlockShapes
    PROVE  /\ Halfway(AddBlock(f, s), ops \o BlockOps(s), d, next + s.len)
           /\ ops \o BlockOps(s) \in Seq(Op) /\ Len(ops \o BlockOps(s)) = next + s.len
           /\ next + s.len \in Nat
<1> DEFINE v == StartsOf(s, next)
           t == [i \in 1 .. s.len |-> next + i - 1]
           gs == Groups(s)  A == AddBlock(f, s)
<1>0. next \in Nat /\ next \in Int /\ ops \in Seq(Op) /\ Len(ops) = next
      /\ s.len \in Nat /\ s.len > 0 /\ next + s.len \in Nat
  BY FrontEndAssumption DEF FType
<1>1. PICK e \in Int : /\ Run(f.buffer, d, e) /\ Run(f.processed, e, next)
                       /\ Tiled(Pend \o f.ftq, f.count, e, next, ops)
  BY DEF Halfway
<1>2. f \in Queues /\ Pend \in Seq(Nat)
  BY DEF Halfway, Pend, FType
<1>3. Pend \o f.ftq = Pend
  BY <1>2, ConcatEmptySeq
<1>4. /\ BlockOps(s) \in Seq(Op) /\ Len(BlockOps(s)) = s.len /\ v \in Seq(Nat)
      /\ Tiled(Pend \o v, f.count \o gs, e, next + s.len, ops \o BlockOps(s))
  <2> DEFINE c == f.count
  <2>1. Tiled(Pend, c, e, next, ops)
    BY <1>1, <1>3
  <2> HIDE DEF c
  <2>2. /\ BlockOps(s) \in Seq(Op) /\ Len(BlockOps(s)) = s.len /\ v \in Seq(Nat)
        /\ Tiled(Pend \o v, c \o gs, e, next + s.len, ops \o BlockOps(s))
    BY <1>0, <2>1, TiledBlock
  <2> QED
    BY <2>2 DEF c
<1>5. gs \in Seq(Nat)
  BY GroupsTile
<1> HIDE DEF v, gs
<1>v. f.ftq \o v = v
  BY <1>4, ConcatEmptySeq
<1>6. Run(t, next, next + s.len)
  <2>1. \A i \in 1 .. s.len : next + i - 1 \in Nat
    BY <1>0
  <2>2. t \in Seq(Nat) /\ Len(t) = s.len /\ \A i \in 1 .. s.len : t[i] = next + i - 1
    <3> DEFINE k == s.len
    <3>1. k \in Nat /\ \A i \in 1 .. k : next + i - 1 \in Nat
      BY <1>0, <2>1
    <3>2. t = [i \in 1 .. k |-> next + i - 1]
      OBVIOUS
    <3> HIDE DEF k, t
    <3>3. t \in Seq(Nat) /\ Len(t) = k /\ \A i \in 1 .. k : t[i] = next + i - 1
      BY <3>1, <3>2
    <3> QED
      BY <3>3 DEF k
  <2>3. (next + s.len) - next = s.len
    BY <1>0
  <2> HIDE DEF t
  <2> QED
    BY <2>2, <2>3 DEF Run
<1> HIDE DEF t
<1>7. Run(f.processed \o t, e, next + s.len)
  <2> DEFINE p == f.processed  m == next + s.len
  <2>1. m \in Int /\ Run(p, e, next) /\ Run(t, next, m)
    BY <1>0, <1>1, <1>6
  <2> HIDE DEF p, m
  <2>2. Run(p \o t, e, m)
    BY <1>0, <2>1, RunJoin
  <2> QED
    BY <2>2 DEF p, m
<1>8. A = [f EXCEPT !.ftq = @ \o v, !.count = @ \o gs, !.processed = @ \o t]
  BY DEF AddBlock, StartsOf, v, gs, t
<1> HIDE DEF A
<1>9. /\ A.ftq = v /\ A.count = f.count \o gs /\ A.processed = f.processed \o t
      /\ A.buffer = f.buffer
  BY <1>2, <1>v, <1>8 DEF Queues
<1>10. A \in Queues
  <2>1. f.count \o gs \in Seq(Nat) /\ f.processed \o t \in Seq(Nat) /\ v \in Seq(Nat)
    BY <1>4, <1>7 DEF Run, Tiled
  <2> QED
    BY <1>2, <1>v, <1>8, <2>1 DEF Queues
<1>11. Halfway(A, ops \o BlockOps(s), d, next + s.len)
  BY <1>1, <1>4, <1>7, <1>9, <1>10 DEF Halfway
<1>12. ops \o BlockOps(s) \in Seq(Op) /\ Len(ops \o BlockOps(s)) = next + s.len
  <2> DEFINE B == BlockOps(s)
  <2>1. B \in Seq(Op) /\ Len(B) = s.len
    BY <1>4
  <2> HIDE DEF B
  <2>2. ops \o B \in Seq(Op) /\ Len(ops \o B) = Len(ops) + Len(B)
    BY <1>0, <2>1, ConcatProperties
  <2> QED
    BY <1>0, <2>1, <2>2 DEF B
<1> QED
  BY <1>0, <1>11, <1>12 DEF A

\* The parts of Deliver: what happens to the first group of FTQ.
Busy == occupied /\ responses = <<>>
Goes(f, stall) == f.ftq # <<>> /\ ~(f.ftq # <<>> /\ stall /\ FlushPenalty > 0) /\ ~stalledHead
Fakes(f, o, stall) == Goes(f, stall) /\ CanFake(f, o, Busy)
Sends(f, o, stall) == Goes(f, stall) /\ ~Fakes(f, o, stall) /\ shouldFetch /\ ~Busy

\* What the second half leaves behind.
LEMMA DeliverIs ==
    ASSUME NEW f, NEW o, NEW stall, Deliver(f, o, stall)
    PROVE  LET fake == Fakes(f, o, stall)
               send == Sends(f, o, stall)
               g == IF fake THEN FakeIF(f) ELSE f
           IN  /\ FTQ' = (IF send THEN Tail(g.ftq) ELSE g.ftq)
               /\ request' = (IF send THEN Head(g.ftq) ELSE request)
               /\ occupied' = (send \/ Busy)
               /\ fetchCount' = g.count /\ processedOps' = g.processed
               /\ to_decode' = Moved(g.buffer, ToDecode(g))
               /\ fetchBuffer' = Left(g.buffer, ToDecode(g))
               /\ responses' = <<>>
  BY DEF Deliver, Fakes, Sends, Goes, Busy

\* The second half keeps the queues in step: no group is dropped or taken short.
LEMMA DeliverKeeps ==
    ASSUME FType, OneRequest, NEW d \in Int, NEW n \in Int, NEW f, NEW o, NEW stall,
           Halfway(f, o, d, n), Deliver(f, o, stall)
    PROVE  /\ OneRequest' /\ FTQ' \in Seq(Nat) /\ responses' = <<>> /\ request' \in Nat \cup {-1}
           /\ \E x, e \in Int : /\ Run(to_decode', d, x) /\ Run(fetchBuffer', x, e)
                                /\ Run(processedOps', e, n)
                                /\ Tiled(GroupStarts', fetchCount', e, n, o)
<1> DEFINE fake == Fakes(f, o, stall)  send == Sends(f, o, stall)
           g == IF fake THEN FakeIF(f) ELSE f
<1>1. /\ FTQ' = (IF send THEN Tail(g.ftq) ELSE g.ftq)
      /\ request' = (IF send THEN Head(g.ftq) ELSE request)
      /\ occupied' = (send \/ Busy)
      /\ fetchCount' = g.count /\ processedOps' = g.processed
      /\ to_decode' = Moved(g.buffer, ToDecode(g)) /\ fetchBuffer' = Left(g.buffer, ToDecode(g))
      /\ responses' = <<>>
  BY DeliverIs
<1>2. f \in Queues
  BY DEF Halfway
<1>3. PICK e \in Int : /\ Run(f.buffer, d, e) /\ Run(f.processed, e, n)
                       /\ Tiled(Pend \o f.ftq, f.count, e, n, o)
  BY DEF Halfway
<1>4. f.ftq \in Seq(Nat)
  BY <1>2 DEF Queues
<1>5. Busy <=> request # -1
  BY DEF OneRequest, Busy
<1>6. request \in Nat \cup {-1}
  BY DEF FType
<1>7. (fake => ~send /\ ~Busy /\ f.ftq # <<>>) /\ (send => ~fake /\ ~Busy /\ f.ftq # <<>>)
  BY DEF Fakes, Sends, CanFake, Goes
<1> HIDE DEF fake, send
<1>8. GroupStarts' = (IF request' # -1 THEN <<request'>> ELSE responses') \o FTQ'
  BY DEF GroupStarts
<1>9. \E y \in Int : /\ Run(g.buffer, d, y) /\ Run(g.processed, y, n)
                     /\ Tiled(GroupStarts', g.count, y, n, o)
                     /\ FTQ' \in Seq(Nat) /\ request' \in Nat \cup {-1}
                     /\ occupied' = (request' # -1)
  <2>1. CASE fake
    <3>1. g = FakeIF(f) /\ ~send /\ ~Busy /\ f.ftq # <<>>
      BY <1>7, <2>1
    <3> DEFINE m == Least(Head(f.count), Len(f.processed))
    <3>2. /\ g.ftq = Tail(f.ftq) /\ g.count = Tail(f.count)
          /\ g.processed = Left(f.processed, m) /\ g.buffer = f.buffer \o Moved(f.processed, m)
      <4>1. FakeIF(f) = [ftq |-> Tail(f.ftq), count |-> Tail(f.count),
                         processed |-> Left(f.processed, m),
                         buffer |-> f.buffer \o Moved(f.processed, m)]
        BY DEF FakeIF
      <4> DEFINE t == Tail(f.ftq)  c == Tail(f.count)  p == Left(f.processed, m)
                 q == f.buffer \o Moved(f.processed, m)
      <4>2. g = [ftq |-> t, count |-> c, processed |-> p, buffer |-> q]
        BY <3>1, <4>1
      <4> HIDE DEF t, c, p, q, g
      <4>3. g.ftq = t /\ g.count = c /\ g.processed = p /\ g.buffer = q
        BY <4>2
      <4> QED
        BY <4>3 DEF t, c, p, q
    <3> HIDE DEF g
    <3>3. request = -1 /\ request' = -1 /\ FTQ' = Tail(f.ftq) /\ occupied' = FALSE
      BY <1>1, <1>5, <3>1, <3>2
    <3>4. Pend \o f.ftq = f.ftq
      BY <1>4, <3>3, ConcatEmptySeq DEF Pend
    <3>5. f.count # <<>>
      <4>1. f.count \in Seq(Nat) /\ Len(f.ftq) = Len(f.count)
        BY <1>3, <3>4 DEF Tiled
      <4> QED
        BY <1>4, <3>1, <4>1, EmptySeq
    <3>6. Tail(f.ftq) \in Seq(Nat) /\ <<>> \o Tail(f.ftq) = Tail(f.ftq)
      BY <1>4, <3>1, HeadAndTail
    <3>7. GroupStarts' = Tail(f.ftq)
      BY <1>1, <1>8, <3>3, <3>6
    <3>8. /\ e + Head(f.count) \in Int
          /\ Run(f.buffer \o Moved(f.processed, m), d, e + Head(f.count))
          /\ Run(Left(f.processed, m), e + Head(f.count), n)
          /\ Tiled(Tail(f.ftq), Tail(f.count), e + Head(f.count), n, o)
      <4> DEFINE q == f.buffer  p == f.processed  c == f.count  t == f.ftq
      <4>1. Run(q, d, e) /\ Run(p, e, n) /\ Tiled(t, c, e, n, o) /\ c # <<>>
        BY <1>3, <3>4, <3>5
      <4> HIDE DEF q, p, c, t
      <4>2. /\ e + Head(c) \in Int
            /\ Run(q \o Moved(p, Least(Head(c), Len(p))), d, e + Head(c))
            /\ Run(Left(p, Least(Head(c), Len(p))), e + Head(c), n)
            /\ Tiled(Tail(t), Tail(c), e + Head(c), n, o)
        BY <4>1, GroupMoves
      <4> QED
        BY <4>2 DEF q, p, c, t
    <3> HIDE DEF m
    <3>9. /\ Run(g.buffer, d, e + Head(f.count)) /\ Run(g.processed, e + Head(f.count), n)
          /\ Tiled(GroupStarts', g.count, e + Head(f.count), n, o)
      BY <3>2, <3>7, <3>8
    <3>10. FTQ' \in Seq(Nat) /\ request' \in Nat \cup {-1} /\ occupied' = (request' # -1)
      BY <3>3, <3>6
    <3> QED
      BY <3>8, <3>9, <3>10
  <2>2. CASE send
    <3>1. g = f /\ ~Busy /\ f.ftq # <<>>
      BY <1>7, <2>2
    <3>2. request = -1 /\ request' = Head(f.ftq) /\ FTQ' = Tail(f.ftq) /\ occupied' = TRUE
      BY <1>1, <1>5, <2>2, <3>1
    <3>3. /\ <<Head(f.ftq)>> \o Tail(f.ftq) = f.ftq /\ Head(f.ftq) \in Nat
          /\ Tail(f.ftq) \in Seq(Nat)
      BY <1>4, <3>1, HeadAndTail
    <3>4. request' # -1 /\ request' \in Nat
      BY <3>2, <3>3
    <3>5. GroupStarts' = f.ftq
      BY <1>8, <3>2, <3>3, <3>4
    <3>6. Pend \o f.ftq = f.ftq
      BY <1>4, <3>2, ConcatEmptySeq DEF Pend
    <3>7. /\ Run(g.buffer, d, e) /\ Run(g.processed, e, n) /\ Tiled(GroupStarts', g.count, e, n, o)
      BY <1>3, <3>1, <3>5, <3>6
    <3> QED
      BY <3>2, <3>3, <3>4, <3>7
  <2>3. CASE ~fake /\ ~send
    <3>1. g = f
      BY <2>3
    <3>2. request' = request /\ FTQ' = f.ftq
      BY <1>1, <2>3, <3>1
    <3>3. GroupStarts' = Pend \o f.ftq
      BY <1>1, <1>8, <3>2 DEF Pend
    <3>4. occupied' = (request' # -1)
      BY <1>1, <1>5, <2>3, <3>2 DEF Busy
    <3> QED
      BY <1>3, <1>4, <1>6, <3>1, <3>2, <3>3, <3>4
  <2> QED
    BY <2>1, <2>2, <2>3
<1>10. PICK y \in Int : /\ Run(g.buffer, d, y) /\ Run(g.processed, y, n)
                        /\ Tiled(GroupStarts', g.count, y, n, o)
  BY <1>9
<1>11. FTQ' \in Seq(Nat) /\ request' \in Nat \cup {-1} /\ occupied' = (request' # -1)
  BY <1>9
<1> DEFINE b == g.buffer  k == ToDecode(g)
<1>12. k \in 0 .. Len(b) /\ d + k \in Int
  <2>1. Len(b) \in Nat
    BY <1>10, RunEmpty
  <2>2. k = IF FetchWidth < Len(b) THEN FetchWidth ELSE Len(b)
    BY DEF ToDecode, Least
  <2> HIDE DEF k, b
  <2>3. k \in 0 .. Len(b)
    BY <2>1, <2>2, FrontEndAssumption
  <2> QED
    BY <2>1, <2>3
<1> HIDE DEF k, g
<1>13. Run(Moved(b, k), d, d + k) /\ Run(Left(b, k), d + k, y)
  <2>1. Run(b, d, y)
    BY <1>10
  <2> HIDE DEF b
  <2> QED
    BY <1>12, <2>1, RunCut
<1>14. to_decode' = Moved(b, k) /\ fetchBuffer' = Left(b, k)
  BY <1>1 DEF k
<1> HIDE DEF b
<1>15. Run(to_decode', d, d + k) /\ Run(fetchBuffer', d + k, y) /\ Run(processedOps', y, n)
       /\ Tiled(GroupStarts', fetchCount', y, n, o)
  BY <1>1, <1>10, <1>13, <1>14
<1>16. OneRequest'
  <2>1. responses' = <<>> /\ Len(<<>>) = 0
    BY <1>1
  <2> QED
    BY <1>11, <2>1 DEF OneRequest
<1> QED
  BY <1>1, <1>11, <1>12, <1>15, <1>16

-----------------------------------------------------------------------------
(* The actions.                                                            *)

\* The stages behind fetch, which move instructions and nothing else.
LEMMA StagesKeep ==
    ASSUME FInv, (\E n \in 0 .. MaxOps : commit(n) \/ dispatch(n)) \/ rename \/ decode
    PROVE  FInv'
<1> USE DEF FInv
<1>1. PICK a, b, c, d, e \in Int :
        /\ Run(insnQueue, a, b) /\ Run(to_rename, b, c) /\ Run(to_decode, c, d)
        /\ Run(fetchBuffer, d, e) /\ Run(processedOps, e, next)
        /\ Tiled(GroupStarts, fetchCount, e, next, ops)
  BY DEF QueuesFollow
<1> DEFINE W == \E x, y, z \in Int :
                   Run(insnQueue', x, y) /\ Run(to_rename', y, z) /\ Run(to_decode', z, d)
<1>2. ASSUME UNCHANGED <<fetchVars, ifuVars>>, retired' \in Nat, retired' >= retired, W
      PROVE  FInv'
  <2>1. /\ FTQ' = FTQ /\ fetchCount' = fetchCount /\ processedOps' = processedOps
        /\ fetchBuffer' = fetchBuffer /\ lastOp' = lastOp /\ next' = next /\ ops' = ops
        /\ occupied' = occupied /\ request' = request /\ responses' = responses
    BY <1>2 DEF fetchVars, ifuVars
  <2>2. GroupStarts' = GroupStarts
    BY <2>1 DEF GroupStarts
  <2>3. FType'
    BY <1>2, <2>1 DEF FType
  <2>4. OneRequest'
    BY <2>1 DEF OneRequest
  <2>5. QueuesFollow'
    <3>1. PICK x, y, z \in Int :
            Run(insnQueue', x, y) /\ Run(to_rename', y, z) /\ Run(to_decode', z, d)
      BY <1>2
    <3>2. Run(fetchBuffer', d, e) /\ Run(processedOps', e, next')
          /\ Tiled(GroupStarts', fetchCount', e, next', ops')
      BY <1>1, <2>1, <2>2
    <3> QED
      BY <3>1, <3>2 DEF QueuesFollow
  <2>6. BranchIsLast'
    <3>1. retired \in Nat /\ Len(ops) \in Nat
      BY DEF FType
    <3> SUFFICES ASSUME NEW i \in 1 .. Len(ops), ops[i].mispredict, i - 1 >= retired'
                 PROVE  i = next /\ lastOp = i - 1
      BY <2>1 DEF BranchIsLast
    <3>2. i - 1 >= retired
      BY <1>2, <3>1
    <3> QED
      BY <3>2 DEF BranchIsLast
  <2> QED
    BY <2>3, <2>4, <2>5, <2>6
<1>t. retired \in Nat /\ DecodeWidth \in Nat
  BY FrontEndAssumption DEF FType
<1>3. ASSUME NEW n \in 0 .. MaxOps, commit(n) PROVE FInv'
  <2>1. n \in Nat /\ MaxOps \in Nat
    BY FrontEndAssumption
  <2>2. retired' = n /\ n \in (IF flushStall THEN {retired} ELSE retired .. Dispatched)
    BY <1>3 DEF commit
  <2>3. retired' >= retired
    <3>1. CASE flushStall
      BY <1>t, <2>2, <3>1
    <3>2. CASE ~flushStall
      BY <1>t, <2>2, <3>2
    <3> QED
      BY <3>1, <3>2
  <2>4. /\ UNCHANGED <<fetchVars, ifuVars>>
        /\ insnQueue' = insnQueue /\ to_rename' = to_rename /\ to_decode' = to_decode
    BY <1>3 DEF commit
  <2>5. W
    BY <1>1, <2>4
  <2> HIDE DEF W
  <2> QED
    BY <1>2, <2>1, <2>2, <2>3, <2>4, <2>5
<1>4. ASSUME NEW n \in 0 .. MaxOps, dispatch(n) PROVE FInv'
  <2>1. n \in 0 .. Len(insnQueue) /\ Len(insnQueue) \in Nat
    <3>1. Len(insnQueue) \in Nat
      BY <1>1, RunEmpty
    <3> QED
      BY <1>4, <3>1 DEF dispatch
  <2>2. /\ UNCHANGED <<fetchVars, ifuVars>> /\ retired' = retired
        /\ insnQueue' = Left(insnQueue, n) /\ to_rename' = to_rename /\ to_decode' = to_decode
    BY <1>4 DEF dispatch
  <2>3. Run(Left(insnQueue, n), a + n, b) /\ a + n \in Int
    BY <1>1, <2>1, RunCut
  <2>4. W
    BY <1>1, <2>2, <2>3
  <2>5. retired' \in Nat /\ retired' >= retired
    BY <1>t, <2>2
  <2> HIDE DEF W
  <2> QED
    BY <1>2, <2>2, <2>4, <2>5
<1>5. ASSUME rename PROVE FInv'
  <2> DEFINE n == IF flushStall \/ insnQueue # <<>> THEN 0 ELSE Least(DecodeWidth, Len(to_rename))
  <2>1. n \in 0 .. Len(to_rename)
    <3>1. Len(to_rename) \in Nat
      BY <1>1, RunEmpty
    <3> QED
      BY <1>t, <3>1 DEF Least
  <2>2. /\ UNCHANGED <<fetchVars, ifuVars>> /\ retired' = retired
        /\ insnQueue' = insnQueue \o Moved(to_rename, n)
        /\ to_rename' = Left(to_rename, n) /\ to_decode' = to_decode
    BY <1>5 DEF rename
  <2> HIDE DEF n
  <2>3. Run(Moved(to_rename, n), b, b + n) /\ Run(Left(to_rename, n), b + n, c) /\ b + n \in Int
    BY <1>1, <2>1, RunCut
  <2>4. Run(insnQueue \o Moved(to_rename, n), a, b + n)
    BY <1>1, <2>3, RunJoin
  <2>5. W
    BY <1>1, <2>2, <2>3, <2>4
  <2>6. retired' \in Nat /\ retired' >= retired
    BY <1>t, <2>2
  <2> HIDE DEF W
  <2> QED
    BY <1>2, <2>2, <2>5, <2>6
<1>6. ASSUME decode PROVE FInv'
  <2> DEFINE n == IF flushStall \/ to_rename # <<>> THEN 0 ELSE Least(DecodeWidth, Len(to_decode))
  <2>1. n \in 0 .. Len(to_decode)
    <3>1. Len(to_decode) \in Nat
      BY <1>1, RunEmpty
    <3> QED
      BY <1>t, <3>1 DEF Least
  <2>2. /\ UNCHANGED <<fetchVars, ifuVars>> /\ retired' = retired
        /\ to_rename' = to_rename \o Moved(to_decode, n)
        /\ to_decode' = Left(to_decode, n) /\ insnQueue' = insnQueue
    BY <1>6 DEF decode
  <2> HIDE DEF n
  <2>3. Run(Moved(to_decode, n), c, c + n) /\ Run(Left(to_decode, n), c + n, d) /\ c + n \in Int
    BY <1>1, <2>1, RunCut
  <2>4. Run(to_rename \o Moved(to_decode, n), b, c + n)
    BY <1>1, <2>3, RunJoin
  <2>5. W
    BY <1>1, <2>2, <2>3, <2>4
  <2>6. retired' \in Nat /\ retired' >= retired
    BY <1>t, <2>2
  <2> HIDE DEF W
  <2> QED
    BY <1>2, <2>2, <2>5, <2>6
<1> QED
  BY <1>3, <1>4, <1>5, <1>6

\* fetch when no block is delivered.
LEMMA FetchOnlyKeeps ==
    ASSUME FInv, fetchOnly
    PROVE  FInv'
<1> USE DEF FInv
<1>1. PICK a, b, c, d, e \in Int :
        /\ Run(insnQueue, a, b) /\ Run(to_rename, b, c) /\ Run(to_decode, c, d)
        /\ Run(fetchBuffer, d, e) /\ Run(processedOps, e, next)
        /\ Tiled(GroupStarts, fetchCount, e, next, ops)
  BY DEF QueuesFollow
<1>2. /\ Deliver(Taken, ops, Mispredicted /\ ~Undecided) /\ lastOp' = LastAfter
      /\ to_decode = <<>> /\ next' = next /\ ops' = ops /\ to_rename' = to_rename
      /\ insnQueue' = insnQueue /\ retired' = retired
  BY DEF fetchOnly
<1>3. c = d /\ next \in Int
  BY <1>1, <1>2, RunEmpty DEF FType
<1>4. Halfway(Taken, ops, d, next)
  BY <1>1, TakenHalfway
<1>5. /\ OneRequest' /\ FTQ' \in Seq(Nat) /\ responses' = <<>> /\ request' \in Nat \cup {-1}
      /\ \E x, y \in Int : /\ Run(to_decode', d, x) /\ Run(fetchBuffer', x, y)
                           /\ Run(processedOps', y, next)
                           /\ Tiled(GroupStarts', fetchCount', y, next, ops)
  BY <1>2, <1>3, <1>4, DeliverKeeps
<1>6. QueuesFollow'
  <2>1. PICK x, y \in Int : /\ Run(to_decode', d, x) /\ Run(fetchBuffer', x, y)
                            /\ Run(processedOps', y, next)
                            /\ Tiled(GroupStarts', fetchCount', y, next, ops)
    BY <1>5
  <2>2. Run(insnQueue', a, b) /\ Run(to_rename', b, d) /\ Run(processedOps', y, next')
        /\ Tiled(GroupStarts', fetchCount', y, next', ops')
    BY <1>1, <1>2, <1>3, <2>1
  <2> QED
    BY <2>1, <2>2 DEF QueuesFollow
<1>7. FType'
  <2>1. lastOp' \in {-1, next' - 1}
    BY <1>2 DEF FType, LastAfter
  <2>2. responses' \in Seq(Nat)
    BY <1>5
  <2> QED
    BY <1>2, <1>5, <2>1, <2>2 DEF FType
<1>8. BranchIsLast'
  <2> SUFFICES ASSUME NEW i \in 1 .. Len(ops), ops[i].mispredict, i - 1 >= retired
               PROVE  i = next /\ lastOp' = i - 1
    BY <1>2 DEF BranchIsLast
  <2>1. i = next /\ lastOp = i - 1
    BY DEF BranchIsLast
  <2>2. lastOp # -1 /\ lastOp + 1 = i
    BY <2>1
  <2>3. Undecided
    BY <2>1, <2>2 DEF Undecided, Mispredicted
  <2>4. LastAfter = lastOp
    BY <2>3 DEF LastAfter
  <2> QED
    BY <1>2, <2>1, <2>4
<1> QED
  BY <1>5, <1>6, <1>7, <1>8

\* fetch when preprocess delivers a block: fetch is not held back by a branch.
LEMMA FetchBlockKeeps ==
    ASSUME FInv, NEW s \in BlockShapes, fetchBlock(s)
    PROVE  FInv'
<1> USE DEF FInv
<1> DEFINE o == ops \o BlockOps(s)  n == next + s.len
<1>1. PICK a, b, c, d, e \in Int :
        /\ Run(insnQueue, a, b) /\ Run(to_rename, b, c) /\ Run(to_decode, c, d)
        /\ Run(fetchBuffer, d, e) /\ Run(processedOps, e, next)
        /\ Tiled(GroupStarts, fetchCount, e, next, ops)
  BY DEF QueuesFollow
<1>2. /\ Deliver(AddBlock(Taken, s), o, Mispredicted /\ ~Undecided) /\ lastOp' = n - 1
      /\ to_decode = <<>> /\ next' = n /\ ops' = o /\ to_rename' = to_rename
      /\ insnQueue' = insnQueue /\ retired' = retired /\ FTQ = <<>> /\ ~Undecided
  <2>1. Deliver(AddBlock(Taken, s), o, Mispredicted /\ ~Undecided)
    BY DEF fetchBlock
  <2>2. lastOp' = n - 1 /\ next' = n /\ ops' = o
    <3>1. lastOp' = n - 1
      <4>1. lastOp' = next + s.len - 1
        BY DEF fetchBlock
      <4>2. next \in Int /\ s.len \in Int
        BY FrontEndAssumption DEF FType
      <4> QED
        BY <4>1, <4>2
    <3>2. next' = n
      BY DEF fetchBlock
    <3>3. ops' = o
      BY DEF fetchBlock
    <3> HIDE DEF n, o
    <3> QED
      BY <3>1, <3>2, <3>3
  <2>3. /\ to_decode = <<>> /\ to_rename' = to_rename /\ insnQueue' = insnQueue
        /\ retired' = retired /\ FTQ = <<>> /\ ~Undecided
    BY DEF fetchBlock
  <2> HIDE DEF n, o
  <2> QED
    BY <2>1, <2>2, <2>3
<1>3. c = d
  BY <1>1, <1>2, RunEmpty
<1>4. Halfway(Taken, ops, d, next) /\ Taken.ftq = <<>>
  BY <1>1, <1>2, TakenHalfway
<1>5. Halfway(AddBlock(Taken, s), o, d, n) /\ o \in Seq(Op) /\ Len(o) = n /\ n \in Nat
  BY <1>4, BlockHalfway
<1>6. /\ next \in Nat /\ ops \in Seq(Op) /\ Len(ops) = next /\ retired \in Nat
      /\ s.len \in Nat /\ s.len > 0
  BY FrontEndAssumption DEF FType
<1>7. \A i \in 1 .. n : /\ i <= next => o[i] = ops[i]
                        /\ o[i].mispredict /\ i > next => i = n
  <2>1. /\ BlockOps(s) \in Seq(Op) /\ Len(BlockOps(s)) = s.len
    <3>1. Tiled(GroupStarts, fetchCount, e, next, ops)
      BY <1>1
    <3> QED
      BY <1>6, <3>1, TiledBlock
  <2>2. \A i \in 1 .. s.len : BlockOps(s)[i].mispredict => i = s.len
    BY DEF BlockOps
  <2> SUFFICES ASSUME NEW i \in 1 .. n
               PROVE  /\ i <= next => o[i] = ops[i]
                      /\ o[i].mispredict /\ i > next => i = n
    OBVIOUS
  <2> DEFINE B == BlockOps(s)
  <2> HIDE DEF B
  <2>3. B \in Seq(Op) /\ Len(B) = s.len /\ \A j \in 1 .. s.len : B[j].mispredict => j = s.len
    BY <2>1, <2>2 DEF B
  <2>4. o[i] = IF i <= next THEN ops[i] ELSE B[i - next]
    <3>1. o = ops \o B
      BY DEF B
    <3> QED
      BY <1>6, <2>3, <3>1, ConcatProperties
  <2> HIDE DEF o
  <2>5. CASE i <= next
    BY <1>6, <2>4, <2>5
  <2>6. CASE ~(i <= next)
    <3>1. i - next \in 1 .. s.len /\ o[i] = B[i - next]
      BY <1>6, <2>4, <2>6
    <3>2. o[i].mispredict => i - next = s.len
      BY <2>3, <3>1
    <3> QED
      BY <1>6, <2>6, <3>2
  <2> QED
    BY <2>5, <2>6
<1> HIDE DEF o
<1>8. n \in Int /\ n = next + s.len
  BY <1>5
<1> HIDE DEF n
<1>9. /\ OneRequest' /\ FTQ' \in Seq(Nat) /\ responses' = <<>> /\ request' \in Nat \cup {-1}
      /\ \E x, y \in Int : /\ Run(to_decode', d, x) /\ Run(fetchBuffer', x, y)
                           /\ Run(processedOps', y, n)
                           /\ Tiled(GroupStarts', fetchCount', y, n, o)
  BY <1>2, <1>5, <1>8, DeliverKeeps
<1>10. QueuesFollow'
  <2>1. PICK x, y \in Int : /\ Run(to_decode', d, x) /\ Run(fetchBuffer', x, y)
                            /\ Run(processedOps', y, n)
                            /\ Tiled(GroupStarts', fetchCount', y, n, o)
    BY <1>9
  <2>2. Run(insnQueue', a, b) /\ Run(to_rename', b, d) /\ Run(processedOps', y, next')
        /\ Tiled(GroupStarts', fetchCount', y, next', ops')
    BY <1>1, <1>2, <1>3, <2>1
  <2> QED
    BY <2>1, <2>2 DEF QueuesFollow
<1>11. FType'
  <2>1. responses' \in Seq(Nat)
    BY <1>9
  <2> QED
    BY <1>2, <1>5, <1>6, <1>9, <2>1 DEF FType
<1>12. BranchIsLast'
  <2> SUFFICES ASSUME NEW i \in 1 .. n, o[i].mispredict, i - 1 >= retired
               PROVE  i = n
    BY <1>2, <1>5 DEF BranchIsLast
  <2>1. CASE i <= next
    <3>1. i \in 1 .. Len(ops) /\ ops[i].mispredict
      BY <1>6, <1>7, <2>1
    <3>2. i = next /\ lastOp = i - 1
      BY <3>1 DEF BranchIsLast
    <3>3. lastOp # -1 /\ lastOp + 1 = i
      BY <3>2
    <3>4. Undecided
      BY <3>1, <3>2, <3>3 DEF Undecided, Mispredicted
    <3> QED
      BY <1>2, <3>4
  <2>2. CASE ~(i <= next)
    BY <1>6, <1>7, <2>2
  <2> QED
    BY <2>1, <2>2
<1> QED
  BY <1>9, <1>10, <1>11, <1>12

\* The end of a cycle: an answer of L1I moves the request to responses.
LEMMA EndRunKeeps ==
    ASSUME FInv, NEW answer \in BOOLEAN, endRun(answer)
    PROVE  FInv'
<1> USE DEF FInv
<1>1. /\ FTQ' = FTQ /\ fetchCount' = fetchCount /\ processedOps' = processedOps
      /\ fetchBuffer' = fetchBuffer /\ lastOp' = lastOp /\ next' = next /\ ops' = ops
      /\ occupied' = occupied /\ retired' = retired
      /\ to_decode' = to_decode /\ to_rename' = to_rename /\ insnQueue' = insnQueue
  BY DEF endRun, pipeVars
<1>2. GroupStarts' = GroupStarts /\ OneRequest' /\ responses' \in Seq(Nat) /\ request' \in Nat \cup {-1}
  <2>1. CASE answer
    <3>1. request # -1 /\ request \in Nat /\ responses = <<>>
      BY <2>1 DEF endRun, FType, OneRequest
    <3>2. request' = -1 /\ responses' = <<request>>
      BY <2>1, <3>1 DEF endRun
    <3>3. Len(<<request>>) = 1 /\ <<request>> # <<>> /\ <<request>> \in Seq(Nat)
      BY <3>1
    <3>4. OneRequest'
      BY <1>1, <3>1, <3>2, <3>3 DEF OneRequest
    <3>5. GroupStarts' = GroupStarts
      BY <1>1, <3>1, <3>2 DEF GroupStarts
    <3> QED
      BY <3>2, <3>3, <3>4, <3>5
  <2>2. CASE ~answer
    <3>1. request' = request /\ responses' = responses
      BY <2>2 DEF endRun
    <3>2. OneRequest' /\ GroupStarts' = GroupStarts
      BY <1>1, <3>1 DEF OneRequest, GroupStarts
    <3> QED
      BY <3>1, <3>2 DEF FType
  <2> QED
    BY <2>1, <2>2
<1>3. FType'
  BY <1>1, <1>2 DEF FType
<1>4. QueuesFollow'
  BY <1>1, <1>2 DEF QueuesFollow
<1>5. BranchIsLast'
  BY <1>1 DEF BranchIsLast
<1> QED
  BY <1>2, <1>3, <1>4, <1>5

-----------------------------------------------------------------------------
(* The results.                                                            *)

LEMMA FInvInit == Init => FInv
<1> SUFFICES ASSUME Init PROVE FInv
  OBVIOUS
<1>1. FType
  BY DEF Init, FType
<1>2. OneRequest
  <2>1. occupied = FALSE /\ request = -1 /\ responses = <<>> /\ Len(<<>>) = 0
    BY DEF Init
  <2>2. ~(request # -1 \/ responses # <<>>)
    BY <2>1
  <2>3. occupied = (request # -1 \/ responses # <<>>)
    BY <2>1, <2>2
  <2>4. Len(responses) <= 1 /\ (request # -1 => responses = <<>>)
    BY <2>1
  <2> QED
    BY <2>3, <2>4 DEF OneRequest
<1>3. Run(<<>>, 0, 0)
  BY DEF Run
<1>4. GroupStarts = <<>>
  BY DEF Init, GroupStarts
<1>5. Tiled(<<>>, <<>>, 0, 0, ops)
  BY DEF Tiled
<1>6. QueuesFollow
  BY <1>3, <1>4, <1>5 DEF Init, QueuesFollow
<1>7. BranchIsLast
  BY DEF Init, BranchIsLast
<1> QED
  BY <1>1, <1>2, <1>6, <1>7 DEF FInv

\* FInv is kept by every step of the front end.
LEMMA FInvNext == FInv /\ [Next]_vars => FInv'
<1> SUFFICES ASSUME FInv, [Next]_vars PROVE FInv'
  OBVIOUS
<1>1. CASE (\E n \in 0 .. MaxOps : commit(n) \/ dispatch(n)) \/ rename \/ decode
  BY <1>1, StagesKeep
<1>u. ASSUME UNCHANGED <<fetchVars, ifuVars, pipeVars>> PROVE FInv'
  <2>1. /\ FTQ' = FTQ /\ fetchCount' = fetchCount /\ processedOps' = processedOps
        /\ fetchBuffer' = fetchBuffer /\ lastOp' = lastOp /\ next' = next /\ ops' = ops
        /\ occupied' = occupied /\ retired' = retired /\ request' = request
        /\ to_decode' = to_decode /\ to_rename' = to_rename /\ insnQueue' = insnQueue
        /\ responses' = responses
    BY <1>u DEF fetchVars, ifuVars, pipeVars
  <2>2. GroupStarts' = GroupStarts
    BY <2>1 DEF GroupStarts
  <2> QED
    BY <2>1, <2>2 DEF FInv, FType, OneRequest, QueuesFollow, BranchIsLast
<1>2. CASE fetchStalled
  BY <1>2, <1>u DEF fetchStalled
<1>3. CASE fetchOnly
  BY <1>3, FetchOnlyKeeps
<1>4. CASE \E s \in BlockShapes : fetchBlock(s)
  BY <1>4, FetchBlockKeeps
<1>5. CASE \E answer \in BOOLEAN : endRun(answer)
  BY <1>5, EndRunKeeps
<1>6. CASE UNCHANGED vars
  BY <1>6, <1>u DEF vars
<1> QED
  BY <1>1, <1>2, <1>3, <1>4, <1>5, <1>6 DEF Next

\* What the queues hold together is one stretch of the program.
LEMMA FInvOrder == FInv => FetchInOrder
<1> SUFFICES ASSUME FInv PROVE FetchInOrder
  OBVIOUS
<1> USE DEF FInv
<1>1. PICK a, b, c, d, e \in Int :
        /\ Run(insnQueue, a, b) /\ Run(to_rename, b, c) /\ Run(to_decode, c, d)
        /\ Run(fetchBuffer, d, e) /\ Run(processedOps, e, next)
        /\ Tiled(GroupStarts, fetchCount, e, next, ops)
  BY DEF QueuesFollow
<1>2. next \in Nat /\ next \in Int
  BY DEF FType
<1>3. InProgramOrder
  <2> DEFINE h2 == insnQueue \o to_rename  h3 == h2 \o to_decode  h4 == h3 \o fetchBuffer
             h == h4 \o processedOps
  <2>1. Run(h2, a, c)
    BY <1>1, RunJoin
  <2> HIDE DEF h2
  <2>2. Run(h3, a, d)
    BY <1>1, <2>1, RunJoin
  <2> HIDE DEF h3
  <2>3. Run(h4, a, e)
    BY <1>1, <2>2, RunJoin
  <2> HIDE DEF h4
  <2>4. Run(h, a, next)
    BY <1>1, <1>2, <2>3, RunJoin
  <2> HIDE DEF h
  <2> DEFINE L == Len(h)  t == [i \in 1 .. L |-> next - L + i - 1]
  <2>5. h \in Seq(Nat) /\ L = next - a /\ L \in Nat /\ \A i \in 1 .. L : h[i] = a + i - 1
    BY <2>4, LenProperties DEF Run
  <2> HIDE DEF L
  <2>6. \A i \in 1 .. L : h[i] = next - L + i - 1 /\ next - L + i - 1 \in Nat
    <3> SUFFICES ASSUME NEW i \in 1 .. L
                 PROVE  h[i] = next - L + i - 1 /\ next - L + i - 1 \in Nat
      OBVIOUS
    <3>1. h[i] = a + i - 1 /\ next - L = a
      BY <1>2, <2>5
    <3>2. h[i] \in Nat
      BY <2>5, ElementOfSeq DEF L
    <3> QED
      BY <3>1, <3>2
  <2>7. t \in Seq(Nat) /\ Len(t) = L /\ \A i \in 1 .. L : t[i] = next - L + i - 1
    <3>1. t = [i \in 1 .. L |-> next - L + i - 1]
      OBVIOUS
    <3>2. L \in Nat /\ \A i \in 1 .. L : next - L + i - 1 \in Nat
      BY <2>5, <2>6
    <3> HIDE DEF t
    <3> QED
      BY <3>1, <3>2
  <2> HIDE DEF t
  <2>8. h = t
    <3>1. Len(h) = Len(t) /\ \A i \in 1 .. Len(h) : h[i] = t[i]
      BY <2>6, <2>7 DEF L
    <3> QED
      BY <2>5, <2>7, <3>1, SeqEqual
  <2> QED
    BY <2>8 DEF InProgramOrder, h, h2, h3, h4, t, L
<1>4. GroupsInStep
  <2> DEFINE N == Len(fetchCount)
  <2>1. (processedOps = <<>> <=> e = next) /\ (processedOps # <<>> => Head(processedOps) = e)
    BY <1>1, <1>2, RunEmpty
  <2>2. Len(GroupStarts) = N /\ (N = 0 <=> e = next) /\ (N > 0 => GroupStarts[1] = e) /\ N \in Nat
    BY <1>1, LenProperties DEF Tiled
  <2>3. ASSUME NEW g \in 1 .. N
        PROVE  /\ fetchCount[g] > 0
               /\ GroupStarts[g] + fetchCount[g] = IF g < N THEN GroupStarts[g + 1] ELSE next
               /\ LineOf(GroupStarts[g] + fetchCount[g] - 1) = LineOf(GroupStarts[g])
    <3>1. /\ fetchCount[g] > 0
          /\ GroupStarts[g] + fetchCount[g] = IF g < N THEN GroupStarts[g + 1] ELSE next
          /\ Line(ops[GroupStarts[g] + fetchCount[g]].uid) = Line(ops[GroupStarts[g] + 1].uid)
      BY <1>1 DEF Tiled
    <3>2. GroupStarts[g] \in Nat /\ fetchCount[g] \in Nat
      BY <1>1, <1>2, TiledFacts
    <3>3. (GroupStarts[g] + fetchCount[g] - 1) + 1 = GroupStarts[g] + fetchCount[g]
      BY <3>2
    <3> QED
      BY <3>1, <3>3 DEF LineOf
  <2>4. N > 0 => GroupStarts[1] = Head(processedOps)
    BY <2>1, <2>2
  <2>5. N = 0 <=> processedOps = <<>>
    BY <2>1, <2>2
  <2> QED
    BY <2>2, <2>3, <2>4, <2>5 DEF GroupsInStep, OneRequest
<1>5. BranchHoldsFetch
  BY DEF BranchHoldsFetch, BranchIsLast
<1> QED
  BY <1>3, <1>4, <1>5 DEF FetchInOrder

\* Core::fetch and the IFU deliver the program: at every moment the queues from
\* preprocess to the back end hold consecutive instructions up to the youngest,
\* FTQ, fetchCount and processedOps describe the same groups of one cache line
\* each, and a mispredicted branch that has not retired is the youngest
\* instruction; for every line size, fetch and decode width and flush penalty,
\* whatever blocks the program consists of.
THEOREM FetchesInOrder == Spec => []FetchInOrder
<1>1. Init => FInv
  BY FInvInit
<1>2. FInv /\ [Next]_vars => FInv'
  BY FInvNext
<1>3. FInv => FetchInOrder
  BY FInvOrder
<1> QED
  BY <1>1, <1>2, <1>3, PTL DEF Spec
=============================================================================
