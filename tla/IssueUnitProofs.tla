---------------------------- MODULE IssueUnitProofs ----------------------------
(***************************************************************************)
(* Proof that ports and functional units go to one instruction at a time   *)
(* and come back, for every set of ports, units and instruction templates. *)
(*                                                                         *)
(* The search for units (TryAll) is shown to return only free units, of    *)
(* kinds the template asks for and that are held at all, whatever          *)
(* alternatives failed before; the search for ports (scheduleUops) to      *)
(* return different ports that no stall blocks.                            *)
(***************************************************************************)
EXTENDS IssueUnit, TLAPS, SequenceTheorems, FiniteSetTheorems, WellFoundedInduction

\* The units an instruction can hold.
Holdable == {u \in Units : FU(u) \in NotPipelined}

\* The kinds of units a template asks for.
Kinds(t) == UNION {Elems(t.fus[a]) : a \in 1 .. Len(t.fus)}

\* What the queue holds waits, and is there once.
QueueWaits ==
    /\ issueQueue \in Seq(1 .. Len(ops))
    /\ \A j \in 1 .. Len(issueQueue) : state[issueQueue[j]] = "queued"
    /\ \A j, h \in 1 .. Len(issueQueue) : j # h => issueQueue[j] # issueQueue[h]

\* Nothing happens to an instruction before it is dispatched.
NotYet == \A o \in Ops : o > Len(ops) => state[o] = "none"

\* A port is blocked exactly as long as the instruction that was given it.
ClaimsBlock ==
    ~naive => \A c \in claims : /\ c \in [op : Ops, port : Ports, left : Nat \ {0}]
                                /\ release[c.port] = c.left

IssueType ==
    /\ ops \in Seq(Templates) /\ Len(ops) <= MaxOps
    /\ iter \in Nat \ {0}
    /\ state \in [Ops -> {"none", "queued", "running", "finished", "retired"}]
    /\ using \in [Ops -> SUBSET Holdable]
    /\ release \in [Ports -> Nat]

UInv == /\ IssueType /\ QueueWaits /\ NotYet /\ ClaimsBlock
        /\ UnitsAccountedFor /\ OneInsnPerPort

-----------------------------------------------------------------------------
(***************************************************************************)
(* Numbers, sequences and functions defined by recursion.                  *)
(***************************************************************************)

\* A set of naturals that is not empty has a least member, which First finds.
LEMMA FirstIs ==
    ASSUME NEW S \in SUBSET Nat, S # {}
    PROVE  First(S) \in S /\ \A m \in S : First(S) <= m
<1> DEFINE R == OpToRel(<, Nat)
<1>1. IsWellFoundedOn(R, Nat)
  BY NatLessThanWellFounded, Zenon
<1>2. \A x, y \in Nat : <<y, x>> \in R <=> y < x
  BY DEF OpToRel
<1> HIDE DEF R
<1>3. PICK x \in S : \A y \in S : ~(<<y, x>> \in R)
  BY <1>1, WFMin
<1>4. \A y \in S : x \in Nat /\ y \in Nat /\ ~(y < x)
  BY <1>2, <1>3
<1>5. \A y \in S : x <= y
  BY <1>4
<1> QED
  BY <1>5 DEF First

\* Induction, as a fact about sets.
LEMMA UpFromZero ==
    ASSUME NEW S \in SUBSET Nat, 0 \in S, \A n \in S : n + 1 \in S
    PROVE  S = Nat
<1> SUFFICES ASSUME Nat \ S # {} PROVE FALSE
  OBVIOUS
<1> DEFINE x == First(Nat \ S)
<1>1. x \in Nat \ S /\ \A y \in Nat \ S : x <= y
  BY FirstIs
<1> HIDE DEF x
<1>2. x # 0 /\ x - 1 \in Nat /\ ~(x <= x - 1)
  BY <1>1
<1>3. x - 1 \in S
  BY <1>1, <1>2
<1>4. (x - 1) + 1 \in S
  BY <1>3
<1> QED
  BY <1>1, <1>4

\* What a function on 0 .. L defined from step by recursion satisfies.
Table(L, x0, step, g) ==
    g = [n \in 0 .. L |-> IF n = 0 THEN x0 ELSE step[n][g[n - 1]]]

\* There is such a function.
LEMMA TableExists ==
    ASSUME NEW S, NEW x0 \in S, NEW L \in Nat, NEW step \in [1 .. L -> [S -> S]]
    PROVE  \E g : Table(L, x0, step, g)
<1> DEFINE G(n) == {g \in [0 .. n -> S] :
                        g[0] = x0 /\ \A m \in 1 .. n : g[m] = step[m][g[m - 1]]}
           N == {n \in Nat : n <= L => G(n) # {}}
<1>1. 0 \in N
  <2>1. [n \in 0 .. 0 |-> x0] \in G(0)
    OBVIOUS
  <2> QED
    BY <2>1
<1>2. ASSUME NEW n \in N PROVE n + 1 \in N
  <2> SUFFICES ASSUME n + 1 <= L PROVE G(n + 1) # {}
    <3> HIDE DEF G
    <3> QED
      OBVIOUS
  <2>1. n \in Nat /\ n <= L /\ n + 1 \in 1 .. L
    OBVIOUS
  <2>2. PICK g \in G(n) : TRUE
    BY <2>1
  <2> DEFINE v == step[n + 1][g[n]]
             h == [m \in 0 .. n + 1 |-> IF m = n + 1 THEN v ELSE g[m]]
  <2>3. v \in S
    <3>1. g[n] \in S /\ step[n + 1] \in [S -> S]
      BY <2>1, <2>2
    <3> QED
      BY <3>1
  <2> HIDE DEF v
  <2>4. h \in [0 .. n + 1 -> S] /\ h[0] = x0
    BY <2>1, <2>2, <2>3
  <2>5. ASSUME NEW m \in 1 .. n + 1 PROVE h[m] = step[m][h[m - 1]]
    <3>1. CASE m = n + 1
      <4>1. h[m] = v /\ h[m - 1] = g[n]
        BY <2>1, <3>1
      <4> QED
        BY <4>1, <3>1 DEF v
    <3>2. CASE m # n + 1
      <4>1. m \in 1 .. n /\ h[m] = g[m] /\ h[m - 1] = g[m - 1]
        BY <2>1, <3>2
      <4> QED
        BY <2>2, <4>1
    <3> QED
      BY <3>1, <3>2
  <2> QED
    BY <2>4, <2>5
<1>3. N = Nat
  <2> HIDE DEF N
  <2> SUFFICES N \in SUBSET Nat
    BY <1>1, <1>2, UpFromZero
  <2> QED
    BY DEF N
<1>4. PICK g \in G(L) : TRUE
  <2> HIDE DEF G
  <2>1. L \in N
    BY <1>3
  <2> QED
    BY <2>1
<1>5. \A n \in 0 .. L : g[n] = IF n = 0 THEN x0 ELSE step[n][g[n - 1]]
  <2> TAKE n \in 0 .. L
  <2>1. n = 0 \/ n \in 1 .. L
    OBVIOUS
  <2> QED
    BY <1>4, <2>1
<1>6. g = [n \in 0 .. L |-> g[n]]
  BY <1>4
<1> QED
  BY <1>5, <1>6 DEF Table

\* Induction up to L, as a fact about the values of a function.
LEMMA StaysIn ==
    ASSUME NEW S, NEW L \in Nat, NEW g, g[0] \in S,
           \A n \in 1 .. L : g[n - 1] \in S => g[n] \in S
    PROVE  \A n \in 0 .. L : g[n] \in S
<1> DEFINE M == {n \in Nat : n <= L => g[n] \in S}
<1>1. 0 \in M
  OBVIOUS
<1>2. ASSUME NEW n \in M PROVE n + 1 \in M
  <2> SUFFICES ASSUME n + 1 <= L PROVE g[n + 1] \in S
    OBVIOUS
  <2>1. n \in Nat /\ n + 1 \in 1 .. L /\ (n + 1) - 1 = n /\ g[n] \in S
    OBVIOUS
  <2> QED
    BY <2>1
<1>3. M = Nat
  <2> HIDE DEF M
  <2> SUFFICES M \in SUBSET Nat
    BY <1>1, <1>2, UpFromZero
  <2> QED
    BY DEF M
<1> QED
  BY <1>3

-----------------------------------------------------------------------------
(***************************************************************************)
(* The search for units.                                                   *)
(***************************************************************************)

\* The units an instruction of template t can be given now.
Free(t) == {u \in Holdable \ fuUsage : FU(u) \in Kinds(t)}

\* What the search can have found when it started with the ports X taken.
Outcomes(t, X) == [ok : BOOLEAN, units : SUBSET Free(t), taken : SUBSET (Ports \cup X)]

\* getAvailablePort finds a unit when there is one.
LEMMA AvailableIs ==
    ASSUME NEW f, NEW t, NEW ws, Len(ws) \in Nat, NEW taken,
           AvailableUnits(f, t, ws, taken) # {}
    PROVE  /\ getAvailablePort(f, t, ws, taken) \in Units \ fuUsage
           /\ FU(getAvailablePort(f, t, ws, taken)) = f
<1> DEFINE av == AvailableUnits(f, t, ws, taken)
           J == {j \in 1 .. Len(ws) : \E u \in av : u[1] = ws[j]}
           j0 == First(J)
           I == {i \in 1 .. 8 : <<ws[j0], i>> \in av}
<1>1. \A u \in av : /\ u \in Units \ fuUsage /\ FU(u) = f
                    /\ \E j \in 1 .. Len(ws), i \in 1 .. 8 : u = <<ws[j], i>>
  BY DEF AvailableUnits
<1>2. getAvailablePort(f, t, ws, taken) = <<ws[j0], First(I)>>
  BY DEF getAvailablePort
<1> HIDE DEF av
<1>3. J # {} /\ J \in SUBSET Nat
  <2>1. PICK u \in av : TRUE
    BY DEF av
  <2>2. PICK j \in 1 .. Len(ws), i \in 1 .. 8 : u = <<ws[j], i>>
    BY <1>1, <2>1
  <2>3. j \in J
    BY <2>1, <2>2
  <2> QED
    BY <2>3
<1>4. j0 \in J
  <2> HIDE DEF J
  <2> QED
    BY <1>3, FirstIs
<1> HIDE DEF j0
<1>5. I # {} /\ I \in SUBSET Nat
  <2>1. PICK u \in av : u[1] = ws[j0]
    BY <1>4
  <2>2. PICK j \in 1 .. Len(ws), i \in 1 .. 8 : u = <<ws[j], i>>
    BY <1>1, <2>1
  <2>3. <<ws[j0], i>> \in av
    BY <2>1, <2>2
  <2>4. i \in I
    BY <2>3
  <2>5. \A x \in I : x \in Nat
    OBVIOUS
  <2> HIDE DEF I
  <2> QED
    BY <2>4, <2>5
<1>6. First(I) \in I
  <2> HIDE DEF I
  <2> QED
    BY <1>5, FirstIs
<1>7. <<ws[j0], First(I)>> \in av
  BY <1>6
<1> QED
  BY <1>1, <1>2, <1>7

\* One more unit is a free one of a kind the template asks for.
LEMMA TryUnitStays ==
    ASSUME NEW t, NEW X, NEW try \in Outcomes(t, X), NEW f \in Kinds(t),
           NEW ws, Len(ws) \in Nat
    PROVE  TryUnit(try, f, t, ws) \in Outcomes(t, X)
<1>1. try.units \in SUBSET Free(t) /\ try.taken \in SUBSET (Ports \cup X)
  BY DEF Outcomes
<1>2. CASE try.ok /\ AvailableUnits(f, t, ws, try.taken) # {}
  <2> DEFINE u == getAvailablePort(f, t, ws, try.taken)
             new == try.units \cup (IF f \in NotPipelined THEN {u} ELSE {})
  <2>1. u \in Units \ fuUsage /\ FU(u) = f
    BY <1>2, AvailableIs
  <2>2. TryUnit(try, f, t, ws) = [ok |-> TRUE, units |-> new, taken |-> try.taken \cup {u[1]}]
    BY <1>2 DEF TryUnit
  <2> HIDE DEF u
  <2>3. u[1] \in Ports
    BY <2>1 DEF Units
  <2>4. f \in NotPipelined => u \in Free(t)
    BY <2>1 DEF Free, Holdable
  <2>5. new \in SUBSET Free(t)
    BY <1>1, <2>4
  <2>6. try.taken \cup {u[1]} \in SUBSET (Ports \cup X)
    BY <1>1, <2>3
  <2> QED
    BY <2>2, <2>5, <2>6 DEF Outcomes
<1>3. CASE ~(try.ok /\ AvailableUnits(f, t, ws, try.taken) # {})
  <2>1. TryUnit(try, f, t, ws) = [try EXCEPT !.ok = FALSE]
    BY <1>3 DEF TryUnit
  <2> QED
    BY <2>1 DEF Outcomes
<1> QED
  BY <1>2, <1>3

\* Nor does a whole alternative find others.
LEMMA TryAlternativeStays ==
    ASSUME NEW t, NEW X, NEW start \in Outcomes(t, X), NEW s \in Seq(Kinds(t)),
           NEW ws, Len(ws) \in Nat
    PROVE  TryAlternative(start, s, t, ws) \in Outcomes(t, X)
<1> DEFINE L == Len(s)
           Next1(P, n) == {TryUnit(try, s[n], t, ws) : try \in P}
           F(f) == [n \in 0 .. L |-> IF n = 0 THEN {start} ELSE Next1(f[n - 1], n)]
           S == (SUBSET Outcomes(t, X)) \ {{}}
           step == [n \in 1 .. L |-> [P \in S |-> Next1(P, n)]]
<1>1. L \in Nat /\ \A n \in 1 .. L : s[n] \in Kinds(t)
  BY ElementOfSeq
<1>2. {start} \in S
  OBVIOUS
<1>3. \A n \in 1 .. L : \A P \in S : Next1(P, n) \in S
  <2> SUFFICES ASSUME NEW n \in 1 .. L, NEW P \in S
               PROVE  Next1(P, n) \in S
    OBVIOUS
  <2>1. \A try \in P : TryUnit(try, s[n], t, ws) \in Outcomes(t, X)
    BY <1>1, TryUnitStays
  <2> QED
    BY <2>1
<1>4. TryAlternative(start, s, t, ws) = CHOOSE try \in (CHOOSE f : f = F(f))[L] : TRUE
  BY DEF TryAlternative
<1> HIDE DEF Next1, S, L
<1>5. step \in [1 .. L -> [S -> S]]
  BY <1>3
<1>6. PICK g : Table(L, {start}, step, g)
  <2> HIDE DEF step
  <2> QED
    BY <1>1, <1>2, <1>5, TableExists
<1>7. g[0] = {start} /\ \A n \in 1 .. L : g[n] = step[n][g[n - 1]]
  <2> HIDE DEF step
  <2>1. 0 \in 0 .. L /\ \A n \in 1 .. L : n \in 0 .. L /\ n # 0
    BY <1>1
  <2> QED
    BY <1>6, <2>1 DEF Table
<1>8. \A n \in 0 .. L : g[n] \in S
  <2>1. \A n \in 1 .. L : g[n - 1] \in S => g[n] \in S
    BY <1>3, <1>7
  <2> HIDE DEF step
  <2> QED
    BY <1>1, <1>2, <1>7, <2>1, StaysIn
<1>9. g = F(g)
  <2>1. \A n \in 0 .. L : n # 0 => n \in 1 .. L /\ n - 1 \in 0 .. L
    BY <1>1
  <2>2. \A n \in 0 .. L : n # 0 => g[n] = Next1(g[n - 1], n)
    BY <1>7, <1>8, <2>1
  <2>3. g = [n \in 0 .. L |-> g[n]]
    <3> HIDE DEF step
    <3> QED
      BY <1>6 DEF Table
  <2>4. \A n \in 0 .. L : g[n] = IF n = 0 THEN {start} ELSE Next1(g[n - 1], n)
    BY <1>7, <2>2
  <2> HIDE DEF step
  <2> QED
    BY <2>3, <2>4
<1> DEFINE f == CHOOSE f : f = F(f)
<1>10. f = F(f)
  BY <1>9
<1>11. TryAlternative(start, s, t, ws) = CHOOSE try \in f[L] : TRUE
  BY <1>4
<1> HIDE DEF f
<1>12. f[0] = {start} /\ \A n \in 1 .. L : f[n] = Next1(f[n - 1], n)
  <2>1. F(f)[0] = {start} /\ \A n \in 1 .. L : F(f)[n] = Next1(f[n - 1], n)
    BY <1>1
  <2> HIDE DEF F
  <2> QED
    BY <1>10, <2>1
<1> HIDE DEF F
<1>13. \A n \in 0 .. L : f[n] \in S
  <2>1. \A n \in 1 .. L : f[n - 1] \in S => f[n] \in S
    BY <1>3, <1>12
  <2> QED
    BY <1>1, <1>2, <1>12, <2>1, StaysIn
<1>14. f[L] \in S
  BY <1>1, <1>13
<1> QED
  BY <1>11, <1>14 DEF S

\* The whole search finds only free units of the kinds asked for, also with
\* what failed alternatives have left behind.
LEMMA TryAllStays ==
    ASSUME NEW t \in Templates, NEW ws, Len(ws) \in Nat, NEW X
    PROVE  TryAll(t, ws, X) \subseteq Outcomes(t, X)
<1> DEFINE L == Len(t.fus)
           none == [ok |-> FALSE, units |-> {}, taken |-> X]
           Start(try) == [(IF naive THEN none ELSE try) EXCEPT !.ok = TRUE]
           After(try, fus) == IF try.ok THEN {try}
                              ELSE {TryAlternative(Start(try), s, t, ws) : s \in sortFUs(fus)}
           Next1(P, a) == UNION {After(try, t.fus[a]) : try \in P}
           F(f) == [a \in 0 .. L |-> IF a = 0 THEN {none} ELSE Next1(f[a - 1], a)]
           S == SUBSET Outcomes(t, X)
           step == [a \in 1 .. L |-> [P \in S |-> Next1(P, a)]]
<1>1. L \in Nat /\ \A a \in 1 .. L : Len(t.fus[a]) \in Nat
  BY TemplatesAssumption
<1>2. none \in Outcomes(t, X) /\ {none} \in S
  BY DEF Outcomes
<1>3. ASSUME NEW try \in Outcomes(t, X)
      PROVE  Start(try) \in Outcomes(t, X)
  <2> DEFINE base == IF naive THEN none ELSE try
  <2>1. base \in Outcomes(t, X)
    BY <1>2
  <2> HIDE DEF base
  <2>2. [base EXCEPT !.ok = TRUE] \in Outcomes(t, X)
    BY <2>1 DEF Outcomes
  <2> QED
    BY <2>2 DEF base
<1>4. ASSUME NEW a \in 1 .. L, NEW s \in sortFUs(t.fus[a])
      PROVE  s \in Seq(Kinds(t))
  <2>1. s \in [1 .. Len(t.fus[a]) -> Elems(t.fus[a])]
    BY DEF sortFUs
  <2>2. Elems(t.fus[a]) \subseteq Kinds(t)
    BY DEF Kinds
  <2>3. s \in [1 .. Len(t.fus[a]) -> Kinds(t)]
    BY <2>1, <2>2
  <2> QED
    BY <1>1, <2>3
<1>5. ASSUME NEW a \in 1 .. L, NEW try \in Outcomes(t, X)
      PROVE  After(try, t.fus[a]) \subseteq Outcomes(t, X)
  <2> HIDE DEF Start
  <2>1. \A s \in sortFUs(t.fus[a]) : TryAlternative(Start(try), s, t, ws) \in Outcomes(t, X)
    BY <1>3, <1>4, TryAlternativeStays
  <2> QED
    BY <2>1
<1>6. TryAll(t, ws, X) = (CHOOSE f : f = F(f))[L]
  BY DEF TryAll
<1> HIDE DEF After
<1>7. \A a \in 1 .. L : \A P \in S : Next1(P, a) \in S
  BY <1>5
<1> HIDE DEF Next1, S, L, none
<1>8. step \in [1 .. L -> [S -> S]]
  BY <1>7
<1>9. PICK g : Table(L, {none}, step, g)
  <2> HIDE DEF step
  <2> QED
    BY <1>1, <1>2, <1>8, TableExists
<1>10. g[0] = {none} /\ \A a \in 1 .. L : g[a] = step[a][g[a - 1]]
  <2> HIDE DEF step
  <2>1. 0 \in 0 .. L /\ \A a \in 1 .. L : a \in 0 .. L /\ a # 0
    BY <1>1
  <2> QED
    BY <1>9, <2>1 DEF Table
<1>11. \A a \in 0 .. L : g[a] \in S
  <2>1. \A a \in 1 .. L : g[a - 1] \in S => g[a] \in S
    BY <1>7, <1>10
  <2> HIDE DEF step
  <2> QED
    BY <1>1, <1>2, <1>10, <2>1, StaysIn
<1>12. g = F(g)
  <2>1. \A a \in 0 .. L : a # 0 => a \in 1 .. L /\ a - 1 \in 0 .. L
    BY <1>1
  <2>2. \A a \in 0 .. L : a # 0 => g[a] = Next1(g[a - 1], a)
    BY <1>10, <1>11, <2>1
  <2>3. g = [a \in 0 .. L |-> g[a]]
    <3> HIDE DEF step
    <3> QED
      BY <1>9 DEF Table
  <2>4. \A a \in 0 .. L : g[a] = IF a = 0 THEN {none} ELSE Next1(g[a - 1], a)
    BY <1>10, <2>2
  <2> HIDE DEF step
  <2> QED
    BY <2>3, <2>4
<1> DEFINE f == CHOOSE f : f = F(f)
<1>13. f = F(f)
  BY <1>12
<1>14. TryAll(t, ws, X) = f[L]
  BY <1>6
<1> HIDE DEF f
<1>15. f[0] = {none} /\ \A a \in 1 .. L : f[a] = Next1(f[a - 1], a)
  <2>1. F(f)[0] = {none} /\ \A a \in 1 .. L : F(f)[a] = Next1(f[a - 1], a)
    BY <1>1
  <2> HIDE DEF F
  <2> QED
    BY <1>13, <2>1
<1> HIDE DEF F
<1>16. \A a \in 0 .. L : f[a] \in S
  <2>1. \A a \in 1 .. L : f[a - 1] \in S => f[a] \in S
    BY <1>7, <1>15
  <2> QED
    BY <1>1, <1>2, <1>15, <2>1, StaysIn
<1>17. f[L] \in S
  BY <1>1, <1>16
<1> QED
  BY <1>14, <1>17 DEF S

-----------------------------------------------------------------------------
(***************************************************************************)
(* The search for ports.                                                   *)
(***************************************************************************)

\* The ports no stall blocks.
Unblocked == {p \in Ports : release[p] = 0}

\* Sequences of different unblocked ports.
Chosen == {w \in Seq(Unblocked) : \A m, n \in 1 .. Len(w) : m # n => w[m] # w[n]}

\* scheduleUops gives a port to every uop or to none, no port twice and none
\* that is blocked.
LEMMA ScheduleIs ==
    ASSUME NEW t \in Templates
    PROVE  /\ scheduleUops(t) \in Chosen
           /\ scheduleUops(t) # <<>> => Len(scheduleUops(t)) = Len(t.uops)
<1> DEFINE L == Len(t.uops)
           ports(n) == t.uops[n].ports
           free(v, n) == {j \in 1 .. Len(ports(n)) :
                            /\ ports(n)[j] \notin Elems(v) \cup Elems(occupied)
                            /\ release[ports(n)[j]] = 0}
           Next1(v, n) == IF free(v, n) = {} THEN v ELSE Append(v, ports(n)[First(free(v, n))])
           F(f) == [n \in 0 .. L |-> IF n = 0 THEN <<>> ELSE Next1(f[n - 1], n)]
           step == [n \in 1 .. L |-> [v \in Chosen |-> Next1(v, n)]]
<1>1. L \in Nat /\ \A n \in 1 .. L : Len(ports(n)) \in Nat /\ Elems(ports(n)) \subseteq Ports
  BY TemplatesAssumption
<1>2. <<>> \in Chosen
  BY DEF Chosen
<1>3. ASSUME NEW n \in 1 .. L, NEW v \in Chosen
      PROVE  Next1(v, n) \in Chosen
  <2>1. CASE free(v, n) = {}
    BY <2>1
  <2>2. CASE free(v, n) # {}
    <3> DEFINE j == First(free(v, n))
               p == ports(n)[j]
    <3>1. free(v, n) \in SUBSET Nat
      BY <1>1
    <3>2. j \in free(v, n)
      <4> HIDE DEF free
      <4> QED
        BY <2>2, <3>1, FirstIs
    <3>3. j \in 1 .. Len(ports(n)) /\ p \notin Elems(v) /\ release[p] = 0
      BY <3>2
    <3>4. p \in Unblocked
      <4>1. p \in Elems(ports(n))
        BY <3>3 DEF Elems
      <4> QED
        BY <4>1, <3>3, <1>1 DEF Unblocked
    <3>5. Next1(v, n) = Append(v, p)
      BY <2>2
    <3> HIDE DEF j, p, free
    <3>6. /\ Len(v) \in Nat /\ v \in Seq(Unblocked) /\ Append(v, p) \in Seq(Unblocked)
          /\ Len(Append(v, p)) = Len(v) + 1 /\ Append(v, p)[Len(v) + 1] = p
          /\ \A m \in 1 .. Len(v) : Append(v, p)[m] = v[m]
      BY <3>4, AppendProperties DEF Chosen
    <3>7. \A m \in 1 .. Len(v) : v[m] # p
      BY <3>3 DEF Elems
    <3>8. \A m, h \in 1 .. Len(v) : m # h => v[m] # v[h]
      BY DEF Chosen
    <3>9. ASSUME NEW m \in 1 .. Len(v) + 1, NEW h \in 1 .. Len(v) + 1, m # h
          PROVE  Append(v, p)[m] # Append(v, p)[h]
      <4>1. (m \in 1 .. Len(v) \/ m = Len(v) + 1) /\ (h \in 1 .. Len(v) \/ h = Len(v) + 1)
        BY <3>6
      <4> QED
        BY <4>1, <3>6, <3>7, <3>8, <3>9
    <3>10. Append(v, p) \in Chosen
      BY <3>6, <3>9 DEF Chosen
    <3> QED
      BY <3>5, <3>10
  <2> QED
    BY <2>1, <2>2
<1> DEFINE w == CHOOSE f : f = F(f)
<1>4. scheduleUops(t) = IF Len(w[L]) = L THEN w[L] ELSE <<>>
  BY DEF scheduleUops
<1> HIDE DEF Next1, L, w
<1>5. step \in [1 .. L -> [Chosen -> Chosen]]
  BY <1>3
<1>6. PICK g : Table(L, <<>>, step, g)
  <2> HIDE DEF step
  <2> QED
    BY <1>1, <1>2, <1>5, TableExists
<1>7. g[0] = <<>> /\ \A n \in 1 .. L : g[n] = step[n][g[n - 1]]
  <2> HIDE DEF step
  <2>1. 0 \in 0 .. L /\ \A n \in 1 .. L : n \in 0 .. L /\ n # 0
    BY <1>1
  <2> QED
    BY <1>6, <2>1 DEF Table
<1>8. \A n \in 0 .. L : g[n] \in Chosen
  <2>1. \A n \in 1 .. L : g[n - 1] \in Chosen => g[n] \in Chosen
    BY <1>3, <1>7
  <2> HIDE DEF step
  <2> QED
    BY <1>1, <1>2, <1>7, <2>1, StaysIn
<1>9. g = F(g)
  <2>1. \A n \in 0 .. L : n # 0 => n \in 1 .. L /\ n - 1 \in 0 .. L
    BY <1>1
  <2>2. \A n \in 0 .. L : n # 0 => g[n] = Next1(g[n - 1], n)
    BY <1>7, <1>8, <2>1
  <2>3. g = [n \in 0 .. L |-> g[n]]
    <3> HIDE DEF step
    <3> QED
      BY <1>6 DEF Table
  <2>4. \A n \in 0 .. L : g[n] = IF n = 0 THEN <<>> ELSE Next1(g[n - 1], n)
    BY <1>7, <2>2
  <2> HIDE DEF step
  <2> QED
    BY <2>3, <2>4
<1>10. w = F(w)
  BY <1>9 DEF w
<1>11. w[0] = <<>> /\ \A n \in 1 .. L : w[n] = Next1(w[n - 1], n)
  <2>1. F(w)[0] = <<>> /\ \A n \in 1 .. L : F(w)[n] = Next1(w[n - 1], n)
    BY <1>1
  <2> HIDE DEF F
  <2> QED
    BY <1>10, <2>1
<1> HIDE DEF F
<1>12. \A n \in 0 .. L : w[n] \in Chosen
  <2>1. \A n \in 1 .. L : w[n - 1] \in Chosen => w[n] \in Chosen
    BY <1>3, <1>11
  <2> QED
    BY <1>1, <1>2, <1>11, <2>1, StaysIn
<1>13. w[L] \in Chosen
  BY <1>1, <1>12
<1> QED
  BY <1>2, <1>4, <1>13 DEF L

-----------------------------------------------------------------------------
(***************************************************************************)
(* Counting units, and taking an instruction out of the queue.             *)
(***************************************************************************)

OfKind(S, f) == {u \in S : FU(u) = f}

\* There are finitely many units.
LEMMA UnitsFinite == IsFiniteSet(Units)
<1>1. IsFiniteSet(Ports) /\ IsFiniteSet(1 .. 8)
  <2>1. 1 \in Int /\ 8 \in Int /\ Len(PortFUs) \in Int
    BY TemplatesAssumption
  <2>2. IsFiniteSet(1 .. Len(PortFUs)) /\ IsFiniteSet(1 .. 8)
    BY <2>1, FS_Interval
  <2> QED
    BY <2>2 DEF Ports
<1>2. IsFiniteSet(Ports \X (1 .. 8))
  BY <1>1, FS_Product
<1>3. Units \in SUBSET (Ports \X (1 .. 8))
  BY DEF Units
<1> QED
  BY <1>2, <1>3, FS_Subset

\* The units of one kind, counted in two parts.
LEMMA CountParts ==
    ASSUME NEW A \in SUBSET Units, NEW B \in SUBSET A, NEW f
    PROVE  /\ Cardinality(OfKind(A, f)) \in Nat
           /\ Cardinality(OfKind(B, f)) \in Nat
           /\ Cardinality(OfKind(A \ B, f)) = Cardinality(OfKind(A, f)) - Cardinality(OfKind(B, f))
<1>1. OfKind(A, f) \in SUBSET Units /\ OfKind(B, f) \in SUBSET Units
  BY DEF OfKind
<1>2. IsFiniteSet(OfKind(A, f)) /\ IsFiniteSet(OfKind(B, f))
  BY <1>1, UnitsFinite, FS_Subset
<1>3. OfKind(A \ B, f) = OfKind(A, f) \ OfKind(B, f) /\ OfKind(A, f) \cap OfKind(B, f) = OfKind(B, f)
  BY DEF OfKind
<1>4. Cardinality(OfKind(A, f)) \in Nat /\ Cardinality(OfKind(B, f)) \in Nat
  BY <1>2, FS_CardinalityType
<1> DEFINE S == OfKind(A, f)  T == OfKind(B, f)
<1>5. IsFiniteSet(S) /\ S \cap T = T
  BY <1>2, <1>3
<1> HIDE DEF S, T
<1>6. Cardinality(S \ T) = Cardinality(S) - Cardinality(T)
  BY <1>5, FS_Difference
<1> QED
  BY <1>3, <1>4, <1>6 DEF S, T

\* The queue without its i-th instruction.
Without(s, i) == SubSeq(s, 1, i - 1) \o SubSeq(s, i + 1, Len(s))

\* What erasing the i-th instruction leaves, and where.
LEMMA WithoutIs ==
    ASSUME NEW X, NEW s \in Seq(X), NEW i \in 1 .. Len(s)
    PROVE  /\ Without(s, i) \in Seq(X) /\ Len(Without(s, i)) = Len(s) - 1
           /\ \A j \in 1 .. Len(s) - 1 : Without(s, i)[j] = s[IF j < i THEN j ELSE j + 1]
<1> DEFINE a == SubSeq(s, 1, i - 1)
           b == SubSeq(s, i + 1, Len(s))
           r == Without(s, i)
<1>1. Len(s) \in Nat /\ i \in Nat /\ \A j \in 1 .. Len(s) : s[j] \in X
  BY ElementOfSeq
<1>2. a \in Seq(X) /\ Len(a) = i - 1 /\ \A j \in 1 .. i - 1 : a[j] = s[j]
  <2>1. a \in Seq(X) /\ Len(a) = (IF 1 <= i - 1 THEN (i - 1) - 1 + 1 ELSE 0)
        /\ \A j \in 1 .. (i - 1) - 1 + 1 : a[j] = s[1 + j - 1]
    BY <1>1, SubSeqProperties
  <2>2. (IF 1 <= i - 1 THEN (i - 1) - 1 + 1 ELSE 0) = i - 1 /\ (i - 1) - 1 + 1 = i - 1
        /\ \A j \in 1 .. i - 1 : 1 + j - 1 = j
    BY <1>1
  <2> QED
    BY <2>1, <2>2
<1>3. b \in Seq(X) /\ Len(b) = Len(s) - i /\ \A j \in 1 .. Len(s) - i : b[j] = s[i + j]
  <2>1. b \in Seq(X) /\ Len(b) = (IF i + 1 <= Len(s) THEN Len(s) - (i + 1) + 1 ELSE 0)
        /\ \A j \in 1 .. Len(s) - (i + 1) + 1 : b[j] = s[(i + 1) + j - 1]
    BY <1>1, SubSeqProperties
  <2>2. (IF i + 1 <= Len(s) THEN Len(s) - (i + 1) + 1 ELSE 0) = Len(s) - i
        /\ Len(s) - (i + 1) + 1 = Len(s) - i /\ \A j \in 1 .. Len(s) - i : (i + 1) + j - 1 = i + j
    BY <1>1
  <2> QED
    BY <2>1, <2>2
<1>4. r = a \o b
  BY DEF Without
<1> HIDE DEF a, b, r
<1>5. r \in Seq(X) /\ Len(r) = Len(a) + Len(b)
      /\ \A j \in 1 .. Len(a) + Len(b) : r[j] = IF j <= Len(a) THEN a[j] ELSE b[j - Len(a)]
  <2>1. a \in Seq(X) /\ b \in Seq(X)
    BY <1>2, <1>3
  <2>2. a \o b \in Seq(X) /\ Len(a \o b) = Len(a) + Len(b)
        /\ \A j \in 1 .. Len(a) + Len(b) : (a \o b)[j] = IF j <= Len(a) THEN a[j] ELSE b[j - Len(a)]
    BY <2>1, ConcatProperties, Zenon
  <2> QED
    BY <2>2, <1>4, Zenon
<1>6. ASSUME NEW j \in 1 .. Len(s) - 1
      PROVE  r[j] = s[IF j < i THEN j ELSE j + 1]
  <2>1. j \in 1 .. Len(a) + Len(b)
    BY <1>1, <1>2, <1>3
  <2>2. CASE j < i
    <3>1. j \in 1 .. i - 1 /\ j <= Len(a)
      BY <1>1, <1>2, <2>2
    <3> QED
      BY <3>1, <2>1, <2>2, <1>2, <1>5
  <2>3. CASE ~(j < i)
    <3>1. j - (i - 1) \in 1 .. Len(s) - i /\ ~(j <= Len(a)) /\ i + (j - (i - 1)) = j + 1
      BY <1>1, <1>2, <2>3
    <3>2. r[j] = b[j - (i - 1)]
      BY <3>1, <2>1, <1>2, <1>5
    <3> QED
      BY <3>1, <3>2, <2>3, <1>3
  <2> QED
    BY <2>2, <2>3
<1>7. Len(r) = Len(s) - 1
  <2>1. Len(r) = (i - 1) + (Len(s) - i)
    BY <1>2, <1>3, <1>5, Zenon
  <2>2. \A x, y \in Nat : (x - 1) + (y - x) = y - 1
    OBVIOUS
  <2> QED
    BY <1>1, <2>1, <2>2, Zenon
<1>8. r \in Seq(X)
  BY <1>5
<1>9. \A j \in 1 .. Len(s) - 1 : r[j] = s[IF j < i THEN j ELSE j + 1]
  BY <1>6
<1> QED
  BY <1>7, <1>8, <1>9, Zenon DEF r

-----------------------------------------------------------------------------
(***************************************************************************)
(* The steps.                                                              *)
(***************************************************************************)

\* At the start nothing is held and every unit is free.
LEMMA InitUInv == IssueInit => UInv
<1> SUFFICES ASSUME IssueInit
             PROVE  UInv
  OBVIOUS
<1>1. IssueType
  <2>1. ops \in Seq(Templates) /\ Len(ops) = 0
    BY DEF IssueInit
  <2>2. using \in [Ops -> SUBSET Holdable] /\ release \in [Ports -> Nat]
        /\ state \in [Ops -> {"none", "queued", "running", "finished", "retired"}]
    BY DEF IssueInit
  <2> QED
    BY <2>1, <2>2, TemplatesAssumption DEF IssueInit, IssueType
<1>2. QueueWaits
  <2>1. issueQueue = <<>> /\ Len(issueQueue) = 0 /\ issueQueue \in Seq(1 .. Len(ops))
    BY DEF IssueInit
  <2> QED
    BY <2>1 DEF QueueWaits
<1>3. NotYet /\ ClaimsBlock /\ OneInsnPerPort
  BY DEF IssueInit, NotYet, ClaimsBlock, OneInsnPerPort
<1>4. UnitsAccountedFor
  <2>1. \A o \in Ops : using[o] = {}
    BY DEF IssueInit
  <2>2. fuUsage = UNION {using[o] : o \in Ops}
    BY <2>1 DEF IssueInit
  <2>3. ASSUME NEW f \in FUs
        PROVE  fuAvalMap[f] = Cardinality({u \in Units : FU(u) = f})
                               - Cardinality({u \in fuUsage : FU(u) = f})
    <3>1. fuAvalMap[f] = Cardinality(OfKind(Units, f))
      BY DEF IssueInit, OfKind
    <3>2. Cardinality(OfKind(Units, f)) \in Nat
      BY CountParts
    <3>3. {u \in fuUsage : FU(u) = f} = {}
      BY DEF IssueInit
    <3>4. Cardinality({u \in fuUsage : FU(u) = f}) = 0
      BY <3>3, FS_EmptySet
    <3> QED
      BY <3>1, <3>2, <3>4 DEF OfKind
  <2> QED
    BY <2>1, <2>2, <2>3 DEF UnitsAccountedFor
<1> QED
  BY <1>1, <1>2, <1>3, <1>4 DEF UInv

\* An instruction that leaves the queue takes free units, and only one that
\* is then in execution.
LEMMA IssuedUnits ==
    ASSUME UInv, NEW o \in Ops, o <= Len(ops), state[o] = "queued",
           NEW units \in SUBSET Free(ops[o]),
           state' = [state EXCEPT ![o] = IF ops[o].lat = 0 THEN "finished" ELSE "running"],
           fuAvalMap' = Taken(units),
           using' = [using EXCEPT ![o] = units],
           fuUsage' = fuUsage \cup units
    PROVE  UnitsAccountedFor' /\ using' \in [Ops -> SUBSET Holdable]
<1>1. /\ using \in [Ops -> SUBSET Holdable] /\ DOMAIN state = Ops
      /\ fuUsage = UNION {using[x] : x \in Ops}
      /\ \A x, y \in Ops : x # y => using[x] \cap using[y] = {}
      /\ \A x \in Ops : using[x] # {} => state[x] = "running"
  BY DEF UInv, IssueType, UnitsAccountedFor
<1>2. using[o] = {}
  BY <1>1
<1>3. units \subseteq Holdable /\ units \cap fuUsage = {} /\ units \subseteq Units
  BY DEF Free, Holdable
<1>4. using'[o] = units /\ \A x \in Ops : x # o => using'[x] = using[x]
  BY <1>1
<1>5. using' \in [Ops -> SUBSET Holdable]
  BY <1>1, <1>3
<1>6. fuUsage' = UNION {using'[x] : x \in Ops}
  <2>1. \A u : u \in fuUsage <=> \E x \in Ops : u \in using[x]
    BY <1>1
  <2>2. \A u : u \in fuUsage' <=> \E x \in Ops : u \in using'[x]
    BY <2>1, <1>2, <1>4
  <2> QED
    BY <2>2
<1>7. \A x, y \in Ops : x # y => using'[x] \cap using'[y] = {}
  <2>1. \A x \in Ops : using[x] \cap units = {}
    BY <1>1, <1>3
  <2> QED
    BY <2>1, <1>1, <1>4
<1>8. \A x \in Ops : using'[x] # {} => state'[x] = "running"
  <2>1. ASSUME units # {} PROVE ops[o].lat # 0
    <3>1. o \in 1 .. Len(ops) /\ ops \in Seq(Templates)
      BY DEF UInv, IssueType, Ops
    <3>2. ops[o] \in Templates
      BY <3>1, ElementOfSeq
    <3>3. PICK u \in units : FU(u) \in NotPipelined /\ FU(u) \in Kinds(ops[o])
      BY <2>1 DEF Free, Holdable
    <3>4. PICK a \in 1 .. Len(ops[o].fus) : FU(u) \in Elems(ops[o].fus[a])
      BY <3>3 DEF Kinds
    <3>5. ops[o].lat \in Nat /\ ops[o].lat > 0
      BY <3>2, <3>3, <3>4, TemplatesAssumption
    <3> QED
      BY <3>5
  <2> QED
    BY <2>1, <1>1, <1>4
<1>9. ASSUME NEW f \in FUs
      PROVE  fuAvalMap'[f] = Cardinality({u \in Units : FU(u) = f})
                              - Cardinality({u \in fuUsage' : FU(u) = f})
  <2>1. fuAvalMap[f] = Cardinality(OfKind(Units, f)) - Cardinality(OfKind(fuUsage, f))
    BY DEF UInv, UnitsAccountedFor, OfKind
  <2>2. fuAvalMap'[f] = fuAvalMap[f] - Cardinality(OfKind(units, f))
    BY DEF Taken, OfKind
  <2>3. fuUsage' \in SUBSET Units /\ units \in SUBSET fuUsage' /\ fuUsage' \ units = fuUsage
        /\ fuUsage \in SUBSET Units
    BY <1>1, <1>3 DEF Holdable
  <2>4. /\ Cardinality(OfKind(fuUsage', f)) \in Nat /\ Cardinality(OfKind(units, f)) \in Nat
        /\ Cardinality(OfKind(fuUsage, f)) = Cardinality(OfKind(fuUsage', f)) - Cardinality(OfKind(units, f))
        /\ Cardinality(OfKind(Units, f)) \in Nat
    <3> DEFINE A == fuUsage'
    <3>1. A \in SUBSET Units /\ units \in SUBSET A /\ A \ units = fuUsage
      BY <2>3
    <3> HIDE DEF A
    <3>2. /\ Cardinality(OfKind(A, f)) \in Nat /\ Cardinality(OfKind(units, f)) \in Nat
          /\ Cardinality(OfKind(A \ units, f)) = Cardinality(OfKind(A, f)) - Cardinality(OfKind(units, f))
      BY <3>1, CountParts
    <3>3. Units \in SUBSET Units /\ {} \in SUBSET Units
      OBVIOUS
    <3>4. Cardinality(OfKind(Units, f)) \in Nat
      BY <3>3, CountParts
    <3> QED
      BY <3>1, <3>2, <3>4 DEF A
  <2>5. fuAvalMap'[f] = Cardinality(OfKind(Units, f)) - Cardinality(OfKind(fuUsage', f))
    BY <2>1, <2>2, <2>4
  <2> QED
    BY <2>5 DEF OfKind
<1> QED
  BY <1>5, <1>6, <1>7, <1>8, <1>9 DEF UnitsAccountedFor, OfKind

\* What leaves the queue was there once, so that the rest still waits.
LEMMA IssuedQueue ==
    ASSUME UInv, iter \in 1 .. Len(issueQueue),
           NEW v, state' = [state EXCEPT ![issueQueue[iter]] = v],
           issueQueue' = SubSeq(issueQueue, 1, iter - 1)
                          \o SubSeq(issueQueue, iter + 1, Len(issueQueue)),
           ops' = ops
    PROVE  QueueWaits' /\ NotYet'
<1> DEFINE o == issueQueue[iter]
           N == Len(issueQueue)
           at(j) == IF j < iter THEN j ELSE j + 1
<1>1. /\ issueQueue \in Seq(1 .. Len(ops)) /\ N \in Nat /\ Len(ops) \in Nat /\ iter \in Nat
      /\ \A j \in 1 .. N : issueQueue[j] \in 1 .. Len(ops)
      /\ \A j \in 1 .. N : state[issueQueue[j]] = "queued"
      /\ \A j, h \in 1 .. N : j # h => issueQueue[j] # issueQueue[h]
      /\ DOMAIN state = Ops /\ Len(ops) <= MaxOps /\ MaxOps \in Nat
  <2>1. /\ ops \in Seq(Templates) /\ Len(ops) <= MaxOps /\ DOMAIN state = Ops /\ QueueWaits
    BY DEF UInv, IssueType
  <2>2. Len(ops) \in Nat /\ MaxOps \in Nat
    BY <2>1, TemplatesAssumption
  <2>3. /\ issueQueue \in Seq(1 .. Len(ops))
        /\ \A j \in 1 .. N : state[issueQueue[j]] = "queued"
        /\ \A j, h \in 1 .. N : j # h => issueQueue[j] # issueQueue[h]
    BY <2>1 DEF QueueWaits
  <2>4. N \in Nat /\ iter \in Nat /\ \A j \in 1 .. N : issueQueue[j] \in 1 .. Len(ops)
    BY <2>3, ElementOfSeq
  <2> QED
    BY <2>1, <2>2, <2>3, <2>4
<1>2. \A j \in 1 .. N : issueQueue[j] \in Ops
  BY <1>1 DEF Ops
<1>3. /\ issueQueue' \in Seq(1 .. Len(ops)) /\ Len(issueQueue') = N - 1
      /\ \A j \in 1 .. N - 1 : issueQueue'[j] = issueQueue[at(j)]
  <2> DEFINE X == 1 .. Len(ops)
             s == issueQueue
             r == issueQueue'
  <2>1. s \in Seq(X)
    BY <1>1
  <2>2. iter \in 1 .. Len(s)
    OBVIOUS
  <2>3. r = Without(s, iter)
    BY DEF Without
  <2> HIDE DEF X, s, r, o, N, at
  <2>4. /\ r \in Seq(X) /\ Len(r) = Len(s) - 1
        /\ \A j \in 1 .. Len(s) - 1 : r[j] = s[IF j < iter THEN j ELSE j + 1]
    BY <2>1, <2>2, <2>3, WithoutIs
  <2> QED
    BY <2>4 DEF X, s, r, N, at
<1>4. \A j \in 1 .. N - 1 : at(j) \in 1 .. N /\ at(j) # iter
  BY <1>1
<1>5. \A j, h \in 1 .. N - 1 : j # h => at(j) # at(h)
  BY <1>1
<1> HIDE DEF at, N
<1>6. ASSUME NEW j \in 1 .. N - 1
      PROVE  state'[issueQueue'[j]] = "queued"
  <2>1. issueQueue'[j] = issueQueue[at(j)] /\ issueQueue[at(j)] # o /\ issueQueue[at(j)] \in Ops
    <3>1. issueQueue'[j] = issueQueue[at(j)] /\ at(j) \in 1 .. N /\ at(j) # iter
      BY <1>3, <1>4
    <3>2. iter \in 1 .. N
      BY DEF N
    <3> QED
      BY <3>1, <3>2, <1>1, <1>2
  <2>2. state[issueQueue[at(j)]] = "queued"
    BY <1>1, <1>4
  <2> QED
    BY <2>1, <2>2, <1>1
<1>7. \A j, h \in 1 .. N - 1 : j # h => issueQueue'[j] # issueQueue'[h]
  <2> SUFFICES ASSUME NEW j \in 1 .. N - 1, NEW h \in 1 .. N - 1, j # h
               PROVE  issueQueue'[j] # issueQueue'[h]
    OBVIOUS
  <2>1. at(j) \in 1 .. N /\ at(h) \in 1 .. N /\ at(j) # at(h)
    BY <1>4, <1>5
  <2>2. issueQueue'[j] = issueQueue[at(j)] /\ issueQueue'[h] = issueQueue[at(h)]
    BY <1>3
  <2> QED
    BY <1>1, <2>1, <2>2
<1>8. QueueWaits'
  BY <1>3, <1>6, <1>7 DEF QueueWaits
<1>9. NotYet'
  <2> SUFFICES ASSUME NEW x \in Ops, x > Len(ops)
               PROVE  state'[x] = "none"
    BY DEF NotYet
  <2>1. state[x] = "none"
    BY DEF UInv, NotYet
  <2>2. x # o
    BY <1>1 DEF N
  <2> QED
    BY <2>1, <2>2, <1>1
<1> QED
  BY <1>8, <1>9

\* The instruction at the iterator waits and is one that was dispatched.
LEMMA AtIterator ==
    ASSUME UInv, iter <= Len(issueQueue)
    PROVE  /\ iter \in 1 .. Len(issueQueue)
           /\ issueQueue[iter] \in Ops /\ issueQueue[iter] <= Len(ops)
           /\ state[issueQueue[iter]] = "queued" /\ ops[issueQueue[iter]] \in Templates
<1>1. /\ issueQueue \in Seq(1 .. Len(ops)) /\ Len(issueQueue) \in Nat /\ Len(ops) \in Nat
      /\ iter \in Nat \ {0} /\ Len(ops) <= MaxOps /\ MaxOps \in Nat /\ ops \in Seq(Templates)
  BY TemplatesAssumption DEF UInv, QueueWaits, IssueType
<1>2. iter \in 1 .. Len(issueQueue)
  BY <1>1
<1>3. issueQueue[iter] \in 1 .. Len(ops)
  BY <1>1, <1>2, ElementOfSeq
<1>4. ops[issueQueue[iter]] \in Templates
  BY <1>1, <1>3, ElementOfSeq
<1>5. state[issueQueue[iter]] = "queued"
  BY <1>2 DEF UInv, QueueWaits
<1> QED
  BY <1>1, <1>2, <1>3, <1>4, <1>5 DEF Ops

\* An instruction that stays in the queue changes nothing the invariant is
\* about.
LEMMA NotIssuedUInv ==
    ASSUME UInv, NEW pushed, NotIssued(pushed), UNCHANGED <<naive, ops>>
    PROVE  UInv'
<1>1. /\ iter' = iter + 1 /\ iter \in Nat
      /\ UNCHANGED <<state, fuAvalMap, using, fuUsage, issueQueue, claims, release, naive, ops>>
  BY DEF NotIssued, UInv, IssueType
<1>2. IssueType'
  BY <1>1 DEF UInv, IssueType
<1>3. QueueWaits' /\ NotYet' /\ ClaimsBlock' /\ OneInsnPerPort'
  BY <1>1 DEF UInv, QueueWaits, NotYet, ClaimsBlock, OneInsnPerPort
<1>4. UnitsAccountedFor'
  BY <1>1 DEF UInv, UnitsAccountedFor
<1> QED
  BY <1>2, <1>3, <1>4 DEF UInv

\* An instruction leaves the queue with free units; what it does to the ports
\* is left to the two models.
LEMMA IssuedUInv ==
    ASSUME UInv, iter <= Len(issueQueue), NEW o, o = issueQueue[iter],
           NEW units \in SUBSET Free(ops[o]), NEW pushed, NEW held,
           Issued(o, units, pushed, held), UNCHANGED <<naive, ops>>,
           release' \in [Ports -> Nat], ClaimsBlock', OneInsnPerPort'
    PROVE  UInv'
<1> DEFINE v == IF ops[o].lat = 0 THEN "finished" ELSE "running"
<1>1. /\ iter \in 1 .. Len(issueQueue) /\ o \in Ops /\ o <= Len(ops) /\ state[o] = "queued"
  BY AtIterator
<1>2. /\ state' = [state EXCEPT ![o] = v]
      /\ fuAvalMap' = Taken(units) /\ using' = [using EXCEPT ![o] = units]
      /\ fuUsage' = fuUsage \cup units /\ iter' = iter
      /\ issueQueue' = SubSeq(issueQueue, 1, iter - 1)
                        \o SubSeq(issueQueue, iter + 1, Len(issueQueue))
  BY DEF Issued
<1>3. UnitsAccountedFor' /\ using' \in [Ops -> SUBSET Holdable]
  BY <1>1, <1>2, IssuedUnits
<1>4. QueueWaits' /\ NotYet'
  <2> HIDE DEF v
  <2>1. state' = [state EXCEPT ![issueQueue[iter]] = v]
    BY <1>2
  <2> QED
    BY <1>1, <1>2, <2>1, IssuedQueue
<1>5. state' \in [Ops -> {"none", "queued", "running", "finished", "retired"}]
  <2>1. v \in {"none", "queued", "running", "finished", "retired"}
    OBVIOUS
  <2> HIDE DEF v
  <2> QED
    BY <1>1, <1>2, <2>1 DEF UInv, IssueType
<1>6. IssueType'
  BY <1>2, <1>3, <1>5 DEF UInv, IssueType
<1> QED
  BY <1>3, <1>4, <1>6 DEF UInv

\* In the port model a port is given only when nobody holds it.
LEMMA PortModelUInv ==
    ASSUME UInv, iter <= Len(issueQueue), ~naive, schedulePortModel(issueQueue[iter]),
           UNCHANGED <<naive, ops>>
    PROVE  UInv'
<1> DEFINE o == issueQueue[iter]
           t == ops[o]
           w == scheduleUops(t)
<1>1. o \in Ops /\ t \in Templates
  BY AtIterator
<1>2. w \in Chosen /\ (w # <<>> => Len(w) = Len(t.uops))
  BY <1>1, ScheduleIs
<1> DEFINE Outcome(v, try) ==
             \/ /\ v = <<>>
                /\ NotIssued(<<>>)
             \/ /\ v # <<>> /\ ~try.ok
                /\ NotIssued(v)
             \/ /\ v # <<>> /\ try.ok
                /\ Issued(o, try.units, v \o v, {<<v[n], t.uops[n].stall>> : n \in 1 .. Len(v)})
                /\ release' = [p \in Ports |->
                                IF p \in Elems(v)
                                THEN t.uops[CHOOSE n \in 1 .. Len(v) : v[n] = p].stall
                                ELSE release[p]]
<1>3. PICK try \in TryAll(t, w, {}) : Outcome(w, try)
  <2>1. \E v \in {w} : \E try \in TryAll(t, v, {}) : Outcome(v, try)
    BY DEF schedulePortModel
  <2> HIDE DEF Outcome, w, t, o
  <2> QED
    BY <2>1
<1>4. try.units \in SUBSET Free(t)
  <2>1. Len(w) \in Nat
    BY <1>2 DEF Chosen
  <2> HIDE DEF w, t
  <2>2. try \in Outcomes(t, {})
    BY <1>1, <1>3, <2>1, TryAllStays
  <2> QED
    BY <2>2 DEF Outcomes
<1> HIDE DEF w
<1>5. CASE \E pushed : NotIssued(pushed)
  BY <1>5, NotIssuedUInv
<1>6. CASE /\ w # <<>>
           /\ Issued(o, try.units, w \o w, {<<w[n], t.uops[n].stall>> : n \in 1 .. Len(w)})
           /\ release' = [p \in Ports |->
                            IF p \in Elems(w)
                            THEN t.uops[CHOOSE n \in 1 .. Len(w) : w[n] = p].stall
                            ELSE release[p]]
  <2> DEFINE stall(n) == t.uops[n].stall
             held == {<<w[n], stall(n)>> : n \in 1 .. Len(w)}
             new(n) == [op |-> o, port |-> w[n], left |-> stall(n)]
  <2>1. /\ Len(w) \in Nat /\ \A n \in 1 .. Len(w) : w[n] \in Ports /\ release[w[n]] = 0
        /\ \A m, n \in 1 .. Len(w) : m # n => w[m] # w[n]
    <3>1. w \in Seq(Unblocked) /\ \A m, n \in 1 .. Len(w) : m # n => w[m] # w[n]
      BY <1>2 DEF Chosen
    <3>2. Len(w) \in Nat /\ \A n \in 1 .. Len(w) : w[n] \in Unblocked
      BY <3>1, ElementOfSeq
    <3> QED
      BY <3>1, <3>2 DEF Unblocked
  <2>2. \A n \in 1 .. Len(w) : stall(n) \in Nat \ {0}
    BY <1>1, <1>2, <1>6, TemplatesAssumption
  <2>3. release' = [p \in Ports |->
                        IF p \in Elems(w) THEN stall(CHOOSE n \in 1 .. Len(w) : w[n] = p)
                        ELSE release[p]]
    BY <1>6
  <2>4. claims' = claims \cup {new(n) : n \in 1 .. Len(w)}
    <3>1. claims' = claims \cup {[op |-> o, port |-> h[1], left |-> h[2]] : h \in held}
      BY <1>6 DEF Issued
    <3>2. {[op |-> o, port |-> h[1], left |-> h[2]] : h \in held} = {new(n) : n \in 1 .. Len(w)}
      <4> DEFINE rec(h) == [op |-> o, port |-> h[1], left |-> h[2]]
      <4> HIDE DEF stall, o
      <4>1. \A n \in 1 .. Len(w) : <<w[n], stall(n)>> \in held /\ rec(<<w[n], stall(n)>>) = new(n)
        OBVIOUS
      <4>2. \A h \in held : \E n \in 1 .. Len(w) : h = <<w[n], stall(n)>>
        OBVIOUS
      <4> HIDE DEF held, new, rec
      <4>3. \A h \in held : rec(h) \in {new(n) : n \in 1 .. Len(w)}
        BY <4>1, <4>2
      <4>4. \A n \in 1 .. Len(w) : new(n) \in {rec(h) : h \in held}
        BY <4>1
      <4>5. {rec(h) : h \in held} = {new(n) : n \in 1 .. Len(w)}
        BY <4>3, <4>4
      <4> QED
        BY <4>5 DEF rec
    <3> QED
      BY <3>1, <3>2
  <2> HIDE DEF stall
  <2>5. \A n \in 1 .. Len(w) : release'[w[n]] = stall(n)
    <3> TAKE n \in 1 .. Len(w)
    <3>1. w[n] \in Elems(w) /\ w[n] \in Ports
      BY <2>1 DEF Elems
    <3>2. (CHOOSE m \in 1 .. Len(w) : w[m] = w[n]) = n
      BY <2>1
    <3> QED
      BY <2>3, <3>1, <3>2
  <2>6. \A p \in Ports : (\A n \in 1 .. Len(w) : w[n] # p) => release'[p] = release[p]
    BY <2>3 DEF Elems
  <2>7. release' \in [Ports -> Nat]
    <3>1. \A p \in Ports : release[p] \in Nat
      BY DEF UInv, IssueType
    <3>2. \A p \in Ports : release'[p] \in Nat
      BY <3>1, <2>2, <2>5, <2>6
    <3>3. release' = [p \in Ports |-> release'[p]]
      BY <2>3
    <3> QED
      BY <3>2, <3>3
  <2>8. \A c \in claims : /\ c \in [op : Ops, port : Ports, left : Nat \ {0}]
                          /\ release[c.port] = c.left
                          /\ \A n \in 1 .. Len(w) : w[n] # c.port
    <3> TAKE c \in claims
    <3>1. c \in [op : Ops, port : Ports, left : Nat \ {0}] /\ release[c.port] = c.left
      BY DEF UInv, ClaimsBlock
    <3>2. release[c.port] # 0
      BY <3>1
    <3> QED
      BY <3>1, <3>2, <2>1
  <2>9. \A n \in 1 .. Len(w) : /\ new(n) \in [op : Ops, port : Ports, left : Nat \ {0}]
                               /\ new(n).port = w[n] /\ new(n).left = stall(n)
    BY <1>1, <2>1, <2>2
  <2> HIDE DEF new, o
  <2>10. ClaimsBlock'
    <3> SUFFICES ASSUME NEW c \in claims'
                 PROVE  /\ c \in [op : Ops, port : Ports, left : Nat \ {0}]
                        /\ release'[c.port] = c.left
      BY DEF ClaimsBlock
    <3>1. CASE c \in claims
      <4>1. c.port \in Ports
        BY <2>8, <3>1
      <4> QED
        BY <2>6, <2>8, <3>1, <4>1
    <3>2. CASE \E n \in 1 .. Len(w) : c = new(n)
      BY <2>5, <2>9, <3>2
    <3> QED
      BY <2>4, <3>1, <3>2
  <2>11. OneInsnPerPort'
    <3> SUFFICES ASSUME NEW c \in claims', NEW d \in claims', c # d
                 PROVE  c.port # d.port
      BY DEF OneInsnPerPort
    <3>1. CASE c \in claims /\ d \in claims
      BY <3>1 DEF UInv, OneInsnPerPort
    <3>2. CASE c \in claims /\ \E n \in 1 .. Len(w) : d = new(n)
      BY <2>8, <2>9, <3>2
    <3>3. CASE d \in claims /\ \E n \in 1 .. Len(w) : c = new(n)
      BY <2>8, <2>9, <3>3
    <3>4. CASE (\E n \in 1 .. Len(w) : c = new(n)) /\ (\E n \in 1 .. Len(w) : d = new(n))
      <4>1. PICK m \in 1 .. Len(w), n \in 1 .. Len(w) : c = new(m) /\ d = new(n)
        BY <3>4
      <4>2. m # n
        BY <4>1
      <4> QED
        BY <4>1, <4>2, <2>1, <2>9
    <3> QED
      BY <2>4, <3>1, <3>2, <3>3, <3>4
  <2>12. Issued(o, try.units, w \o w, held)
    BY <1>6 DEF stall
  <2>13. o = issueQueue[iter]
    BY DEF o
  <2> HIDE DEF held, t
  <2>14. try.units \in SUBSET Free(ops[o])
    BY <1>4 DEF t
  <2> QED
    BY <2>7, <2>10, <2>11, <2>12, <2>13, <2>14, IssuedUInv
<1> QED
  BY <1>3, <1>5, <1>6

\* In the naive model nothing is said of ports.
LEMMA NaiveModelUInv ==
    ASSUME UInv, iter <= Len(issueQueue), naive, scheduleNaiveModel(issueQueue[iter]),
           UNCHANGED <<naive, ops>>
    PROVE  UInv'
<1> DEFINE o == issueQueue[iter]
           t == ops[o]
           ws == [p \in Ports |-> p]
           X == Elems(occupied)
<1>1. o \in Ops /\ t \in Templates
  BY AtIterator
<1>2. Len(ws) \in Nat
  <2>1. ws \in Seq(Ports)
    BY TemplatesAssumption DEF Ports
  <2> QED
    BY <2>1
<1>3. PICK try \in TryAll(t, ws, X) :
        \/ NotIssued(<<>>)
        \/ /\ \E pushed, held : Issued(o, try.units, pushed, held)
           /\ UNCHANGED release
  BY DEF scheduleNaiveModel
<1> HIDE DEF ws, X, t
<1>4. try.units \in SUBSET Free(t)
  <2>1. try \in Outcomes(t, X)
    BY <1>1, <1>2, <1>3, TryAllStays
  <2> QED
    BY <2>1 DEF Outcomes
<1>5. CASE NotIssued(<<>>)
  BY <1>5, NotIssuedUInv
<1>6. ASSUME NEW pushed, NEW held, Issued(o, try.units, pushed, held), UNCHANGED release
      PROVE  UInv'
  <2>1. release' \in [Ports -> Nat]
    BY <1>6 DEF UInv, IssueType
  <2>2. ClaimsBlock' /\ OneInsnPerPort'
    BY DEF ClaimsBlock, OneInsnPerPort
  <2>3. o = issueQueue[iter] /\ try.units \in SUBSET Free(ops[o])
    BY <1>4 DEF t
  <2> HIDE DEF o
  <2> QED
    BY <1>6, <2>1, <2>2, <2>3, IssuedUInv
<1> QED
  BY <1>3, <1>5, <1>6

\* IssueUnit::issue keeps the invariant, one instruction at a time.
LEMMA IssueOneUInv ==
    ASSUME UInv, issueOne
    PROVE  UInv'
<1>1. iter <= Len(issueQueue) /\ UNCHANGED <<naive, ops>>
  BY DEF issueOne
<1>2. \/ naive /\ scheduleNaiveModel(issueQueue[iter])
      \/ ~naive /\ schedulePortModel(issueQueue[iter])
      \/ NotIssued(<<>>)
  BY DEF issueOne
<1> QED
  BY <1>1, <1>2, NaiveModelUInv, PortModelUInv, NotIssuedUInv

\* A new instruction holds nothing; ports and their holders count down
\* together.
LEMMA DispatchUInv ==
    ASSUME UInv, dispatch
    PROVE  UInv'
<1>1. /\ iter' = 1 /\ UNCHANGED <<naive, fuUsage, fuAvalMap, using>>
      /\ release' = [p \in Ports |-> IF release[p] = 0 THEN 0 ELSE release[p] - 1]
      /\ claims' = {[c EXCEPT !.left = c.left - 1] : c \in {c \in claims : c.left > 1}}
  BY DEF dispatch
<1>2. /\ ops \in Seq(Templates) /\ Len(ops) \in Nat /\ Len(ops) <= MaxOps /\ MaxOps \in Nat
      /\ issueQueue \in Seq(1 .. Len(ops)) /\ DOMAIN state = Ops
      /\ state \in [Ops -> {"none", "queued", "running", "finished", "retired"}]
      /\ \A p \in Ports : release[p] \in Nat
  BY TemplatesAssumption DEF UInv, IssueType, QueueWaits
<1>3. release' \in [Ports -> Nat] /\ \A p \in Ports : release[p] # 0 => release'[p] = release[p] - 1
  BY <1>1, <1>2
<1>4. ClaimsBlock' /\ OneInsnPerPort'
  <2> SUFFICES ASSUME ~naive
               PROVE  ClaimsBlock' /\ OneInsnPerPort'
    BY <1>1 DEF ClaimsBlock, OneInsnPerPort
  <2>1. \A c \in claims : c \in [op : Ops, port : Ports, left : Nat \ {0}] /\ release[c.port] = c.left
    BY DEF UInv, ClaimsBlock
  <2> DEFINE later(c) == [c EXCEPT !.left = c.left - 1]
  <2>2. \A c \in claims : c.left > 1 =>
          /\ later(c) \in [op : Ops, port : Ports, left : Nat \ {0}]
          /\ later(c).port = c.port /\ later(c).left = c.left - 1
    <3> SUFFICES ASSUME NEW c \in claims, c.left > 1
                 PROVE  /\ later(c) \in [op : Ops, port : Ports, left : Nat \ {0}]
                        /\ later(c).port = c.port /\ later(c).left = c.left - 1
      OBVIOUS
    <3>1. c \in [op : Ops, port : Ports, left : Nat \ {0}] /\ c.left - 1 \in Nat \ {0}
      BY <2>1
    <3> QED
      BY <3>1
  <2>3. \A x \in claims' : \E c \in claims : c.left > 1 /\ x = later(c)
    BY <1>1
  <2> HIDE DEF later
  <2>4. \A c \in claims : c.left > 1 => release'[c.port] = c.left - 1
    BY <2>1, <1>3
  <2>5. ClaimsBlock'
    BY <2>2, <2>3, <2>4 DEF ClaimsBlock
  <2>6. ASSUME NEW x \in claims', NEW y \in claims', x # y
        PROVE  x.port # y.port
    <3>1. PICK c \in claims : c.left > 1 /\ x = later(c)
      BY <2>3
    <3>2. PICK d \in claims : d.left > 1 /\ y = later(d)
      BY <2>3
    <3>3. c # d
      BY <3>1, <3>2, <2>6
    <3>4. c.port # d.port
      BY <3>3 DEF UInv, OneInsnPerPort
    <3> QED
      BY <3>1, <3>2, <3>4, <2>2
  <2> QED
    BY <2>5, <2>6 DEF OneInsnPerPort
<1>5. CASE UNCHANGED <<ops, issueQueue, state>>
  <2>1. IssueType' /\ QueueWaits' /\ NotYet'
    BY <1>1, <1>3, <1>5 DEF UInv, IssueType, QueueWaits, NotYet
  <2>2. UnitsAccountedFor'
    BY <1>1, <1>5 DEF UInv, UnitsAccountedFor
  <2> QED
    BY <1>4, <2>1, <2>2 DEF UInv
<1>6. CASE /\ Len(ops) < MaxOps
           /\ \E t \in Templates : ops' = Append(ops, t)
           /\ issueQueue' = Append(issueQueue, Len(ops) + 1)
           /\ state' = [state EXCEPT ![Len(ops) + 1] = "queued"]
  <2> DEFINE k == Len(ops) + 1
             N == Len(issueQueue)
  <2>1. ops' \in Seq(Templates) /\ Len(ops') = k
    BY <1>2, <1>6, AppendProperties
  <2>2. k \in Ops /\ k \in Nat /\ N \in Nat /\ Len(ops) = k - 1
    BY <1>2, <1>6 DEF Ops
  <2>3. state[k] = "none"
    BY <2>2, <1>2 DEF UInv, NotYet
  <2>4. \A j \in 1 .. N : issueQueue[j] \in 1 .. Len(ops)
    BY <1>2, ElementOfSeq
  <2>5. issueQueue \in Seq(1 .. k)
    <3>1. \A j \in 1 .. N : issueQueue[j] \in 1 .. k
      BY <2>4, <1>2
    <3> QED
      BY <3>1, <1>2
  <2>6. /\ issueQueue' \in Seq(1 .. k) /\ Len(issueQueue') = N + 1 /\ issueQueue'[N + 1] = k
        /\ \A j \in 1 .. N : issueQueue'[j] = issueQueue[j]
    <3>1. k \in 1 .. k
      BY <2>2
    <3> DEFINE X == 1 .. k
    <3>2. issueQueue \in Seq(X) /\ k \in X /\ issueQueue' = Append(issueQueue, k)
      BY <2>5, <3>1, <1>6
    <3> HIDE DEF X, k
    <3>3. /\ issueQueue' \in Seq(X) /\ Len(issueQueue') = N + 1 /\ issueQueue'[N + 1] = k
          /\ \A j \in 1 .. N : issueQueue'[j] = issueQueue[j]
      BY <3>2, AppendProperties
    <3> QED
      BY <3>3 DEF X
  <2>7. state' = [state EXCEPT ![k] = "queued"]
    BY <1>6
  <2> HIDE DEF k, N
  <2>8. \A j \in 1 .. N : issueQueue[j] # k /\ issueQueue[j] \in Ops
    BY <2>2, <2>4, <1>2 DEF Ops
  <2>9. \A j \in 1 .. N + 1 : j \in 1 .. N \/ j = N + 1
    BY <2>2
  <2>10. \A j \in 1 .. N : state[issueQueue[j]] = "queued"
    BY DEF UInv, QueueWaits, N
  <2>11. \A j, h \in 1 .. N : j # h => issueQueue[j] # issueQueue[h]
    BY DEF UInv, QueueWaits, N
  <2>12. \A j \in 1 .. N + 1 : state'[issueQueue'[j]] = "queued"
    <3> TAKE j \in 1 .. N + 1
    <3>1. CASE j \in 1 .. N
      <4>1. issueQueue'[j] = issueQueue[j] /\ issueQueue[j] # k /\ issueQueue[j] \in Ops
            /\ state[issueQueue[j]] = "queued"
        BY <3>1, <2>6, <2>8, <2>10
      <4> QED
        BY <4>1, <2>7, <1>2
    <3>2. CASE j = N + 1
      BY <3>2, <2>2, <2>6, <2>7, <1>2
    <3> QED
      BY <3>1, <3>2, <2>9
  <2>13. \A j, h \in 1 .. N + 1 : j # h => issueQueue'[j] # issueQueue'[h]
    BY <2>6, <2>8, <2>9, <2>11
  <2>14. QueueWaits'
    BY <2>1, <2>6, <2>12, <2>13 DEF QueueWaits
  <2>15. NotYet'
    <3> SUFFICES ASSUME NEW x \in Ops, x > k
                 PROVE  state'[x] = "none"
      BY <2>1 DEF NotYet
    <3>1. x > Len(ops) /\ x # k
      BY <2>2 DEF Ops
    <3>2. state[x] = "none"
      BY <3>1 DEF UInv, NotYet
    <3> QED
      BY <3>1, <3>2, <2>7, <1>2
  <2>16. state' \in [Ops -> {"none", "queued", "running", "finished", "retired"}]
    BY <2>7, <1>2
  <2>17. Len(ops') <= MaxOps
    BY <2>1, <2>2, <1>2, <1>6
  <2>18. IssueType'
    BY <2>1, <2>16, <2>17, <1>1, <1>3 DEF UInv, IssueType
  <2>19. UnitsAccountedFor'
    <3>1. \A x \in Ops : using[x] # {} => state'[x] = "running"
      <4> SUFFICES ASSUME NEW x \in Ops, using[x] # {}
                   PROVE  state'[x] = "running"
        OBVIOUS
      <4>1. state[x] = "running"
        BY DEF UInv, UnitsAccountedFor
      <4>2. x # k
        BY <4>1, <2>3 DEF k
      <4> QED
        BY <4>1, <4>2, <2>7, <1>2
    <3> QED
      BY <3>1, <1>1 DEF UInv, UnitsAccountedFor
  <2> QED
    BY <1>4, <2>14, <2>15, <2>18, <2>19 DEF UInv
<1> QED
  BY <1>5, <1>6 DEF dispatch

\* What retires holds nothing any more.
LEMMA CommitUInv ==
    ASSUME UInv, commitExecute
    PROVE  UInv'
<1>1. UNCHANGED <<naive, iter, ops, issueQueue, release, fuUsage, fuAvalMap, using, claims>>
  BY DEF commitExecute
<1>2. PICK R \in SUBSET {o \in Ops : state[o] = "finished"} :
        state' = [o \in Ops |-> IF o \in R THEN "retired" ELSE state[o]]
  BY DEF commitExecute
<1>3. state \in [Ops -> {"none", "queued", "running", "finished", "retired"}]
  BY DEF UInv, IssueType
<1>4. state' \in [Ops -> {"none", "queued", "running", "finished", "retired"}]
      /\ \A o \in Ops : state[o] # "finished" => state'[o] = state[o]
  BY <1>2, <1>3
<1>5. IssueType'
  BY <1>1, <1>4 DEF UInv, IssueType
<1>6. QueueWaits'
  <2>1. \A j \in 1 .. Len(issueQueue) : issueQueue[j] \in Ops /\ state[issueQueue[j]] = "queued"
    <3>1. /\ issueQueue \in Seq(1 .. Len(ops)) /\ Len(ops) \in Nat /\ Len(ops) <= MaxOps
          /\ MaxOps \in Nat /\ \A j \in 1 .. Len(issueQueue) : state[issueQueue[j]] = "queued"
      BY TemplatesAssumption DEF UInv, QueueWaits, IssueType
    <3>2. \A j \in 1 .. Len(issueQueue) : issueQueue[j] \in 1 .. Len(ops)
      BY <3>1, ElementOfSeq
    <3> QED
      BY <3>1, <3>2 DEF Ops
  <2>2. \A j \in 1 .. Len(issueQueue) : state'[issueQueue[j]] = "queued"
    BY <2>1, <1>4
  <2> QED
    BY <2>2, <1>1 DEF UInv, QueueWaits
<1>7. NotYet' /\ ClaimsBlock' /\ OneInsnPerPort'
  BY <1>1, <1>4 DEF UInv, NotYet, ClaimsBlock, OneInsnPerPort
<1>8. UnitsAccountedFor'
  <2>1. \A o \in Ops : using[o] # {} => state'[o] = "running"
    BY <1>4 DEF UInv, UnitsAccountedFor
  <2> QED
    BY <2>1, <1>1 DEF UInv, UnitsAccountedFor
<1> QED
  BY <1>5, <1>6, <1>7, <1>8 DEF UInv

\* Core::writeBack: what finishes gives up what it held, and only that.
LEMMA WriteBackUInv ==
    ASSUME UInv, writeBack
    PROVE  UInv'
<1> DEFINE D == FreeingOps
           units == UNION {using[o] : o \in D}
<1>1. /\ UNCHANGED <<naive, iter, ops, issueQueue, release, claims>>
      /\ state' = [o \in Ops |-> IF o \in Finishing THEN "finished" ELSE state[o]]
      /\ fuUsage' = fuUsage \ units /\ fuAvalMap' = Freed(units)
      /\ using' = [o \in Ops |-> IF o \in D THEN {} ELSE using[o]]
  BY DEF writeBack, UsingAfter
<1>2. D \subseteq Ops /\ Finishing \subseteq D /\ \A o \in Finishing : state[o] = "running"
  BY DEF FreeingOps, Finishing
<1>3. /\ using \in [Ops -> SUBSET Holdable]
      /\ state \in [Ops -> {"none", "queued", "running", "finished", "retired"}]
      /\ fuUsage = UNION {using[o] : o \in Ops}
      /\ \A x, y \in Ops : x # y => using[x] \cap using[y] = {}
      /\ \A x \in Ops : using[x] # {} => state[x] = "running"
  BY DEF UInv, IssueType, UnitsAccountedFor
<1> HIDE DEF D
<1>4. units \subseteq fuUsage /\ fuUsage \subseteq Holdable /\ fuUsage \subseteq Units
  BY <1>2, <1>3 DEF Holdable
<1>5. state' \in [Ops -> {"none", "queued", "running", "finished", "retired"}]
      /\ \A o \in Ops : o \notin Finishing => state'[o] = state[o]
  BY <1>1, <1>3
<1>6. \A o \in Ops : using'[o] = IF o \in D THEN {} ELSE using[o]
  BY <1>1
<1>7. IssueType'
  <2>1. using' \in [Ops -> SUBSET Holdable]
    BY <1>1, <1>3
  <2> QED
    BY <2>1, <1>1, <1>5 DEF UInv, IssueType
<1>8. QueueWaits'
  <2>1. \A j \in 1 .. Len(issueQueue) : issueQueue[j] \in Ops /\ state[issueQueue[j]] = "queued"
    <3>1. /\ issueQueue \in Seq(1 .. Len(ops)) /\ Len(ops) \in Nat /\ Len(ops) <= MaxOps
          /\ MaxOps \in Nat /\ \A j \in 1 .. Len(issueQueue) : state[issueQueue[j]] = "queued"
      BY TemplatesAssumption DEF UInv, QueueWaits, IssueType
    <3>2. \A j \in 1 .. Len(issueQueue) : issueQueue[j] \in 1 .. Len(ops)
      BY <3>1, ElementOfSeq
    <3> QED
      BY <3>1, <3>2 DEF Ops
  <2>2. \A j \in 1 .. Len(issueQueue) : state'[issueQueue[j]] = "queued"
    <3> TAKE j \in 1 .. Len(issueQueue)
    <3>1. issueQueue[j] \notin Finishing
      BY <2>1, <1>2
    <3> QED
      BY <2>1, <3>1, <1>5
  <2> QED
    BY <2>2, <1>1 DEF UInv, QueueWaits
<1>9. NotYet' /\ ClaimsBlock' /\ OneInsnPerPort'
  <2>1. NotYet'
    BY <1>1, <1>2, <1>5 DEF UInv, NotYet
  <2> QED
    BY <2>1, <1>1 DEF UInv, ClaimsBlock, OneInsnPerPort
<1>10. fuUsage' = UNION {using'[o] : o \in Ops}
  <2>1. \A u : u \in fuUsage <=> \E x \in Ops : u \in using[x]
    BY <1>3
  <2>2. \A u : u \in units <=> \E x \in D : u \in using[x]
    OBVIOUS
  <2>3. \A u : u \in fuUsage' <=> \E x \in Ops : u \in using'[x]
    <3> TAKE u
    <3>1. u \in fuUsage' <=> u \in fuUsage /\ u \notin units
      BY <1>1
    <3>2. ASSUME u \in fuUsage, u \notin units PROVE \E x \in Ops : u \in using'[x]
      BY <3>2, <2>1, <2>2, <1>6
    <3>3. ASSUME NEW x \in Ops, u \in using'[x] PROVE u \in fuUsage /\ u \notin units
      <4>1. x \notin D /\ u \in using[x]
        BY <3>3, <1>6
      <4>2. \A y \in D : u \notin using[y]
        BY <4>1, <1>2, <1>3
      <4> QED
        BY <4>1, <4>2, <2>1, <2>2
    <3> QED
      BY <3>1, <3>2, <3>3
  <2> QED
    BY <2>3
<1>11. \A x, y \in Ops : x # y => using'[x] \cap using'[y] = {}
  BY <1>3, <1>6
<1>12. \A x \in Ops : using'[x] # {} => state'[x] = "running"
  BY <1>2, <1>3, <1>5, <1>6
<1> HIDE DEF units
<1>13. ASSUME NEW f \in FUs
       PROVE  fuAvalMap'[f] = Cardinality({u \in Units : FU(u) = f})
                               - Cardinality({u \in fuUsage' : FU(u) = f})
  <2>1. fuAvalMap[f] = Cardinality(OfKind(Units, f)) - Cardinality(OfKind(fuUsage, f))
    BY DEF UInv, UnitsAccountedFor, OfKind
  <2>2. {u \in units : FU(u) = f /\ f \in NotPipelined} = OfKind(units, f)
    BY <1>4 DEF OfKind, Holdable
  <2>3. fuAvalMap'[f] = fuAvalMap[f] + Cardinality(OfKind(units, f))
    BY <1>1, <2>2 DEF Freed
  <2>4. fuUsage \in SUBSET Units /\ units \in SUBSET fuUsage
    BY <1>4
  <2>5. /\ Cardinality(OfKind(fuUsage, f)) \in Nat /\ Cardinality(OfKind(units, f)) \in Nat
        /\ Cardinality(OfKind(fuUsage \ units, f))
            = Cardinality(OfKind(fuUsage, f)) - Cardinality(OfKind(units, f))
    BY <2>4, CountParts
  <2>6. Cardinality(OfKind(Units, f)) \in Nat
    <3>1. Units \in SUBSET Units /\ {} \in SUBSET Units
      OBVIOUS
    <3> QED
      BY <3>1, CountParts
  <2>7. Cardinality(OfKind(fuUsage', f)) = Cardinality(OfKind(fuUsage \ units, f))
    BY <1>1
  <2>8. fuAvalMap'[f] = Cardinality(OfKind(Units, f)) - Cardinality(OfKind(fuUsage', f))
    BY <2>1, <2>3, <2>5, <2>6, <2>7
  <2> QED
    BY <2>8 DEF OfKind
<1>14. UnitsAccountedFor'
  BY <1>10, <1>11, <1>12, <1>13 DEF UnitsAccountedFor
<1> QED
  BY <1>7, <1>8, <1>9, <1>14 DEF UInv

\* Every step keeps the invariant.
LEMMA NextUInv == UInv /\ [IssueNext]_issueVars => UInv'
<1> SUFFICES ASSUME UInv, [IssueNext]_issueVars
             PROVE  UInv'
  OBVIOUS
<1>1. CASE issueOne
  BY <1>1, IssueOneUInv
<1>2. CASE issueEnd \/ UNCHANGED issueVars
  <2>1. UNCHANGED <<naive, iter, ops, issueQueue, state, release, fuUsage, fuAvalMap, using, claims>>
    BY <1>2 DEF issueEnd, issueVars
  <2>2. IssueType' /\ QueueWaits' /\ NotYet' /\ ClaimsBlock' /\ OneInsnPerPort'
    BY <2>1 DEF UInv, IssueType, QueueWaits, NotYet, ClaimsBlock, OneInsnPerPort
  <2>3. UnitsAccountedFor'
    BY <2>1 DEF UInv, UnitsAccountedFor
  <2> QED
    BY <2>2, <2>3 DEF UInv
<1>3. CASE dispatch
  BY <1>3, DispatchUInv
<1>4. CASE commitExecute
  BY <1>4, CommitUInv
<1>5. CASE writeBack
  BY <1>5, WriteBackUInv
<1> QED
  BY <1>1, <1>2, <1>3, <1>4, <1>5 DEF IssueNext

\* IssueUnit and Core::writeBack: a unit that is not pipelined is held by at
\* most one instruction in execution, the counts by which sortFUs ranks the
\* kinds are right, and in the port model no port serves two instructions at
\* once; for every configuration of ports and units, every set of templates
\* and any number of instructions.
THEOREM PortsAndUnits == IssueSpec => []OneUserAtATime
<1>1. IssueInit => UInv
  BY InitUInv
<1>2. UInv /\ [IssueNext]_issueVars => UInv'
  BY NextUInv
<1>3. UInv => OneUserAtATime
  BY DEF UInv, OneUserAtATime
<1> QED
  BY <1>1, <1>2, <1>3, PTL DEF IssueSpec
================================================================================
