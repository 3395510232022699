----------------------------- MODULE AdderTree ------------------------------
(***************************************************************************)
(* The reduction networks of the flexible STONNE array: the augmented      *)
(* reduction tree (CompilerART, ASNetwork, ASwitch) with its accumulation  *)
(* buffer, the folding-enabled tree (CompilerFEN, FENetwork, FEASwitch)    *)
(* and the collection bus that takes the sums to memory.                   *)
(*                                                                         *)
(* A virtual neuron (VN) is a run of neighbouring multipliers whose        *)
(* products are summed.  The compiler gives each adder of the tree a mode  *)
(* and enables the links between neighbours that have no common parent, so *)
(* that any runs can be summed at once; the adders then take packages from *)
(* their queues as they come.  A package is its VN and the sequence of     *)
(* products summed in it; a product is <<multiplier, how many came before  *)
(* it>>.  Receivers run before senders in a cycle, so all adders step at   *)
(* once and a connection is the tail of its receiver's queue.              *)
(***************************************************************************)
EXTENDS Naturals, Sequences, FiniteSets

LOCAL INSTANCE SequencesExt

CONSTANTS
    MsSize,     \* ms_size
    BusLines,   \* n_write_ports: lines of the collection bus
    Waves,      \* bound: sums a tile asks of each VN
    Plans,      \* sequences of tiles: [net, sizes of the VNs, n_folding]
    Lates       \* sets of multipliers that may be slower than the others

nlevels == CHOOSE n \in 1 .. MsSize : 2^n = MsSize

Adders(l) == 0 .. 2^l - 1
Leaf      == 0 .. MsSize - 1
Root      == <<0, 0>>
Extra     == <<0, 1>>     \* the second root of FENetwork
Node      == UNION {{<<l, a>> : a \in Adders(l)} : l \in 0 .. nlevels - 1} \cup {Extra}

-----------------------------------------------------------------------------
(* CompilerART::generate_art_signals and CompilerFEN::generate_fen_signals. *)
(* bits are the children of a level that carry data of this VN, parents the *)
(* adders that do.                                                          *)

\* FoldLeft, with the set to let TLC evaluate each result once.
Through(op(_, _), start, s) ==
    FoldLeft(LAMBDA a, i : CHOOSE r \in {op(x, i) : x \in {a}} : TRUE, start, s)

LeftSpan(bits, s)  == Cardinality({t \in 0 .. s : t .. s \subseteq bits})
RightSpan(bits, s) == Cardinality({t \in s .. MsSize - 1 : s .. t \subseteq bits})

\* The first and the last adder of a level have no forwarding link.
Single(l, c, a) ==
    IF {2 * a, 2 * a + 1} \cap c.bits = {} THEN c
    ELSE [c EXCEPT !.parents = @ \cup {a},
                   !.switches[<<l, a>>] = IF @ = "none" THEN "ADD_2_1" ELSE "FW_2_2"]

Towards_Smaller(left, right) == left < right

\* "Set direction from smaller to larger span": TRUE is to the left.
Towards(left, right) == left >= right

\* The link between two adders in use: from sends its sum to the other.
Linked(c, l, to, from) ==
    [c EXCEPT
        !.parents = @ \cup {to},
        !.links = [@ EXCEPT ![<<l, to>>] = "RECEIVE", ![<<l, from>>] = "SEND"],
        !.switches[<<l, to>>] = "ADD_3_1",
        !.switches[<<l, from>>] = IF @ = "none" THEN "ADD_2_1" ELSE "ADD_1_1_PLUS_FW_1_1"]

\* The link not in use: each of the adders used alone, for this VN or for a
\* second one.
Unlinked(c, l, a, used) ==
    LET mode(n) == IF c.switches[n] = "none" THEN "ADD_2_1"
                   ELSE IF c.links[n] = "none" THEN "FW_2_2" ELSE "ADD_1_1_PLUS_FW_1_1"
    IN  [c EXCEPT
            !.parents = @ \cup used,
            !.switches = [n \in Node |-> IF n \in {<<l, x>> : x \in used} THEN mode(n) ELSE @[n]],
            !.ok = @ /\ \A x \in used : c.links[<<l, x>>] = "none"
                                         \/ c.links[<<l, a + 1>>] = "SEND"]

\* An odd adder and the next one, which share a forwarding link.
Double(l, c, a) ==
    LET last   == 2 * a + 1
        left   == LeftSpan(c.bits, IF last \in c.bits THEN last ELSE last - 1)
        right  == RightSpan(c.bits, IF last + 1 \in c.bits THEN last + 1 ELSE last + 2)
        toLeft == Towards(left, right)
        beyond == IF toLeft THEN {last + 3, last + 4} ELSE {last - 2, last - 3}
    IN  IF left > 0 /\ right > 0 /\ beyond \cap c.bits = {}
        THEN Linked([c EXCEPT !.bits = {b \in @ : (b <= last) = toLeft}], l,
                    IF toLeft THEN a ELSE a + 1, IF toLeft THEN a + 1 ELSE a)
        ELSE Unlinked(c, l, a, {x \in {a} : left > 0} \cup {x \in {a + 1} : right > 0})

LevelStep(l, c) ==
    LET adder(d, a) == IF a = 0 \/ a = 2^l - 1 THEN Single(l, d, a)
                       ELSE IF a % 2 = 1 THEN Double(l, d, a) ELSE d
    IN  Through(adder, c, [i \in 1 .. 2^l |-> i - 1])

\* Where a complete sum is folded: the parent of an even adder, else the first
\* ancestor reached from the left, else the second root.
FoldNode(n) ==
    LET ups == {u \in 0 .. n[1] : (n[2] \div 2^u) % 2 = 0}
        u   == CHOOSE x \in ups : \A y \in ups : x <= y
    IN  IF n = Root \/ u = n[1] THEN Extra ELSE <<n[1] - u - 1, n[2] \div 2^(u + 1)>>

\* The one adder left with data of this VN is the one that completes its sum.
Completes(fen, l, c) ==
    LET done == [c EXCEPT !.bits = c.parents, !.parents = {}]
        last == <<l, CHOOSE a \in c.parents : TRUE>>
        fold == FoldNode(last)
    IN  IF Cardinality(c.parents) # 1 THEN done
        ELSE IF ~fen THEN [done EXCEPT !.toMemory = @ \cup {last}]
        ELSE [done EXCEPT !.toFold = @ \cup {last}, !.toMemory = @ \cup {fold},
                          !.switches[fold] = "FOLD", !.bits = {}]

First(sizes, v) == FoldLeft(LAMBDA a, b : a + b, 0, SubSeq(sizes, 1, v - 1))

\* The multipliers of the v-th VN: of one size in a dense tile.
VNLeaves(sizes, v) == First(sizes, v) .. First(sizes, v) + sizes[v] - 1

UsedLeaves(sizes) == 0 .. First(sizes, Len(sizes) + 1) - 1

generate_signals(fen, sizes) ==
    LET level(c, l) == IF c.bits = {} THEN c ELSE Completes(fen, l, LevelStep(l, c))
        neuron(c, v) == Through(level, [c EXCEPT !.bits = VNLeaves(sizes, v)],
                                [i \in 1 .. nlevels |-> nlevels - i])
        none == [n \in Node |-> "none"]
        start == [bits |-> {}, parents |-> {}, switches |-> none, links |-> none,
                  toMemory |-> {}, toFold |-> {}, ok |-> TRUE]
    IN  Through(neuron, start, [v \in 1 .. Len(sizes) |-> v])

enabling_links_AllMultipliers(sizes, c) ==
    [n \in Node |->
       {k \in {0, 1} :
          LET child == <<n[1] + 1, 2 * n[2] + k>> IN
          /\ n # Extra
          /\ \/ n[1] = nlevels - 1
             \/ n[1] < nlevels - 1 /\ c.switches[child] \in {"ADD_3_1", "ADD_1_1_PLUS_FW_1_1", "FW_2_2"}
             \/ n[1] < nlevels - 1 /\ c.switches[child] = "ADD_2_1" /\ c.links[child] = "none"}]

\* generate_art_enabling_links: does child k of an adder ever send it data?
generate_enabling_links(sizes, c) ==
    [n \in Node |->
       {k \in {0, 1} :
          LET child == <<n[1] + 1, 2 * n[2] + k>> IN
          /\ n # Extra
          /\ IF n[1] = nlevels - 1 THEN child[2] \in UsedLeaves(sizes)
             ELSE \/ c.switches[child] \in {"ADD_3_1", "ADD_1_1_PLUS_FW_1_1", "FW_2_2"}
                  \/ c.switches[child] = "ADD_2_1" /\ c.links[child] = "none"}]

-----------------------------------------------------------------------------
(* The order in which the networks create their switches, and the port of   *)
(* the collection bus each one gets (setMemoryConnections).                 *)
Switches(net) == IF net = "FEN" THEN Node ELSE Node \ {Extra}

Doubles(net) == {n \in Switches(net) : n[2] # 0 /\ n[2] # 2^n[1] - 1 /\ n # Extra}

Rank(n, S) == Cardinality({m \in S : m[1] < n[1] \/ (m[1] = n[1] /\ m[2] < n[2])})

Port(net, n) ==
    LET doubles == Doubles(net)
        i == IF n \in doubles THEN Rank(n, doubles) ELSE Rank(n, Switches(net) \ doubles)
    IN  IF n \in doubles
        THEN [line |-> (i \div 2) % BusLines, input |-> 2 * ((i \div 2) \div BusLines) + (i % 2)]
        ELSE [line |-> (i + Cardinality(doubles)) % BusLines,
              input |-> Cardinality(doubles) \div BusLines + 1 + (i \div BusLines)]

Nets == {"ART", "ART_ACC", "FEN"}

PortTable == [net \in Nets |-> [n \in Switches(net) |-> Port(net, n)]]

Line  == 0 .. BusLines - 1
Input == 0 .. MsSize \div BusLines

(***************************************************************************)
(* A port of its own for each switch: 4 lines for 8 multipliers would give *)
(* one port to two switches, and Connection::send overwrites.              *)
(***************************************************************************)
ASSUME AdderTreeAssumption ==
    /\ MsSize \in Nat /\ \E n \in 1 .. MsSize : MsSize = 2^n
    /\ BusLines \in Nat \ {0} /\ Waves \in Nat \ {0}
    /\ \A net \in Nets :
         /\ \A n \in Switches(net) : PortTable[net][n].input \in Input
         /\ \A m, n \in Switches(net) : PortTable[net][m] = PortTable[net][n] => m = n

VARIABLES
    plan,    \* the tiles still to configure
    conf,    \* the current one
    signals, \* what the compiler generated for it, and the children enabled
    slow,    \* multipliers whose operands may come late
    lag,     \* whether their operands are late in this cycle
    made,    \* products each multiplier has sent
    queue,   \* the input fifos of the switches
    reg,     \* current_psum and temporal_register of accumulators, fold nodes
    accfifo,     \* the input fifos of the accumulators
    bus,     \* the lines: next_input_selected and the input fifos
    arrived  \* the packages memory received for each VN

treeVars == <<plan, conf, signals, slow, lag, made, queue, reg, accfifo, bus, arrived>>

configure(t) ==
    LET c == generate_signals(t.net = "FEN", t.sizes)
    IN  [switches |-> c.switches, links |-> c.links, toMemory |-> c.toMemory,
         toFold |-> c.toFold, ok |-> c.ok, childs |-> generate_enabling_links(t.sizes, c)]

Configured(p) ==
    /\ plan' = Tail(p) /\ conf' = Head(p)
    /\ signals' \in {configure(Head(p))}
    /\ made' = [m \in Leaf |-> 0]
    /\ arrived' = [v \in 1 .. Len(Head(p).sizes) |-> <<>>]

NoFold == [n \in Node |-> [count |-> 0, sum |-> <<>>]]

TreeInit ==
    /\ \E p \in Plans :
         /\ plan = Tail(p) /\ conf = Head(p)
         /\ signals \in {configure(Head(p))}
         /\ arrived = [v \in 1 .. Len(Head(p).sizes) |-> <<>>]
    /\ slow \in Lates /\ lag = FALSE
    /\ made = [m \in Leaf |-> 0]
    /\ queue = [n \in Node |-> [left |-> <<>>, right |-> <<>>, link |-> <<>>, below |-> <<>>]]
    /\ reg = NoFold /\ accfifo = [n \in Node |-> <<>>]
    /\ bus = [l \in Line |-> [next |-> 0, fifo |-> [i \in Input |-> <<>>]]]

-----------------------------------------------------------------------------
(* ASwitch::cycle and FEASwitch::cycle. *)
Mode(n) == IF signals.switches[n] = "none" THEN "ADD_2_1" ELSE signals.switches[n]

HasLeft(n)  == queue[n].left # <<>>
HasRight(n) == queue[n].right # <<>>
HasLink(n)  == queue[n].link # <<>>

Operands(n) ==
    IF Mode(n) = "ADD_2_1" /\ HasLeft(n) /\ HasRight(n) THEN <<queue[n].left[1], queue[n].right[1]>>
    ELSE IF Mode(n) = "ADD_3_1" /\ HasLeft(n) /\ HasRight(n) /\ HasLink(n)
    THEN <<queue[n].left[1], queue[n].right[1], queue[n].link[1]>>
    ELSE <<>>

Added(ps) == [vn |-> ps[1].vn, terms |-> FlattenSeq([i \in DOMAIN ps |-> ps[i].terms])]

Front1(s) == IF s = <<>> THEN <<>> ELSE <<Head(s)>>

\* What the switch takes from the child of one side.
FromChild(n, mine, other, k) ==
    CASE Mode(n) = "FW_2_2" -> mine
      [] Mode(n) = "ADD_1_1_PLUS_FW_1_1" -> Front1(mine)
      [] Mode(n) = "ADD_2_1" /\ (other # <<>> \/ k \notin signals.childs[n]) -> Front1(mine)
      [] Mode(n) = "ADD_3_1" /\ Operands(n) # <<>> -> Front1(mine)
      [] OTHER -> <<>>

Left(n)  == FromChild(n, queue[n].left, queue[n].right, 1)
Right(n) == FromChild(n, queue[n].right, queue[n].left, 0)

\* What the adder makes of it, before it is sent to the parent or sideways.
Result(n) == IF Operands(n) # <<>> THEN <<Added(Operands(n))>> ELSE Left(n) \o Right(n)

\* The accumulation step of a FOLD node and of Accumulator::route.
Folded(r, p) == IF r.count = 0 THEN p ELSE Added(<<r.sum[1], p>>)

LastFold(r) == r.count + 1 = conf.folds

AfterFold(r, p) ==
    [count |-> IF LastFold(r) THEN 0 ELSE r.count + 1,
     sum |-> IF LastFold(r) THEN <<>> ELSE <<Folded(r, p)>>]

FoldOut(r, ps) == IF ps # <<>> /\ LastFold(r) THEN <<Folded(r, ps[1])>> ELSE <<>>

Up(n) ==
    CASE Mode(n) = "FOLD" -> FoldOut(reg[n], queue[n].below)
      [] Mode(n) = "ADD_1_1_PLUS_FW_1_1" -> IF n[2] % 2 = 0 THEN Right(n) ELSE Left(n)
      [] Mode(n) = "ADD_2_1" /\ signals.links[n] # "none" -> <<>>
      [] OTHER -> Result(n)

Sideways(n) ==
    CASE Mode(n) = "ADD_1_1_PLUS_FW_1_1" -> IF n[2] % 2 = 0 THEN Left(n) ELSE Right(n)
      [] Mode(n) = "ADD_2_1" /\ signals.links[n] # "none" -> Result(n)
      [] OTHER -> <<>>

\* Where a switch sends its result.
ToParent(n) == IF n \in signals.toMemory \cup signals.toFold THEN <<>> ELSE Up(n)
ToBus(n)    == IF n \in signals.toMemory THEN Up(n) ELSE <<>>
ToFold(n)   == IF n \in signals.toFold \ signals.toMemory THEN Up(n) ELSE <<>>

Neighbour(n) == <<n[1], IF n[2] % 2 = 0 THEN n[2] - 1 ELSE n[2] + 1>>

VNOf(m) == CHOOSE v \in DOMAIN conf.sizes : m \in VNLeaves(conf.sizes, v)

Sends(m) ==
    m \in UsedLeaves(conf.sizes) /\ made[m] < Waves * conf.folds /\ (m \in slow => ~lag)

\* What arrives at child k of a switch: a product or the result of an adder.
FromBelow(n, k) ==
    LET child == <<n[1] + 1, 2 * n[2] + k>> IN
    IF n = Extra THEN <<>>
    ELSE IF n[1] < nlevels - 1 THEN ToParent(child)
    ELSE IF Sends(child[2]) THEN <<[vn |-> VNOf(child[2]), terms |-> <<<<child[2], made[child[2]]>>>>]>>
    ELSE <<>>

Dropped(s, t) == SubSeq(s, Len(t) + 1, Len(s))

Folders(n) == {m \in signals.toFold : FoldNode(m) = n /\ ToFold(m) # <<>>}

\* receive_childs and receive_fwlink, after what the switch has taken out.
ChildFifo(n, fifo, taken, k) == Dropped(fifo, taken) \o FromBelow(n, k)
LinkFifo(n) ==
    (IF Len(Operands(n)) = 3 THEN Tail(queue[n].link) ELSE queue[n].link)
    \o (IF signals.links[n] = "RECEIVE" THEN Sideways(Neighbour(n)) ELSE <<>>)

SwitchStep(n) ==
    LET q == queue[n]
        folders == Folders(n)
    IN
    [left  |-> ChildFifo(n, q.left, Left(n), 0),
     right |-> ChildFifo(n, q.right, Right(n), 1),
     link  |-> LinkFifo(n),
     below |-> (IF Mode(n) = "FOLD" THEN Dropped(q.below, Front1(q.below)) ELSE q.below)
               \o (IF folders = {} THEN <<>> ELSE ToFold(CHOOSE m \in folders : TRUE))]

-----------------------------------------------------------------------------
(* The accumulators and the lines of the bus. *)
Accumulates == conf.net = "ART_ACC"

AccumulatorOut(n) == IF Accumulates THEN FoldOut(reg[n], accfifo[n]) ELSE ToBus(n)

\* The psums that a fold node or an accumulator adds up.
FoldIn(n) == IF Accumulates THEN accfifo[n]
             ELSE IF Mode(n) = "FOLD" THEN queue[n].below ELSE <<>>

\* CollectionBusLine::cycle: round robin from next_input_selected.
Inputs == MsSize \div BusLines + 1

Picked(l) ==
    LET ready == {d \in 0 .. Inputs - 1 : bus[l].fifo[(bus[l].next + d) % Inputs] # <<>>}
    IN  {(bus[l].next + d) % Inputs : d \in {e \in ready : \A f \in ready : e <= f}}

Collected(l) == IF Picked(l) = {} THEN <<>>
                ELSE <<Head(bus[l].fifo[CHOOSE i \in Picked(l) : TRUE])>>

SwitchAt == [net \in Nets |-> [l \in Line |-> [i \in Input |->
              {n \in Switches(net) : PortTable[net][n] = [line |-> l, input |-> i]}]]]

AtPort(l, i) ==
    LET at == SwitchAt[conf.net][l][i]
    IN  IF at = {} THEN <<>> ELSE AccumulatorOut(CHOOSE n \in at : TRUE)

LineStep(l) ==
    [next |-> IF Picked(l) = {} THEN bus[l].next ELSE ((CHOOSE i \in Picked(l) : TRUE) + 1) % Inputs,
     fifo |-> [i \in Input |-> Dropped(bus[l].fifo[i], IF i \in Picked(l) THEN <<i>> ELSE <<>>)
                               \o AtPort(l, i)]]

\* The sums a tile has to deliver for each VN.
Needed == IF conf.net = "ART" THEN Waves * conf.folds ELSE Waves

Complete == \A v \in DOMAIN conf.sizes : Len(arrived[v]) >= Needed

\* mem receives, Bus::cycle, AccumulationBuffer::cycle, ASNetwork::cycle and
\* the products of the multiplier network.
treeCycle ==
    /\ plan = <<>> \/ ~Complete
    /\ LET came == FlattenSeq([i \in 1 .. BusLines |-> Collected(i - 1)])
       IN  arrived' = [v \in DOMAIN arrived |->
                         arrived[v] \o SelectSeq(came, LAMBDA p : p.vn = v)]
    /\ bus' = [l \in Line |-> LineStep(l)]
    /\ accfifo' = [n \in Node |-> IF Accumulates THEN Dropped(accfifo[n], Front1(accfifo[n])) \o ToBus(n)
                               ELSE accfifo[n]]
    /\ reg' = [n \in Node |-> IF FoldIn(n) = <<>> THEN reg[n]
                               ELSE AfterFold(reg[n], Head(FoldIn(n)))]
    /\ queue' = [n \in Node |-> SwitchStep(n)]
    /\ made' = [m \in Leaf |-> IF Sends(m) THEN made[m] + 1 ELSE made[m]]
    /\ lag' \in BOOLEAN
    /\ UNCHANGED <<plan, conf, signals, slow>>

\* resetSignals and configureSignals, for the next tile: ASNetwork only, the
\* folding-enabled network has no resetSignals.
reconfigure ==
    /\ plan # <<>> /\ Complete
    /\ Configured(plan)
    /\ queue' = [n \in Node |-> [left |-> <<>>, right |-> <<>>, link |-> <<>>, below |-> <<>>]]
    /\ reg' = NoFold
    /\ UNCHANGED <<slow, lag, accfifo, bus>>

TreeNext == treeCycle \/ reconfigure

\* Stonne::run cycles for ever, and memory delivers every operand in the end.
TreeSpec ==
    TreeInit /\ [][TreeNext]_treeVars /\ []<><<TreeNext>>_treeVars /\ []<>~lag

-----------------------------------------------------------------------------
\* The i-th sum of a VN: the products of its multipliers, one of each per fold.
ExpectedSum(v, i) ==
    LET folds == IF conf.net = "ART" THEN 1 ELSE conf.folds
    IN  {<<m, k>> : m \in VNLeaves(conf.sizes, v), k \in (i - 1) * folds .. i * folds - 1}

\* The asserts of the switches and the accumulators in the coming cycle.
RouteAsserts(n) ==
    /\ \A i \in DOMAIN Operands(n) : Operands(n)[i].vn = Operands(n)[1].vn
    /\ Mode(n) \in {"ADD_3_1", "ADD_1_1_PLUS_FW_1_1"} => signals.childs[n] = {0, 1}
    /\ Mode(n) = "ADD_2_1" /\ HasLeft(n) /\ HasRight(n) => signals.childs[n] = {0, 1}
    /\ Mode(n) = "ADD_3_1" => signals.links[n] = "RECEIVE"
    /\ Mode(n) = "FOLD" => n \in signals.toMemory \ signals.toFold
    /\ Mode(n) = "ADD_1_1_PLUS_FW_1_1" /\ n[2] % 2 = 0 =>
         \A i \in DOMAIN Right(n) : Right(n)[i].vn # 1
    /\ Sideways(n) # <<>> => signals.links[n] = "SEND" /\ Len(Sideways(n)) = 1
    /\ Cardinality(Folders(n)) <= 1
    /\ reg[n].count > 0 /\ FoldIn(n) # <<>> => Head(FoldIn(n)).vn = reg[n].sum[1].vn

\* However the VNs are laid out and however late some products come, memory
\* receives for each VN its sums in order, each of exactly its own products,
\* and no assert of the compilers, the switches or the accumulators fails.
TreeSumsExact ==
    /\ signals.ok
    /\ \A n \in Switches(conf.net) : RouteAsserts(n)
    /\ \A v \in DOMAIN arrived :
         /\ Len(arrived[v]) <= Needed
         /\ \A i \in DOMAIN arrived[v] :
              /\ ToSet(arrived[v][i].terms) = ExpectedSum(v, i)
              /\ Len(arrived[v][i].terms) = Cardinality(ExpectedSum(v, i))

\* Once the multipliers have begun, every tile of the plan is reduced to the
\* end: no sum stays behind in a fifo of an adder that waits for an operand.
TreeDrains == []<>((\A m \in Leaf : made[m] = 0) \/ (plan = <<>> /\ Complete))
=============================================================================
