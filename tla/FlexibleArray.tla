--------------------------- MODULE FlexibleArray ----------------------------
(***************************************************************************)
(* The operand side of the flexible STONNE array: the memory controller    *)
(* that walks a convolution layer tile by tile (SDMemory), the tree that   *)
(* distributes its packages (DSNetwork) and the multipliers with their     *)
(* forwarding links (MSNetwork, CompilerMSN).  The reduction network is    *)
(* taken for what AdderTree establishes of it: for each virtual neuron it  *)
(* sums the next product of each of its multipliers, in order, and may be  *)
(* slow.                                                                   *)
(*                                                                         *)
(* Data are addresses: a word is <<>> (a zero of the padding) or <<its     *)
(* address>>, a product is <<>> or a pair of addresses, and a partial sum  *)
(* is the sequence of the products in it.                                  *)
(***************************************************************************)
EXTENDS Naturals, Sequences, FiniteSets

LOCAL INSTANCE SequencesExt

CONSTANTS
    NumMs,       \* num_ms
    ReadPorts,   \* n_read_ports
    Mappings,    \* the layers and their tiles
    Delays       \* sets of VNs whose sum may not be ready in a cycle

VARIABLES
    map,    \* the layer and the tile: [l, t, folds, flag]
    walk,   \* the current_* counters of SDMemory, in the order of Dims
    sending,  \* "weights", "inputs" or "finished" (input_finished)
    infifo, \* input_fifos
    psfifo, \* psum_fifos
    outs,   \* write_fifo
    vnat,   \* VNAT: the sums of each VN so far, which give its counters
    pixel,  \* current_output_pixel
    ofmap,  \* what is at output_address
    inlet,  \* inputConnection of each MSwitch
    fwlink, \* its inputForwardingConnection
    ms,     \* its fifos and counters
    psums,  \* what it has sent to the reduction network
    late    \* VNs whose sum is not ready in this cycle

flexVars == <<map, walk, sending, infifo, psfifo, outs, vnat, pixel, ofmap,
              inlet, fwlink, ms, psums, late>>

-----------------------------------------------------------------------------
MsSet == 0 .. NumMs - 1
Ports == 0 .. ReadPorts - 1
PerPort == NumMs \div ReadPorts      \* ms_size_per_input_port

ASSUME FlexibleAssumption ==
    NumMs \in Nat /\ ReadPorts \in Nat \ {0} /\ NumMs % ReadPorts = 0

\* Loop counters, from the innermost loop to the outermost.
Dims == <<"S", "R", "C", "Y", "X", "K", "G", "N">>

L == map.l
T == map.t

\* DNNLayer::DNNLayer: the rows and columns of the output.
OutDim(d, f) == (L[d] - L[f] + L.stride) \div L.stride

LayerExtent(d) == IF d = "X" THEN OutDim("X", "R") ELSE IF d = "Y" THEN OutDim("Y", "S") ELSE L[d]

\* setTile: iter_* = ceil(.../ T_*), and those of the VNAT.
Iter(d)     == (LayerExtent(d) + T[d] - 1) \div T[d]
VNATIter(d) == IF map.flag \/ d \notin {"S", "R", "C"} THEN Iter(d) ELSE 1

VNs     == T.N * T.G * T.K * T.X * T.Y
AuxShift   == IF map.flag THEN 1 ELSE 0
VN_Size == T.R * T.S * T.C + AuxShift
Psums   == VNATIter("R") * VNATIter("S") * VNATIter("C")      \* n_psums

output_pixels_to_compute == VNs * Psums * Iter("N") * Iter("G") * Iter("K") * Iter("X") * Iter("Y")
output_psums_per_channel == LayerExtent("X") * LayerExtent("Y") * Psums

MappingFits == VN_Size * VNs <= NumMs       \* the assert of CompilerMSN

\* A counter of the loops steps: the digits of the first n dimensions.
Carries(w, i) == \A j \in 1 .. i - 1 : w[j] = Iter(Dims[j]) - 1
Stepped(w, n) ==
    [i \in 1 .. 8 |-> IF i <= n /\ Carries(w, i) THEN (w[i] + 1) % Iter(Dims[i]) ELSE w[i]]

DimPos(d) == CHOOSE i \in 1 .. 8 : Dims[i] = d

\* index_*: where the current tile begins.
Index(w, d) == w[DimPos(d)] * T[d]

\* All the index tuples of five nested loops, in the order they are visited.
Nest(a, b, c, d, e) ==
    [i \in 1 .. a * b * c * d * e |->
       LET j == i - 1 IN
       <<j \div (b * c * d * e), (j \div (c * d * e)) % b, (j \div (d * e)) % c, (j \div e) % d, j % e>>]

-----------------------------------------------------------------------------
(* The layout of the layer in memory: channels are consecutive. *)
FilterAddr(g, k, r, s, c) == (((g * L.K + k) * L.R + r) * L.S + s) * L.C + c
InputAddr(n, x, y, g, c)  == (((n * L.X + x) * L.Y + y) * L.G + g) * L.C + c
OutputAddr(n, x, y, g, k) == (((n * LayerExtent("X") + x) * LayerExtent("Y") + y) * L.G + g) * L.K + k

VN(n, g, k, x, y) == (((n * T.G + g) * T.K + k) * T.X + x) * T.Y + y

\* The multiplier of a VN that holds the weight of row r, column s, channel c.
MsIndex(v, r, s, c) == v * VN_Size + c * T.R * T.S + r * T.S + s + AuxShift

\* SDMemory::setTile and CompilerMSN::generate_ms_signals.
Windowed == T.Y = 1 /\ L.stride = 1 /\ L.S % T.S = 0

Column(m) == ((m % VN_Size) - AuxShift) % T.S

Auxiliary(m) == map.flag /\ m % VN_Size = 0                  \* forward_psum
Mapped(m)    == m < VN_Size * VNs
FwSend(m)    == Windowed /\ Mapped(m) /\ ~Auxiliary(m) /\ Column(m) > 0
FwReceive(m) == Windowed /\ Mapped(m) /\ ~Auxiliary(m) /\ Column(m) < T.S - 1

FlexInit ==
    /\ map \in Mappings
    /\ MappingFits
    /\ walk = [i \in 1 .. 8 |-> 0] /\ sending = "weights"
    /\ infifo = [p \in Ports |-> <<>>] /\ psfifo = [p \in Ports |-> <<>>]
    /\ outs = <<>> /\ pixel = 0
    /\ vnat = [v \in 0 .. VNs - 1 |-> 0]
    /\ ofmap = [a \in 0 .. L.N * LayerExtent("X") * LayerExtent("Y") * L.G * L.K - 1 |-> <<>>]
    /\ inlet = [m \in MsSet |-> <<>>] /\ fwlink = [m \in MsSet |-> <<>>]
    /\ ms = [m \in MsSet |-> [weights |-> <<>>, acts |-> <<>>, fwd |-> <<>>, fold |-> 0, window |-> 0]]
    /\ psums = [m \in MsSet |-> <<>>]
    /\ late \in Delays

-----------------------------------------------------------------------------
(* SDMemory::cycle, first half: the packages of one step of the walk.  A    *)
(* package is its type, its word, the multipliers it is for and the         *)
(* iteration of K it belongs to.                                            *)
Iteration == pixel \div output_psums_per_channel

PckIteration == Index(walk, "G") * L.K + Index(walk, "K") * T.G

\* One weight goes to every VN that computes the same filter.
WeightPackage(i) ==
    LET g == i[1]  k == i[2]  c == i[3]  r == i[4]  s == i[5]
        within == /\ Index(walk, "R") + r < L.R /\ Index(walk, "S") + s < L.S
                  /\ Index(walk, "C") + c < L.C /\ Index(walk, "K") + k < L.K
    IN  [type |-> "WEIGHT", iter |-> PckIteration,
         data |-> IF within
                  THEN <<FilterAddr(Index(walk, "G") + g, Index(walk, "K") + k, Index(walk, "R") + r,
                                    Index(walk, "S") + s, Index(walk, "C") + c)>>
                  ELSE <<>>,
         dests |-> {MsIndex(VN(n, g, k, x, y), r, s, c) :
                      n \in 0 .. T.N - 1, x \in 0 .. T.X - 1, y \in 0 .. T.Y - 1}]

Weights ==
    LET order == Nest(T.G, T.K, T.C, T.R, T.S)
    IN  [i \in DOMAIN order |-> WeightPackage(order[i])]

x_inputs == T.R + (T.X - 1) * L.stride
y_inputs == T.S + (T.Y - 1) * L.stride

y_init_Nothing ==
    IF Windowed /\ T.S > 1 /\ walk[DimPos("Y")] > 0
    THEN IF walk[DimPos("S")] = Iter("S") - 1 THEN y_inputs - 1 ELSE y_inputs
    ELSE 0

\* The multipliers hand a window on to their neighbours: after the first one
\* of a row only its last column is sent.
y_init == IF Windowed /\ T.S > 1 /\ walk[DimPos("Y")] > 0 THEN y_inputs - 1 ELSE 0

\* The places of the windows of a tile that use row (column) x of its inputs.
Users(x, windows, width, inputs) ==
    {i \in 0 .. windows - 1 : /\ i * L.stride <= x /\ x <= i * L.stride + width - 1
                              /\ i * L.stride + width - 1 < inputs}

\* desp_n leaves T_G out, so only one of T_N and T_G may be above 1.
InputVN(n, g, k, x, y) == (n * T.K + g * T.K + k) * T.X * T.Y + x * T.Y + y

InputPackage(i) ==
    LET x == i[1]  y == i[2] + y_init  n == i[3]  g == i[4]  c == i[5]
        within == /\ Index(walk, "R") + x < T.X + L.R - 1
                  /\ Index(walk, "S") + y < T.Y + L.S - 1
                  /\ Index(walk, "C") + c < L.C
    IN  [type |-> "IACTIVATION", iter |-> PckIteration,
         data |-> IF within
                  THEN <<InputAddr(Index(walk, "N") + n,
                                   Index(walk, "X") * L.stride + x + Index(walk, "R"),
                                   Index(walk, "Y") * L.stride + y + Index(walk, "S"),
                                   Index(walk, "G") + g, Index(walk, "C") + c)>>
                  ELSE <<>>,
         dests |-> UNION {{MsIndex(InputVN(n, g, k, u, v), x - u * L.stride, y - v * L.stride, c)
                             : k \in 0 .. T.K - 1}
                          : u \in Users(x, T.X, T.R, x_inputs), v \in Users(y, T.Y, T.S, y_inputs)}]

Activations ==
    LET order == Nest(x_inputs, y_inputs - y_init, T.N, T.G, T.C)
    IN  [i \in DOMAIN order |-> InputPackage(order[i])]

\* Packages of a later K wait for the sums of the earlier ones.
Distributes == sending # "finished" /\ PckIteration <= Iteration

Packages == IF ~Distributes THEN <<>> ELSE IF sending = "weights" THEN Weights ELSE Activations

walkStep ==
    /\ walk' = IF ~Distributes THEN walk
               ELSE Stepped(walk, IF sending = "weights" THEN 3 ELSE 8)
    /\ sending' = IF ~Distributes THEN sending
                ELSE IF sending = "weights" THEN IF Carries(walk, 4) THEN "inputs" ELSE "weights"
                ELSE IF Carries(walk, 9) THEN "finished"
                ELSE IF Carries(walk, 6) THEN "weights" ELSE "inputs"

\* sendPackageToInputFifos: each port gets the part that is for its subtree.
PortOf(m) == m \div PerPort

ForPort(p, pcks) ==
    SelectSeq([i \in DOMAIN pcks |->
                 [pcks[i] EXCEPT !.dests = {m \in @ : PortOf(m) = p}]],
              LAMBDA q : q.dests # {})

\* An auxiliary multiplier does not look at its connection before an output.
Listens(m) == ~(Auxiliary(m) /\ ms[m].fold = 0)

-----------------------------------------------------------------------------
(* SDMemory::cycle, second half: the sums that arrive. *)
VNMs(v) == {m \in MsSet : Mapped(m) /\ m \div VN_Size = v}

\* The sums of the reduction network to one output: folds of them where the
\* network accumulates, one where the memory does.
PerOutput == IF map.flag THEN 1 ELSE map.folds

Ready(v) == v \notin late /\ \A m \in VNMs(v) : Len(psums[m]) >= PerOutput

SumOf(v) ==
    FlattenSeq([i \in 1 .. VN_Size |-> FlattenSeq(SubSeq(psums[v * VN_Size + i - 1], 1, PerOutput))])

Arrivals ==
    FlattenSeq([i \in 1 .. VNs |-> IF Ready(i - 1) THEN <<[vn |-> i - 1, data |-> SumOf(i - 1)]>> ELSE <<>>])

\* The loop compares its index with the shrinking size of the fifo.
Written(all) == (Len(all) + 1) \div 2

\* VNAT_Register::update steps the loops of a VN once for each sum: after n of
\* them its counters are the digits of n.
Below(d) ==
    CASE d = "Y" -> Psums
      [] d = "X" -> Psums * Iter("Y")
      [] d = "K" -> Psums * Iter("Y") * Iter("X")
      [] d = "G" -> Psums * Iter("Y") * Iter("X") * Iter("K")
      [] d = "N" -> Psums * Iter("Y") * Iter("X") * Iter("K") * Iter("G")

Digit(n, d) == IF d = "N" THEN n \div Below(d) ELSE (n \div Below(d)) % Iter(d)

\* Where the n-th sum of a VN goes: base_* plus index_*.
OutPlace(v, n, d) ==
    LET inner == [Y |-> 1, X |-> T.Y, K |-> T.X * T.Y, G |-> T.K * T.X * T.Y, N |-> T.G * T.K * T.X * T.Y]
    IN  Digit(n, d) * T[d] + ((v \div inner[d]) % T[d])

valid_value(v, n) == \A d \in {"Y", "X", "K", "G", "N"} : OutPlace(v, n, d) < LayerExtent(d)

VNATAddr(v, n) ==
    OutputAddr(OutPlace(v, n, "N"), OutPlace(v, n, "X"), OutPlace(v, n, "Y"), OutPlace(v, n, "G"), OutPlace(v, n, "K"))

\* How many sums of its VN were written before the j-th of this cycle.
Before(done, j) == vnat[done[j].vn] + Cardinality({i \in 1 .. j - 1 : done[i].vn = done[j].vn})

Writes(done, a) ==
    {j \in DOMAIN done : /\ valid_value(done[j].vn, Before(done, j))
                         /\ VNATAddr(done[j].vn, Before(done, j)) = a}

\* The sums that the memory accumulates further go back to their VN.
SentBack(done) ==
    LET again(j) == Before(done, j) % Psums < Psums - 1
        back(j)  == [type |-> "PSUM", iter |-> 0, data |-> done[j].data, dests |-> {done[j].vn * VN_Size}]
    IN  FlattenSeq([j \in DOMAIN done |-> IF again(j) THEN <<back(j)>> ELSE <<>>])

\* DSwitch::route_packages: a package goes down every branch with a receiver.
Branch(m, l) == {d \in MsSet : d \div (PerPort \div 2^l) = m \div (PerPort \div 2^l)}
Reaches(m, dests) == \A l \in {k \in 0 .. PerPort : 2^k <= PerPort} : Branch(m, l) \cap dests # {}

\* SDMemory::send and the distribution network: a package for each port, the
\* sums that were sent back first.
send(ps, is, iteration) ==
    LET sent == [p \in Ports |-> IF ps[p] # <<>> THEN <<Head(ps[p])>>
                                 ELSE SelectSeq(SubSeq(is[p], 1, IF is[p] = <<>> THEN 0 ELSE 1),
                                                LAMBDA q : q.iter <= iteration)]
        reached(m) == SelectSeq(sent[PortOf(m)], LAMBDA q : Reaches(m, q.dests))
    IN  /\ psfifo' = [p \in Ports |-> IF ps[p] # <<>> THEN Tail(ps[p]) ELSE ps[p]]
        /\ infifo' = [p \in Ports |-> IF ps[p] = <<>> /\ sent[p] # <<>> THEN Tail(is[p]) ELSE is[p]]
        /\ inlet' = [m \in MsSet |-> IF reached(m) # <<>> THEN reached(m)
                                     ELSE IF Listens(m) THEN <<>> ELSE inlet[m]]

memoryCycle ==
    \E all \in {outs \o Arrivals}, pcks \in {Packages} :
    \E done \in {SubSeq(all, 1, Written(all))} :
    \E ps \in {[p \in Ports |-> psfifo[p] \o ForPort(p, SentBack(done))]},
       is \in {[p \in Ports |-> infifo[p] \o ForPort(p, pcks)]} :
      /\ walkStep
      /\ outs' = SubSeq(all, Written(all) + 1, Len(all))
      /\ pixel' = pixel + Len(done)
      /\ vnat' = [v \in DOMAIN vnat |-> vnat[v] + Cardinality({j \in DOMAIN done : done[j].vn = v})]
      /\ ofmap' = [a \in DOMAIN ofmap |->
                     IF Writes(done, a) = {} THEN ofmap[a]
                     ELSE <<done[CHOOSE j \in Writes(done, a) : \A i \in Writes(done, a) : i <= j].data>>]
      /\ send(ps, is, (pixel + Len(done)) \div output_psums_per_channel)

-----------------------------------------------------------------------------
(* MSwitch::receive and MSwitch::cycle. *)
WeightsWith_Kept(m, w) == Append(ms[m].weights, w)

\* A weight that finds n_folding of them begins a new distribution.
WeightsWith(m, w) ==
    IF Len(ms[m].weights) = map.folds THEN <<w>> ELSE Append(ms[m].weights, w)

TakenIn(m) ==
    LET q == IF Listens(m) THEN inlet[m] ELSE <<>> IN
    [ms[m] EXCEPT
       !.weights = IF q # <<>> /\ q[1].type = "WEIGHT" THEN WeightsWith(m, q[1].data) ELSE @,
       !.acts = IF q # <<>> /\ q[1].type # "WEIGHT" THEN Append(@, q[1].data) ELSE @,
       !.fwd = @ \o (IF FwReceive(m) THEN fwlink[m] ELSE <<>>)]

\* Every window of a row after the first comes from the right.
Source(m, s) == IF FwReceive(m) /\ s.window > 0 THEN "fwd" ELSE "acts"

Fires(m, s) ==
    IF Auxiliary(m) THEN s.fold = 0 \/ s.acts # <<>>
    ELSE s[Source(m, s)] # <<>> /\ s.weights # <<>> /\ Len(s.weights) >= map.folds

MulWords(a, w) == IF a = <<>> \/ w = <<>> THEN <<>> ELSE <<<<w[1], a[1]>>>>

\* The auxiliary multiplier begins an output with a zero and then passes on
\* the sums the memory sends back.
Output(m, s) ==
    IF ~Auxiliary(m) THEN MulWords(Head(s[Source(m, s)]), Head(s.weights))
    ELSE IF s.fold = 0 THEN <<>> ELSE Head(s.acts)

Forwards(m, s) == ~Auxiliary(m) /\ FwSend(m) /\ s.window < LayerExtent("Y") - 1

Computed(m, s) ==
    LET fold   == (s.fold + 1) % map.folds
        window == IF fold = 0 THEN (s.window + 1) % LayerExtent("Y") ELSE s.window
    IN  IF Auxiliary(m)
        THEN [s EXCEPT !.fold = fold, !.acts = IF s.fold = 0 THEN @ ELSE Tail(@)]
        ELSE [s EXCEPT !.fold = fold, !.window = window,
                       ![Source(m, s)] = Tail(@),
                       !.weights = Append(Tail(@), Head(@))]

multiplierCycle ==
    \E s \in {[m \in MsSet |-> TakenIn(m)]} :
       LET on == {m \in MsSet : Mapped(m) /\ Fires(m, s[m])} IN
       /\ ms' = [m \in MsSet |-> IF m \in on THEN Computed(m, s[m]) ELSE s[m]]
       /\ psums' = [m \in MsSet |->
                      (IF Mapped(m) /\ Ready(m \div VN_Size)
                       THEN SubSeq(psums[m], PerOutput + 1, Len(psums[m])) ELSE psums[m])
                      \o (IF m \in on THEN <<Output(m, s[m])>> ELSE <<>>)]
       /\ fwlink' = [m \in MsSet |->
                       IF m + 1 \in on /\ Forwards(m + 1, s[m + 1])
                       THEN <<Head(s[m + 1][Source(m + 1, s[m + 1])])>>
                       ELSE IF FwReceive(m) THEN <<>> ELSE fwlink[m]]

execution_finished == pixel = output_pixels_to_compute

\* Memory, reduction network, multipliers, distribution network, in the order
\* Stonne::cycle has for the networks it builds; the simulator builds the
\* meshes only, so that nothing there drives SDMemory.
flexCycle ==
    /\ ~execution_finished
    /\ memoryCycle /\ multiplierCycle
    /\ late' \in Delays
    /\ UNCHANGED map

FlexNext == flexCycle

\* Stonne::run cycles until the layer is finished, and the reduction network
\* delivers in the end.
FlexSpec ==
    FlexInit /\ [][FlexNext]_flexVars
    /\ WF_flexVars(FlexNext) /\ []<>(late = {})

-----------------------------------------------------------------------------
\* The products of an output of the layer: the convolution itself.
Convolution(n, g, k, x, y) ==
    {<<FilterAddr(g, k, r, s, c), InputAddr(n, x * L.stride + r, y * L.stride + s, g, c)>> :
       r \in 0 .. L.R - 1, s \in 0 .. L.S - 1, c \in 0 .. L.C - 1}

\* When the layer is reported finished, every word of the output holds exactly
\* the products of its window and its filter, each once, whatever the tile and
\* however slow the sums of some neurons were.
LayerExact ==
    execution_finished =>
      \A n \in 0 .. L.N - 1, g \in 0 .. L.G - 1, k \in 0 .. L.K - 1,
         x \in 0 .. LayerExtent("X") - 1, y \in 0 .. LayerExtent("Y") - 1 :
        \E sum \in ToSet(ofmap[OutputAddr(n, x, y, g, k)]) :
           /\ ToSet(sum) = Convolution(n, g, k, x, y)
           /\ Len(sum) = L.R * L.S * L.C

\* A layer that is begun is finished in the end: no operand is lost, and nobody
\* waits for one that is not sent.
LayerFinishes ==
    []<>(execution_finished \/ (sending = "weights" /\ \A i \in 1 .. 8 : walk[i] = 0))
=============================================================================
