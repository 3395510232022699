------------------------------- MODULE OSMesh -------------------------------
(***************************************************************************)
(* The output-stationary array: the memory controller with its request     *)
(* queue (OSMeshSDMemory), the mesh of cells with two accumulators each    *)
(* (OSMeshMN, MultiplierOS) and the accumulation buffer below it           *)
(* (WSAccumulationBuffer), driven by SAController::execute.                *)
(*                                                                         *)
(* Weights move down, activations move right and their products stay in    *)
(* the cell; a finished accumulator leaves the cell as a partial sum and   *)
(* ripples down through the cells below.  As in WSMesh the cells step at   *)
(* once and packages stand for what they carry: an operand is its multiply *)
(* and k, a partial sum is its cell and the products it holds.             *)
(***************************************************************************)
EXTENDS SyncFifo, FiniteSets

CONSTANTS
    Side,       \* ms_rows = ms_cols, the configured T_M and T_N
    TileK,      \* the T_K a CONFIG may set
    MaxLoad,    \* bound: preloads in a behaviour
    MaxProd     \* bound: multiplies in a behaviour

(***************************************************************************)
(* Sums of one multiply take Side rows to leave the array: with a smaller  *)
(* T_K those of the next one would collide with them in computed_psum.     *)
(***************************************************************************)
ASSUME OSMeshAssumption ==
    /\ Side \in Nat \ {0} /\ MaxLoad \in Nat /\ MaxProd \in Nat
    /\ \A k \in TileK : k \in Nat /\ k >= Side

Pos  == 0 .. Side - 1
Grid == Pos \X Pos
Last == <<Side - 1, Side - 1>>

VARIABLES
    step,       \* which part of Stonne::cycle runs next
    padded_K,   \* Padded_T_K and every cell's activation_limit
    prods,      \* the multiplies executed so far: [stay, k, loads]
    loads,      \* preloads executed so far
    loading,    \* executing_preload_cmds is not empty
    executing,  \* executing_mm_cmds
    requests,   \* pending_requests: 0 for a preload, else the multiply
    current,    \* the request being distributed, {} when OS_IDLE
    sent,       \* rows or columns of it already sent
    loaded,     \* pending_cmds of the memory is not empty
    pe,         \* the registers of the cells
    wIn, aIn, pIn, sIn, \* connections: weights, activations, preloads, sums
    wLine, aLine, sLine, sPort,
    waiting     \* pending_cmds of the accumulation buffer

osWires == <<wIn, aIn, pIn, sIn, wLine, aLine, sLine, sPort>>
osVars  == <<step, padded_K, prods, loads, loading, executing, requests, current, sent,
             loaded, pe, osWires, waiting>>

Nothing == [x \in Grid |-> {}]

\* OSMeshSDMemory::OSMeshSDMemory: OS_IDLE with nothing pending.
MemoryIdle == requests = <<>> /\ current = {} /\ sent = 0 /\ loaded = FALSE

\* The members of MultiplierOS as they are declared.
NewCell ==
    [prop |-> FALSE, flip_ready |-> TRUE, flip_counter |-> -1,
     stay |-> TRUE, no_stay_cvt |-> -1, stay_cvt |-> -1,
     preload_counter |-> 0, psum_received |-> FALSE, compute_finish |-> FALSE,
     c |-> [i \in {1, 2} |-> {}], count |-> [i \in {1, 2} |-> 0],
     computed_psum |-> {}]

OSInit ==
    /\ step = "collect" /\ padded_K \in TileK
    /\ prods = <<>> /\ loads = 0 /\ loading = FALSE /\ executing = <<>>
    /\ MemoryIdle
    /\ pe = [x \in Grid |-> NewCell]
    /\ wIn = Nothing /\ aIn = Nothing /\ pIn = Nothing /\ sIn = Nothing
    /\ wLine = [c \in Pos |-> DelayLine(c + 1)]
    /\ aLine = [r \in Pos |-> DelayLine(r + 1)]
    /\ sLine = [c \in Pos |-> DelayLine(Side - c)]
    /\ sPort = [c \in Pos |-> {}]
    /\ waiting = <<>>

-----------------------------------------------------------------------------
(* The signals the controller reads. *)
os_flipped == pe[0, 0].flip_ready

psums_received == \A x \in Grid : pe[x].psum_received

is_compute_finished == pe[Last].compute_finish

os_accumulated == waiting # <<>> /\ Cardinality(Head(waiting).psums) >= Side * Side

\* The multiply that execute() completes: the oldest one, by the signal of the
\* last cell if it stays, else when the accumulation buffer has its sums.
Completed ==
    IF executing = <<>> THEN {}
    ELSE LET m == Head(executing) IN
         IF prods[m].stay THEN {x \in {m} : is_compute_finished}
         ELSE {x \in {m} : os_accumulated /\ Head(waiting).mm = m}

os_collect ==
    /\ step = "collect"
    /\ executing' = IF Completed = {} THEN executing ELSE Tail(executing)
    /\ waiting' = IF \E m \in Completed : ~prods[m].stay THEN Tail(waiting) ELSE waiting
    /\ LET taken == psums_received /\ loaded IN
        /\ loading' = (loading /\ ~taken)
        /\ loaded' = (loaded /\ ~taken)
        /\ pe' = IF taken THEN [x \in Grid |-> [pe[x] EXCEPT !.psum_received = FALSE]] ELSE pe
    /\ step' = "start"
    /\ UNCHANGED <<padded_K, prods, loads, requests, current, sent, osWires>>

os_idle ==
    /\ step = "start"
    /\ step' = "cycle"
    /\ UNCHANGED <<padded_K, prods, loads, loading, executing, requests, current, sent,
                   loaded, pe, osWires, waiting>>

\* Cells keep their sums: they do so from the start (stay is true), and after
\* MatrixMultiplyStay until a MatrixMultiply; a flip changes nothing about it.
Staying == prods = <<>> \/ prods[Len(prods)].stay

\* Stonne::configMem, after a fence and not among multiplies that stay: these
\* are reported complete by a compute_finish that nothing resets, so a fence
\* may be released while one still runs.
os_config(k) ==
    /\ step = "start"
    /\ prods = <<>> \/ ~Staying
    /\ executing = <<>> /\ waiting = <<>> /\ ~loading
    /\ padded_K' = k
    /\ step' = "cycle"
    /\ UNCHANGED <<prods, loads, loading, executing, requests, current, sent, loaded, pe,
                   osWires, waiting>>

\* OSMeshSDMemory::preload and MultiplierOS::preload in every cell.  A program
\* preloads only when the cells do not stay: the flip that must follow "cannot
\* work with stay", its sums would remain in the cells.
os_preload ==
    /\ step = "start"
    /\ loads < MaxLoad /\ ~Staying
    /\ ~loading /\ os_flipped
    /\ loads' = loads + 1 /\ loading' = TRUE
    /\ requests' = Append(requests, 0)
    /\ pe' = [x \in Grid |-> [pe[x] EXCEPT !.flip_ready = FALSE]]
    /\ step' = "cycle"
    /\ UNCHANGED <<padded_K, prods, executing, current, sent, loaded, osWires, waiting>>

Wave_RowOnly(x) == x[1]

\* Cycles until the operands of a multiply reach a cell.
Wave(x) == x[1] + x[2]

\* A preload the multiplies have not flipped to yet.
Preloaded == loads > (IF prods = <<>> THEN 0 ELSE prods[Len(prods)].loads)

\* MatrixMultiply, MatrixMultiplyStay and MatrixMultiplyFlip: the multiply
\* after a preload flips to it.
os_MatrixMultiply(kind) ==
    /\ step = "start"
    /\ Len(prods) < MaxProd
    /\ (kind = "flip") = Preloaded
    /\ os_flipped /\ current = {}
    /\ LET m == Len(prods) + 1 IN
        /\ prods' = Append(prods, [stay |-> kind = "stay", k |-> padded_K, loads |-> loads])
        /\ executing' = Append(executing, m)
        /\ requests' = Append(requests, m)
        /\ waiting' = IF kind = "stay" THEN waiting
                      ELSE Append(waiting, [mm |-> m, psums |-> {}])
    /\ pe' = [x \in Grid |->
               [pe[x] EXCEPT
                  !.flip_counter = IF kind = "flip" THEN Wave(x) ELSE @,
                  !.no_stay_cvt = IF kind = "nostay" /\ @ = -1 THEN Wave(x) ELSE @,
                  !.stay_cvt = IF kind = "stay" /\ @ = -1 THEN Wave(x) ELSE @]]
    /\ step' = "cycle"
    /\ UNCHANGED <<padded_K, loads, loading, current, sent, loaded, osWires>>

-----------------------------------------------------------------------------
(* OSMeshSDMemory::cycle: process_next_request when idle, then one row. *)
Serving == IF current = {} /\ requests # <<>> THEN {Head(requests)} ELSE current

RowsOf(r) == IF r = 0 THEN Side ELSE padded_K

OperandSent == {[mm |-> r, k |-> sent] : r \in Serving \ {0}}

PreloadSent == {sent : r \in Serving \cap {0}}

\* Weights and preloaded sums go to the columns, activations to the rows behind
\* them: unicast packages, one port for each (ms_size_per_input_port is 1).
os_Packages == [dest : Pos, type : {"PSUM"}, data : PreloadSent]
               \cup [dest : 0 .. 2 * Side - 1, type : {"OPERAND"}, data : OperandSent]

\* OSMeshSDMemory::send: psum_fifos before input_fifos, one package a port.
os_send(port) ==
    LET fifos == {p \in os_Packages : p.dest = port}
        psums == {p \in fifos : p.type = "PSUM"}
    IN  IF psums # {} THEN psums ELSE fifos

\* setInputConnections: what arrives from the top of a column, from the left of a row.
os_Top(c, type) == {p.data : p \in {p \in os_send(c) : p.type = type}}
os_Left(r)      == {p.data : p \in os_send(r + Side)}

Ended == \E r \in Serving : sent + 1 = RowsOf(r)

(* MultiplierOS::receive. *)
W(x) == IF x[1] = 0 THEN Popped(wLine[x[2]], os_Top(x[2], "OPERAND")) ELSE wIn[x]
A(x) == IF x[2] = 0 THEN Popped(aLine[x[1]], os_Left(x[1])) ELSE aIn[x]
P(x) == IF x[1] = 0 THEN os_Top(x[2], "PSUM") ELSE pIn[x]

Multiplied(x) == A(x) # {} /\ W(x) # {}

\* preload_counter == ms_rows - row_num: the partial sum that stays here.
Received(x) == pe[x].preload_counter + Cardinality(P(x)) = Side - x[1]

\* The registers after the countdowns at the top of cycle().
OsProp(s) == IF s.flip_counter = 0 THEN ~s.prop ELSE s.prop
StayNow(s) == s.stay_cvt = 0 \/ (s.stay /\ s.no_stay_cvt # 0)

Acc(s)   == IF OsProp(s) THEN 1 ELSE 2
Other(s) == 3 - Acc(s)

Sum(x, s)   == s.c[Acc(s)] \cup
                   {<<a, w>> : a \in A(x), w \in W(x)}
Terms(x, s) == s.count[Acc(s)] + (IF Multiplied(x) THEN 1 ELSE 0)
Hit(x, s)   == Terms(x, s) = padded_K

Leaves_Early(s) == s.count[Other(s)] + 1 = padded_K

\* The other accumulator is complete: it leaves the cell in this cycle.
Leaves(s) == s.count[Other(s)] = padded_K

Down(n) == IF n >= 0 THEN n - 1 ELSE -1

\* MultiplierOS::cycle.
PeStep(x, s) ==
    LET gotPsum == s.psum_received \/ Received(x)
        hit     == Hit(x, s)
    IN  [prop |-> IF hit /\ ~StayNow(s) THEN ~OsProp(s) ELSE OsProp(s),
         flip_counter |-> Down(s.flip_counter),
         flip_ready |-> hit \/ gotPsum
                        \/ (s.flip_ready /\ s.flip_counter # 0 /\ ~Multiplied(x)),
         stay |-> StayNow(s),
         no_stay_cvt |-> Down(s.no_stay_cvt),
         stay_cvt |-> Down(s.stay_cvt),
         preload_counter |-> IF Received(x) THEN 0 ELSE s.preload_counter + Cardinality(P(x)),
         psum_received |-> gotPsum,
         compute_finish |-> hit \/ (s.compute_finish /\ ~Multiplied(x)),
         c |-> [s.c EXCEPT ![Acc(s)] = Sum(x, s),
                           ![Other(s)] = IF gotPsum \/ Leaves(s) THEN {} ELSE @],
         count |-> [s.count EXCEPT ![Acc(s)] = IF hit /\ StayNow(s) THEN 0 ELSE Terms(x, s),
                                   ![Other(s)] = IF Leaves(s) THEN 0 ELSE @],
         computed_psum |-> IF sIn[x] # {} THEN sIn[x]
                           ELSE IF Leaves(s) THEN s.computed_psum ELSE {}]

\* psum_to_send.
Out(x) ==
    IF Leaves(pe[x]) THEN {[from |-> x, sum |-> pe[x].c[Other(pe[x])]]}
    ELSE pe[x].computed_psum

os_accumulate ==
    LET arrived == UNION {sPort[c] : c \in Pos}
    IN  waiting' = IF arrived = {} THEN waiting ELSE [waiting EXCEPT ![1].psums = @ \cup arrived]

From(dx, x, none, f(_)) == IF none THEN {} ELSE f(<<x[1] - dx[1], x[2] - dx[2]>>)

PreloadDown(x) == IF Received(x) THEN {} ELSE P(x)

\* mem->cycle, wsAB->cycle, msnet->cycle, dsnet->cycle.
os_cycle ==
    /\ step = "cycle"
    /\ current' = IF Ended THEN {} ELSE Serving
    /\ sent' = IF Serving = {} \/ Ended THEN 0 ELSE sent + 1
    /\ requests' = IF Ended THEN Tail(requests) ELSE requests
    /\ loaded' = (loaded \/ (current = {} /\ 0 \in Serving))
    /\ os_accumulate
    /\ pe' = [x \in Grid |-> PeStep(x, pe[x])]
    /\ wIn' = [x \in Grid |-> From(<<1, 0>>, x, x[1] = 0, W)]
    /\ aIn' = [x \in Grid |-> From(<<0, 1>>, x, x[2] = 0, A)]
    /\ pIn' = [x \in Grid |-> From(<<1, 0>>, x, x[1] = 0, PreloadDown)]
    /\ sIn' = [x \in Grid |-> From(<<1, 0>>, x, x[1] = 0, Out)]
    /\ wLine' = [c \in Pos |-> Shifted(wLine[c], os_Top(c, "OPERAND"))]
    /\ aLine' = [r \in Pos |-> Shifted(aLine[r], os_Left(r))]
    /\ sLine' = [c \in Pos |-> Shifted(sLine[c], Out(<<Side - 1, c>>))]
    /\ sPort' = [c \in Pos |-> Popped(sLine[c], Out(<<Side - 1, c>>))]
    /\ step' = "collect"
    /\ UNCHANGED <<padded_K, prods, loads, loading, executing>>

-----------------------------------------------------------------------------
OSNext ==
    \/ os_collect
    \/ os_idle
    \/ \E k \in TileK : os_config(k)
    \/ os_preload
    \/ \E kind \in {"stay", "nostay", "flip"} : os_MatrixMultiply(kind)
    \/ os_cycle

\* Core::run calls Stonne::cycle for ever.
OSSpec == OSInit /\ [][OSNext]_osVars /\ WF_osVars(OSNext)

-----------------------------------------------------------------------------
\* The multiplies whose products multiply m sends out: itself and the stay
\* multiplies right before it.
Chain(m) == {j \in 1 .. m : \A i \in j .. m - 1 : prods[i].stay}

FullSum(m) ==
    UNION {{<<[mm |-> j, k |-> k], [mm |-> j, k |-> k]>> : k \in 0 .. prods[j].k - 1}
             : j \in Chain(m)}

\* The sums counted for a multiply are the ones of its own cells, each with all
\* the products of the multiply and of the stay multiplies before it and no
\* other; none arrives when no multiply waits for one (the assert of
\* WSAccumulationBuffer::accumulate), and none overtakes another in
\* computed_psum (the assert of MultiplierOS::cycle).
ExactSums ==
    /\ \A i \in DOMAIN waiting :
         LET m == waiting[i].mm IN
         waiting[i].psums \subseteq {[from |-> x, sum |-> FullSum(m)] : x \in Grid}
    /\ step = "cycle" /\ waiting = <<>> => \A c \in Pos : sPort[c] = {}
    /\ step = "cycle" => \A x \in Grid : sIn[x] # {} /\ Leaves(pe[x]) => pe[x].computed_psum = {}

\* Every preload and every multiply completes and leaves the array ready.
OutputArrayQuiesces ==
    []<>(executing = <<>> /\ waiting = <<>> /\ ~loading /\ os_flipped /\ requests = <<>>)
=============================================================================
