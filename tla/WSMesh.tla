------------------------------- MODULE WSMesh -------------------------------
(***************************************************************************)
(* The weight-stationary array: the memory controller that feeds it        *)
(* (WSMeshSDMemory), the square mesh of double-buffered cells (WSMeshMN,   *)
(* MultiplierWS) and the accumulation buffer below it                      *)
(* (WSAccumulationBuffer), driven by the controller's execute().           *)
(*                                                                         *)
(* Weights enter at the top and move down, activations enter at the left   *)
(* and move right, partial sums move down.  WSMeshMN::cycle visits the     *)
(* cells against the direction of the data, so a cell reads what its       *)
(* neighbours sent in the previous cycle: all cells step at once.          *)
(*                                                                         *)
(* The simulator moves packages, not numbers (the loads of the data are    *)
(* commented out), so a package is what it stands for: a weight is the     *)
(* preload it belongs to and its row k, an activation is the multiply and  *)
(* its row, a partial sum is the set of the products it sums.              *)
(***************************************************************************)
EXTENDS SyncFifo, FiniteSets

CONSTANTS
    Dim,        \* ms_rows = ms_cols
    TileM,      \* the T_M a multiply may have
    TileN,      \* the T_N a preload and its multiplies may have
    MaxPreload, \* bound: preloads in a behaviour
    MaxMul      \* bound: multiplies in a behaviour

(***************************************************************************)
(* The mesh is square: preload counts current_K down from ms_cols and      *)
(* sends ms_rows weights each time.  A tile has at least Dim - 1 rows:     *)
(* MatrixMultiplyFlip sets flip_counter whether or not it is still         *)
(* counting, and after a shorter tile the next flip overtakes it.          *)
(***************************************************************************)
ASSUME WSMeshAssumption ==
    /\ Dim \in Nat \ {0} /\ MaxPreload \in Nat /\ MaxMul \in Nat
    /\ TileN \subseteq 1 .. Dim
    /\ \A m \in TileM : m \in Nat \ {0} /\ m + 1 >= Dim

Idx   == 0 .. Dim - 1
Cells == Idx \X Idx

\* One read port for each column and each row (dn_bw in the configuration):
\* the distribution network below a port is a wire.
n_read_ports == Dim + Dim
ms_size_per_input_port == (Dim + Dim) \div n_read_ports

VARIABLES
    phase,      \* which part of Stonne::cycle runs next
    preloads,   \* the T_N of the preloads executed so far
    mults,      \* the multiplies executed so far: [tm, tn, batch]
    preloading, \* executing_preload_cmds is not empty (fu_idle[PRELOAD] is false)
    wleft,      \* weight rows still to send, current_K + 1; 0 is WS_IDLE
    asent,      \* current_M, rows_used when WS_IDLE
    cell,       \* the registers of the cells
    weightIn, psumIn, actIn,        \* connections between the cells
    topLine, leftLine, accLine,     \* delay lines of top_weight_fifo, left_fifo, accbuffer_fifo
    accPort,    \* write_port_connections of the accumulation buffer
    pending     \* pending_cmds: the multiply and the psums counted for it

memVars  == <<wleft, asent>>
wireVars == <<weightIn, psumIn, actIn, topLine, leftLine, accLine, accPort>>
wsVars   == <<phase, preloads, mults, preloading, memVars, cell, wireVars, pending>>

NoneIn == [x \in Cells |-> {}]

WSInit ==
    /\ phase = "collect"
    /\ preloads = <<>> /\ mults = <<>> /\ preloading = FALSE
    /\ wleft = 0 /\ asent = 0
    /\ cell = [x \in Cells |->
                 [prop |-> FALSE, flip_ready |-> TRUE, flip_counter |-> -1,
                  weight_count |-> 0, preload_finished |-> FALSE,
                  weight |-> [s \in {1, 2} |-> {}], count |-> [s \in {1, 2} |-> 0],
                  activation_limit |-> 1, limits |-> <<>>, do_output |-> FALSE]]
    /\ weightIn = NoneIn /\ psumIn = NoneIn /\ actIn = NoneIn
    /\ topLine = [c \in Idx |-> DelayLine(c + 1)]
    /\ leftLine = [r \in Idx |-> DelayLine(r + 1)]
    /\ accLine = [c \in Idx |-> DelayLine(Dim - c)]
    /\ accPort = [c \in Idx |-> {}]
    /\ pending = <<>>

-----------------------------------------------------------------------------
(* The signals the controller reads. *)

has_array_flipped == cell[0, 0].flip_ready

weights_preloaded == \A x \in Cells : cell[x].preload_finished

\* WSMeshSDMemory::is_idle; the latest multiply is the one being fed.
is_idle == IF mults = <<>> THEN TRUE ELSE asent = mults[Len(mults)].tm

is_psums_accumulated ==
    /\ pending # <<>>
    /\ LET m == mults[Head(pending).mm] IN Cardinality(Head(pending).psums) >= m.tm * m.tn

-----------------------------------------------------------------------------
reset_weights_preloaded_None == cell

reset_weights_preloaded == [x \in Cells |-> [cell[x] EXCEPT !.preload_finished = FALSE]]

(* First half of SAController::execute: what the array has completed. *)
collect ==
    /\ phase = "collect"
    /\ preloading' = (preloading /\ ~weights_preloaded)
    /\ cell' = IF weights_preloaded THEN reset_weights_preloaded ELSE cell
    /\ pending' = IF is_psums_accumulated THEN Tail(pending) ELSE pending
    /\ phase' = "start"
    /\ UNCHANGED <<preloads, mults, memVars, wireVars>>

(* Second half: the head of exe_contlr, if it can execute. *)
NoStart ==
    /\ phase = "start"
    /\ phase' = "cycle"
    /\ UNCHANGED <<preloads, mults, preloading, memVars, cell, wireVars, pending>>

\* Stonne::configMem, issued when no multiply is under way (programs put a
\* fence before CONFIG): WSMeshMN::setActivationLimit.
config(tm) ==
    /\ phase = "start"
    /\ pending = <<>>
    /\ cell' = [x \in Cells |-> [cell[x] EXCEPT !.activation_limit = tm]]
    /\ phase' = "cycle"
    /\ UNCHANGED <<preloads, mults, preloading, memVars, wireVars, pending>>

\* A preload is followed by the multiply that flips to its weights.
Unflipped ==
    /\ Len(preloads) > 0
    /\ IF mults = <<>> THEN TRUE ELSE mults[Len(mults)].batch < Len(preloads)

\* WSMeshSDMemory::preload and MultiplierWS::preload in every cell.
preload(tn) ==
    /\ phase = "start"
    /\ Len(preloads) < MaxPreload /\ ~Unflipped
    /\ ~preloading /\ has_array_flipped
    /\ preloads' = Append(preloads, tn)
    /\ preloading' = TRUE
    /\ wleft' = Dim
    /\ cell' = [x \in Cells |-> [cell[x] EXCEPT !.weight_count = 0, !.flip_ready = FALSE]]
    /\ phase' = "cycle"
    /\ UNCHANGED <<mults, asent, wireVars, pending>>

\* MultiplierWS::MatrixMultiply: a limit that takes effect when the first
\* activation arrives, unless the last one queued has the same T_M.
SetLimit(q, wait, m) ==
    IF q # <<>> /\ q[Len(q)].tm = m.tm THEN q
    ELSE Append(q, [in |-> wait, tm |-> m.tm, tn |-> m.tn])

FlipDelay_RowOnly(x) == x[1]

\* Cycles until the first activation of a multiply reaches a cell.
FlipDelay(x) == x[1] + x[2]

\* MatrixMultiply and MatrixMultiplyFlip of the memory, the cells and the
\* accumulation buffer.
MatrixMultiply(flip, tm) ==
    /\ phase = "start"
    /\ Len(mults) < MaxMul /\ Len(preloads) > 0 /\ (flip = Unflipped)
    /\ has_array_flipped /\ is_idle
    /\ LET m == [tm |-> tm, tn |-> preloads[Len(preloads)], batch |-> Len(preloads)] IN
        /\ mults' = Append(mults, m)
        /\ cell' = [x \in Cells |->
                     [cell[x] EXCEPT !.limits = SetLimit(@, x[1] + x[2], m),
                                     !.flip_counter = IF flip THEN FlipDelay(x) ELSE @]]
    /\ asent' = 0
    /\ pending' = Append(pending, [mm |-> Len(mults) + 1, psums |-> {}])
    /\ phase' = "cycle"
    /\ UNCHANGED <<preloads, preloading, wleft, wireVars>>

-----------------------------------------------------------------------------
(* WSMeshSDMemory::cycle: a row of weights and a row of activations. *)
WeightSent == IF wleft > 0 THEN {[batch |-> Len(preloads), k |-> wleft - 1]} ELSE {}

ActSent == IF is_idle THEN {} ELSE {[mm |-> Len(mults), row |-> asent]}

\* A row of weights goes to the columns, a column of activations to the rows
\* behind them: unicast packages.
ws_Packages == [dest : Idx, data : WeightSent] \cup [dest : {Dim + r : r \in Idx}, data : ActSent]

\* The fifo of a read port in this cycle: sendPackageToInputFifos puts every
\* package at dest / ms_size_per_input_port, send empties the fifos.
input_fifo(port) == {p.data : p \in {p \in ws_Packages : p.dest \div ms_size_per_input_port = port}}

\* setInputConnections: the first ports are the columns of the mesh.
TopConnection(c)  == input_fifo(c)
LeftConnection(r) == input_fifo(r + Dim)

(* MultiplierWS::receive: what a cell pops from its fifos in this cycle. *)
WeightOf(x) == IF x[1] = 0 THEN Popped(topLine[x[2]], TopConnection(x[2])) ELSE weightIn[x]
ActOf(x)    == IF x[2] = 0 THEN Popped(leftLine[x[1]], LeftConnection(x[1])) ELSE actIn[x]

\* The head of act_limit_queue when its cycle has come.
Due(s) == IF s.limits # <<>> /\ Head(s.limits).in = 0 THEN {Head(s.limits)} ELSE {}

Waited(q) == [i \in DOMAIN q |-> [q[i] EXCEPT !.in = @ - 1]]

\* Where the cell loads weights and which weights it multiplies with.
Load(prop) == IF prop THEN 1 ELSE 2
Used(prop) == 3 - Load(prop)

\* weight_count >= weight_limit: the weight that stays in this cell.
Full(x, s) == s.weight_count + Cardinality(WeightOf(x)) >= Dim - x[1]

\* prop after the flip countdown.
Prop(s) == IF s.flip_counter = 0 THEN ~s.prop ELSE s.prop

\* The counter of the buffer in use (c1_counter, c2_counter) after this cycle's activation.
Counted(x, s) == s.count[Load(Prop(s))] + Cardinality(ActOf(x))

LimitOf(s) == IF Due(s) = {} THEN s.activation_limit ELSE Head(s.limits).tm

\* MultiplierWS::cycle.  The package of the weight that stays has already been
\* deleted when its data is read; that it is this weight is what is modelled.
CellStep(x, s) ==
    LET w    == WeightOf(x)
        prop == Prop(s)
        done == Counted(x, s) >= LimitOf(s)
    IN  [prop |-> prop,
         flip_counter |-> IF s.flip_counter >= 0 THEN s.flip_counter - 1 ELSE -1,
         flip_ready |-> \/ done
                        \/ /\ ActOf(x) = {}
                           /\ Full(x, s) \/ (s.flip_ready /\ s.flip_counter # 0),
         weight_count |-> IF Full(x, s) THEN 0 ELSE s.weight_count + Cardinality(w),
         preload_finished |-> s.preload_finished \/ Full(x, s),
         weight |-> IF w = {} THEN s.weight ELSE [s.weight EXCEPT ![Load(prop)] = w],
         count |-> [s.count EXCEPT ![Load(prop)] = IF done THEN 0 ELSE Counted(x, s)],
         activation_limit |-> LimitOf(s),
         limits |-> Waited(IF Due(s) = {} THEN s.limits ELSE Tail(s.limits)),
         do_output |-> IF Due(s) # {} /\ x[1] = Dim - 1
                       THEN x[2] < Head(s.limits).tn ELSE s.do_output]

\* The partial sum a cell computes: its product added to what came from above.
Product(a, k, w) == [mm |-> a.mm, row |-> a.row, k |-> k, weight |-> w]

PsumOf(x) ==
    {UNION psumIn[x] \cup {Product(a, x[1], cell[x].weight[Used(Prop(cell[x]))])} : a \in ActOf(x)}

\* MultiplierWS::send.
WeightDown(x) == IF Full(x, cell[x]) THEN {} ELSE WeightOf(x)

AccOut(c) == IF cell'[<<Dim - 1, c>>].do_output THEN PsumOf(<<Dim - 1, c>>) ELSE {}

\* WSAccumulationBuffer::receive and accumulate: all that has arrived is
\* counted for the head of pending_cmds.
accumulate ==
    LET arrived == UNION {{[col |-> c, sum |-> p] : p \in accPort[c]} : c \in Idx}
    IN  pending' = IF arrived = {} THEN pending
                   ELSE [pending EXCEPT ![1].psums = @ \cup arrived]

\* mem->cycle, wsAB->cycle, msnet->cycle, dsnet->cycle.
cycle ==
    /\ phase = "cycle"
    /\ wleft' = IF wleft > 0 THEN wleft - 1 ELSE 0
    /\ asent' = IF is_idle THEN asent ELSE asent + 1
    /\ accumulate
    /\ cell' = [x \in Cells |-> CellStep(x, cell[x])]
    /\ weightIn' = [x \in Cells |-> IF x[1] = 0 THEN {} ELSE WeightDown(<<x[1] - 1, x[2]>>)]
    /\ psumIn' = [x \in Cells |-> IF x[1] = 0 THEN {} ELSE PsumOf(<<x[1] - 1, x[2]>>)]
    /\ actIn' = [x \in Cells |-> IF x[2] = 0 THEN {} ELSE ActOf(<<x[1], x[2] - 1>>)]
    /\ topLine' = [c \in Idx |-> Shifted(topLine[c], TopConnection(c))]
    /\ leftLine' = [r \in Idx |-> Shifted(leftLine[r], LeftConnection(r))]
    /\ accLine' = [c \in Idx |-> Shifted(accLine[c], AccOut(c))]
    /\ accPort' = [c \in Idx |-> Popped(accLine[c], AccOut(c))]
    /\ phase' = "collect"
    /\ UNCHANGED <<preloads, mults, preloading>>

-----------------------------------------------------------------------------
WSNext ==
    \/ collect
    \/ NoStart
    \/ \E tm \in TileM : config(tm)
    \/ \E tn \in TileN : preload(tn)
    \/ \E flip \in BOOLEAN, tm \in TileM : MatrixMultiply(flip, tm)
    \/ cycle

\* Core::run calls Stonne::cycle for ever.
WSSpec == WSInit /\ [][WSNext]_wsVars /\ WF_wsVars(WSNext)

-----------------------------------------------------------------------------
\* The sum of row i of multiply m: every product with the weights of its preload.
RowSum(m, i) ==
    {Product([mm |-> m, row |-> i], k, {[batch |-> mults[m].batch, k |-> k]}) : k \in Idx}

\* The psums counted for a multiply are its own, each the complete sum of one
\* row with the weights of its own preload, and none arrives when no multiply
\* is pending (the assert in WSAccumulationBuffer::accumulate).  It relates
\* the flip wave, the limits, the delay lines and the accumulation buffer over
\* overlapping multiplies.
ExactProducts ==
    /\ \A i \in DOMAIN pending :
         LET m == pending[i].mm IN
         pending[i].psums \subseteq
             {[col |-> c, sum |-> RowSum(m, r)] : c \in 0 .. mults[m].tn - 1,
                                                  r \in 0 .. mults[m].tm - 1}
    /\ phase = "cycle" /\ pending = <<>> => \A c \in Idx : accPort[c] = {}

\* Every preload and every multiply completes and leaves the array ready for
\* the next command.
ArrayQuiesces ==
    []<>(pending = <<>> /\ ~preloading /\ has_array_flipped /\ is_idle)

Signals == INSTANCE ArraySignals WITH
    multiplies <- Len(pending), flipped <- has_array_flipped, mem_idle <- is_idle,
    preloaded <- weights_preloaded, accumulated <- is_psums_accumulated

\* The mesh gives the controller the signals SAController.tla assumes of the
\* array: nothing is reported for work that was not asked for, nothing
\* reported is lost before it is read, and everything is reported in the end.
SignalsSpec == Signals!Spec /\ ArrayQuiesces
=============================================================================
