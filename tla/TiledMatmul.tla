----------------------------- MODULE TiledMatmul -----------------------------
(***************************************************************************)
(* The matrix multiply of gemmini.h: tiled_matmul_auto picks the tile      *)
(* sizes, tiled_matmul_outer walks over the tiles and sp_tiled_matmul_ws   *)
(* or sp_tiled_matmul_os turns a tile into accelerator commands.           *)
(*                                                                         *)
(* The commands are followed in program order: what is in each block of    *)
(* DIM rows of the scratchpad and the accumulator, and which products have *)
(* reached each block of C.  A block is named by the DRAM address the code *)
(* computes for it, in elements from the start of its matrix; the elements *)
(* themselves, scale factors and the activation are left out (act is       *)
(* neither LAYERNORM nor SOFTMAX, whose moves out are commented out).      *)
(* That a move of several blocks fills consecutive blocks of rows, and     *)
(* that the bits above the row number of an accumulator address select     *)
(* how it is accessed, is how the code uses the accelerator.               *)
(***************************************************************************)
EXTENDS GemminiParams, FiniteSets

CONSTANTS
    Quarter,    \* 1 << (ADDR_LEN - 2)
    Jobs        \* the calls: [I, J, K, stride, flow, bias, repeating, full_C, low_D]

ASSUME TilingAssumption ==
    /\ Quarter > SpadRows /\ Quarter > 2 * ACC_ROWS
    /\ \A j \in Jobs : /\ j.I > 0 /\ j.J > 0 /\ j.K > 0 /\ j.flow \in {"OS", "WS"}
                       /\ \A m \in {"C", "D"} : j.stride[m] >= j.J

Cmd == INSTANCE Command

VARIABLES
    job, tile,  \* the call and its tile sizes, in blocks
    stage,      \* "grow", "loop", "done"
    at,         \* <<i0, j0, k0>>
    todo,       \* the commands of the current tile still to be given
    sp, acc,    \* contents of the scratchpad and the accumulator, by block
    out         \* the blocks of C moved out, by their DRAM address

tileVars == <<job, tile, stage, at, todo, sp, acc, out>>

Padding(n) == Blocks(n) * DIM - n

-----------------------------------------------------------------------------
(* tiled_matmul_auto *)

DoubleBuffered(j) == j.flow = "WS"
max_spad_rows(j) == IF DoubleBuffered(j) THEN SpadRows \div 2 ELSE SpadRows
max_acc_rows(j)  == IF DoubleBuffered(j) THEN ACC_ROWS \div 2 ELSE ACC_ROWS

max_tile_i_j(j) ==
    CHOOSE s \in 0 .. ACC_ROWS : s * s <= max_acc_rows(j) \div DIM /\ (s + 1) * (s + 1) > max_acc_rows(j) \div DIM
max_tile_k(j) == ((max_spad_rows(j) \div 2) \div DIM) \div max_tile_i_j(j)

total_spad_rows(t) == (t.I * t.K + t.K * t.J) * DIM
total_acc_rows(t)  == t.I * t.J * DIM

Fits(t) == total_spad_rows(t) <= max_spad_rows(job) /\ total_acc_rows(t) <= max_acc_rows(job)

FirstTile(j) ==
    [I |-> Smaller(Blocks(j.I), max_tile_i_j(j)), J |-> Smaller(Blocks(j.J), max_tile_i_j(j)),
     K |-> Smaller(Blocks(j.K), max_tile_k(j))]

\* One larger in J, then in I, then in K, where that fits.
GrowJ(t) == LET u == [t EXCEPT !.J = @ + 1] IN IF Fits(u) /\ u.J <= Blocks(job.J) THEN u ELSE t
GrowI(t) == LET u == [t EXCEPT !.I = @ + 1] IN IF Fits(u) /\ u.I <= Blocks(job.I) THEN u ELSE t
GrowK(t) == LET u == [t EXCEPT !.K = @ + 1] IN IF Fits(u) /\ u.K <= Blocks(job.K) THEN u ELSE t

TilingInit ==
    /\ job \in Jobs /\ tile = FirstTile(job)
    /\ stage = "grow" /\ at = <<0, 0, 0>> /\ todo = <<>>
    /\ sp = <<>> /\ acc = <<>> /\ out = <<>>

grow ==
    /\ stage = "grow"
    /\ tile' = GrowK(GrowI(GrowJ(tile)))
    /\ stage' = IF tile' = tile THEN "loop" ELSE "grow"
    /\ UNCHANGED <<job, at, todo, sp, acc, out>>

-----------------------------------------------------------------------------
(* sp_tiled_matmul_ws and sp_tiled_matmul_os *)

A_sp_addr_start == 0
B_sp_addr_start(c) == SpadRows - c.K * c.J * DIM
D_sp_addr_start == 2 * Quarter
C_sp_addr_start == 3 * Quarter + (IF job.full_C THEN Quarter \div 2 ELSE 0)

\* The number of rows (columns) of block n of the N in a tile.
Extent(n, N, pad) == DIM - (IF n = N - 1 THEN pad ELSE 0)

\* A move of the blocks b .. b + len - 1 of N in a row.
MoveLen_Whole(b, len, N) == len
MoveLen(b, len, N) == Smaller(len, N - b)
Cols(b, len, N, pad) == len * DIM - (IF b + len >= N THEN pad ELSE 0)

\* The element at which block row, col of a matrix begins, from its start.
BlockOffset(mat, row, col) == (row * job.stride[mat] + col) * DIM

\* sizeof_C and sizeof_D: acc_t (int32_t) and elem_t (float) have one size.  The
\* code multiplies offsets by it that count elements already, since C and D
\* are cast to elem_t *.
sizeof == 4

Move(op, mat, dram, sp_addr, len, cols, rows) ==
    [op |-> op, mat |-> mat, dram |-> dram, sp |-> sp_addr, len |-> len,
     cols |-> cols, rows |-> rows]
Multiply(op, stay, a, b, c, T_N, T_K, T_M) ==
    [op |-> op, stay |-> stay, a |-> a, b |-> b, c |-> c, T_N |-> T_N, T_K |-> T_K, T_M |-> T_M]

\* c is the call for one tile: its sizes I, J, K, paddings pI, pJ, pK, and
\* where in the matrices it begins, as elements A, B, C and D.
MoveInD(c, D_blocks, size) ==
    When(c.pre /\ job.bias,
         Loop(c.I, LAMBDA i : Loop((c.J + D_blocks - 1) \div D_blocks, LAMBDA n :
             LET j == n * D_blocks
                 len == MoveLen(j, D_blocks, c.J)
                 bias_row == IF job.repeating THEN 0 ELSE i
             IN  <<Move("MOVE_IN_ACC", "D", c.D + size * BlockOffset("D", bias_row, j),
                        D_sp_addr_start + (i * c.J + j) * DIM, len,
                        Cols(j, len, c.J, c.pJ), Extent(i, c.I, c.pI))>>)))

MoveInA(c, i, k, A_blocks) ==
    LET len == MoveLen(k, A_blocks, c.K) IN
    <<Move("MOVE_IN", "A", c.A + BlockOffset("A", i, k), A_sp_addr_start + (i * c.K + k) * DIM, len,
           Cols(k, len, c.K, c.pK), Extent(i, c.I, c.pI))>>

MoveOutC(c, i, j, len) ==
    <<Move("MOVE_OUT", "C", c.C + sizeof * BlockOffset("C", i, j), C_sp_addr_start + (i * c.J + j) * DIM, len,
           Cols(j, len, c.J, c.pJ), Extent(i, c.I, c.pI))>>

sp_tiled_matmul_ws(c) ==
    LET A_blocks == Smaller(c.K, MAX_BLOCK_LEN)
        B_blocks == Smaller(c.K, MAX_BLOCK_LEN)
        D_blocks == Smaller(c.J, IF job.low_D THEN MAX_BLOCK_LEN ELSE MAX_BLOCK_LEN_ACC)
        C_blocks == IF job.full_C THEN 1 ELSE Smaller(c.J, MAX_BLOCK_LEN)
        B_sp(k, j) == B_sp_addr_start(c) + (j * c.K + k) * DIM
        MoveInB(k, j) ==
            LET len == MoveLen(k, B_blocks, c.K) IN
            <<Move("MOVE_IN", "B", c.B + BlockOffset("B", j, k), B_sp(k, j), len,
                   Cols(k, len, c.K, c.pK), Extent(j, c.J, c.pJ))>>
        Product(op, i, j, k) ==
            Multiply(op, FALSE, A_sp_addr_start + (i * c.K + k) * DIM, B_sp(k, j),
                     C_sp_addr_start + (i * c.J + j) * DIM,
                     Extent(j, c.J, c.pJ), Extent(k, c.K, c.pK), Extent(i, c.I, c.pI))
        body(k, j, i) ==
            When(j = 0 /\ k % A_blocks = 0, MoveInA(c, i, k, A_blocks))
            \o When(i = 0 /\ k % B_blocks = 0, MoveInB(k, j))
            \o (IF i = 0 THEN <<Product("PRELOAD", i, j, k), Product("MATRIX_MULTIPLY_FLIP", i, j, k)>>
                ELSE <<Product("MATRIX_MULTIPLY", i, j, k)>>)
            \o When(c.last /\ k = c.K - 1 /\ (j = c.J - 1 \/ j % C_blocks = C_blocks - 1),
                    LET rounded_j == (j \div C_blocks) * C_blocks IN
                    MoveOutC(c, i, rounded_j, MoveLen(rounded_j, C_blocks, c.J)))
    IN  MoveInD(c, D_blocks, sizeof)
        \o Loop(c.K, LAMBDA k : Loop(c.J, LAMBDA j : Loop(c.I, LAMBDA i : body(k, j, i))))

sp_tiled_matmul_os(c) ==
    LET A_blocks == Smaller(c.K, MAX_BLOCK_LEN)
        B_blocks == Smaller(c.J, MAX_BLOCK_LEN)
        D_blocks == Smaller(c.J, MAX_BLOCK_LEN_ACC)
        B_sp(k, j) == B_sp_addr_start(c) + (k * c.J + j) * DIM
        MoveInB(j, k) ==
            LET len == MoveLen(j, B_blocks, c.J) IN
            \* B is not transposed here, though the caller's offset is for one that is.
            <<Move("MOVE_IN", "B", c.B + BlockOffset("B", k, j), B_sp(k, j), len,
                   Cols(j, len, c.J, c.pJ), Extent(k, c.K, c.pK))>>
    IN  MoveInD(c, D_blocks, 1)
        \o Loop((c.J + B_blocks - 1) \div B_blocks, LAMBDA n :
                Loop(c.K, LAMBDA k : MoveInB(n * B_blocks, k)))
        \o Loop(c.I, LAMBDA i : Loop((c.K + A_blocks - 1) \div A_blocks, LAMBDA n :
                MoveInA(c, i, n * A_blocks, A_blocks)))
        \o Loop(c.I, LAMBDA i : Loop(c.J, LAMBDA j : Loop(c.K, LAMBDA k :
                <<Multiply("MATRIX_MULTIPLY", k # c.K - 1,
                           A_sp_addr_start + (i * c.K + k) * DIM, B_sp(k, j),
                           C_sp_addr_start + (i * c.J + j) * DIM,
                           Extent(j, c.J, c.pJ), Extent(k, c.K, c.pK), Extent(i, c.I, c.pI))>>)))
        \o When(c.last, Loop(c.I, LAMBDA i : Loop(c.J, LAMBDA j : MoveOutC(c, i, j, 1))))

-----------------------------------------------------------------------------
(* tiled_matmul_outer *)

Tiles(n, t) == n \div t + (IF n % t # 0 THEN 1 ELSE 0)
LastTile(n, t) == IF n % t = 0 THEN t ELSE n % t

I0 == Tiles(Blocks(job.I), tile.I)
J0 == Tiles(Blocks(job.J), tile.J)
K0 == Tiles(Blocks(job.K), tile.K)

\* The arguments for the tile i0, j0, k0.
Call(i0, j0, k0) ==
    [I |-> IF i0 < I0 - 1 THEN tile.I ELSE LastTile(Blocks(job.I), tile.I),
     J |-> IF j0 < J0 - 1 THEN tile.J ELSE LastTile(Blocks(job.J), tile.J),
     K |-> IF k0 < K0 - 1 THEN tile.K ELSE LastTile(Blocks(job.K), tile.K),
     pI |-> IF i0 = I0 - 1 THEN Padding(job.I) ELSE 0,
     pJ |-> IF j0 = J0 - 1 THEN Padding(job.J) ELSE 0,
     pK |-> IF k0 = K0 - 1 THEN Padding(job.K) ELSE 0,
     A |-> BlockOffset("A", i0 * tile.I, k0 * tile.K),
     B |-> BlockOffset("B", j0 * tile.J, k0 * tile.K),
     C |-> sizeof * BlockOffset("C", i0 * tile.I, j0 * tile.J),
     D |-> sizeof * BlockOffset("D", IF job.repeating THEN 0 ELSE i0 * tile.I, j0 * tile.J),
     pre |-> k0 = 0, last |-> k0 = K0 - 1]

Following(n) ==
    IF n[3] + 1 < K0 THEN <<n[1], n[2], n[3] + 1>>
    ELSE IF n[2] + 1 < J0 THEN <<n[1], n[2] + 1, 0>>
    ELSE <<n[1] + 1, 0, 0>>

nextTile ==
    /\ stage = "loop" /\ todo = <<>> /\ at[1] < I0
    /\ LET c == Call(at[1], at[2], at[3]) IN
       todo' = IF job.flow = "WS" THEN sp_tiled_matmul_ws(c) ELSE sp_tiled_matmul_os(c)
    /\ at' = Following(at)
    /\ UNCHANGED <<job, tile, stage, sp, acc, out>>

\* cosim_fence: the call is over.
fence ==
    /\ stage = "loop" /\ todo = <<>> /\ at[1] = I0
    /\ stage' = "done"
    /\ UNCHANGED <<job, tile, at, todo, sp, acc, out>>

-----------------------------------------------------------------------------
(* The commands, in program order *)

AccBlock(addr) == (addr % (Quarter \div 2)) \div DIM
Given == Head(todo)

\* The columns of the n-th block of a move.
ColsOf(m, n) == Smaller(DIM, m.cols - n * DIM)

\* The command as the controller sees it.
AsCommand(m) ==
    IF m.op = "MOVE_IN" THEN Cmd!MoveCommand("LOAD", m.op, m.sp, m.rows)
    ELSE IF m.op = "MOVE_IN_ACC" THEN Cmd!MoveCommand("LOAD_ACC", m.op, m.sp, m.rows)
    ELSE IF m.op = "MOVE_OUT" THEN Cmd!MoveCommand("STORE", m.op, m.sp, m.rows)
    ELSE Cmd!ComputeCommand(m.op, m.stay, m.a, m.b, m.c, m.T_M, m.T_N)

MovedBlock(m, n) ==
    [mat |-> m.mat, dram |-> m.dram + n * DIM, rows |-> m.rows, cols |-> ColsOf(m, n),
     by |-> AsCommand(m)]

moveIn ==
    /\ todo # <<>> /\ Given.op = "MOVE_IN"
    /\ sp' = With(sp, [b \in {Given.sp \div DIM + n : n \in 0 .. Given.len - 1} |->
                         MovedBlock(Given, b - Given.sp \div DIM)])
    /\ todo' = Tail(todo)
    /\ UNCHANGED <<job, tile, stage, at, acc, out>>

moveInAcc ==
    /\ todo # <<>> /\ Given.op = "MOVE_IN_ACC"
    /\ acc' = With(acc, [b \in {AccBlock(Given.sp) + n : n \in 0 .. Given.len - 1} |->
                           [bias |-> {MovedBlock(Given, b - AccBlock(Given.sp))}, terms |-> <<>>]])
    /\ todo' = Tail(todo)
    /\ UNCHANGED <<job, tile, stage, at, sp, out>>

preloadTile ==
    /\ todo # <<>> /\ Given.op = "PRELOAD"
    /\ todo' = Tail(todo)
    /\ UNCHANGED <<job, tile, stage, at, sp, acc, out>>

Place(b) == <<b.mat, b.dram, b.rows, b.cols>>
Held(b) == IF b \in DOMAIN acc THEN acc[b] ELSE [bias |-> {}, terms |-> <<>>]

multiply ==
    /\ todo # <<>> /\ Given.op \in Cmd!MMOps
    /\ LET b == AccBlock(Given.c) IN
       acc' = With(acc, [x \in {b} |->
                [Held(b) EXCEPT !.terms =
                    Append(@, <<Place(sp[Given.a \div DIM]), Place(sp[Given.b \div DIM]),
                                <<Given.T_M, Given.T_K, Given.T_N>> >>)]])
    /\ todo' = Tail(todo)
    /\ UNCHANGED <<job, tile, stage, at, sp, out>>

\* What is moved out is done with.
moveOut ==
    /\ todo # <<>> /\ Given.op = "MOVE_OUT"
    /\ LET blocks == {AccBlock(Given.sp) + n : n \in 0 .. Given.len - 1}
           nth(o)  == (o - Given.dram) \div DIM
           from(o) == Held(AccBlock(Given.sp) + nth(o))
       IN  /\ out' = With(out, [o \in {Given.dram + n * DIM : n \in 0 .. Given.len - 1} |->
                        [bias |-> {Place(d) : d \in from(o).bias}, terms |-> from(o).terms,
                         rows |-> Given.rows, cols |-> ColsOf(Given, nth(o))]])
           /\ acc' = [b \in DOMAIN acc \ blocks |-> acc[b]]
    /\ todo' = Tail(todo)
    /\ UNCHANGED <<job, tile, stage, at, sp>>

TilingNext == grow \/ nextTile \/ moveIn \/ moveInAcc \/ preloadTile \/ multiply \/ moveOut \/ fence

TilingSpec == TilingInit /\ [][TilingNext]_tileVars

-----------------------------------------------------------------------------
\* The extent of block n of a dimension of d elements.
Size(n, d) == Extent(n, Blocks(d), Padding(d))

BlocksOfC == (0 .. Blocks(job.I) - 1) \X (0 .. Blocks(job.J) - 1)

\* Where the code has block i, j of C or D: the first block of each move at
\* sizeof_C or sizeof_D times its offset, the others of the move right behind it.
Displaced(mat, i, j, blocks) ==
    LET behind == (j % tile.J) % blocks
    IN  sizeof * BlockOffset(mat, i, j - behind) + behind * DIM

PlaceOfC(i, j) ==
    Displaced("C", i, j, IF job.flow = "OS" \/ job.full_C THEN 1 ELSE MAX_BLOCK_LEN)

\* sp_tiled_matmul_os does not scale the offset of D.
PlaceOfD(i, j) ==
    IF job.flow = "OS" THEN BlockOffset("D", i, j)
    ELSE Displaced("D", i, j, IF job.low_D THEN MAX_BLOCK_LEN ELSE MAX_BLOCK_LEN_ACC)

\* What block i, j of C is made of: its bias, and for each k the blocks of A and
\* B with the number of elements taken (matmul_cpu).
ExpectedBias(i, j) ==
    IF ~job.bias THEN {}
    ELSE {<<"D", PlaceOfD(IF job.repeating THEN 0 ELSE i, j), Size(i, job.I), Size(j, job.J)>>}

ExpectedTerms(i, j) ==
    [n \in 1 .. Blocks(job.K) |->
       LET k == n - 1 IN
       << <<"A", BlockOffset("A", i, k), Size(i, job.I), Size(k, job.K)>>,
          IF job.flow = "WS" THEN <<"B", BlockOffset("B", j, k), Size(j, job.J), Size(k, job.K)>>
          ELSE <<"B", BlockOffset("B", k, j), Size(k, job.K), Size(j, job.J)>>,
          <<Size(i, job.I), Size(k, job.K), Size(j, job.J)>> >>]

\* The calls output stationary is asked about: one tile holds B (see
\* sp_tiled_matmul_os), and one tile all rows of the bias, whose offset is scaled
\* in tiled_matmul_outer only.
OneTile == J0 = 1 /\ K0 = 1 /\ (job.bias /\ ~job.repeating => I0 = 1)

\* The commands compute the product: every block of C is moved out once its bias
\* and all its products, each once and of the right elements of A and B, have
\* reached the accumulator, whatever the sizes and however the matrices are cut
\* into tiles.  The claim is not that blocks of C and D are where they belong:
\* the code displaces all but the first one (PlaceOfC, PlaceOfD).  It is that the
\* offsets of tile, row and move add up to one address for each block, and that
\* no two blocks of C have the same.
TilesExact ==
    stage = "done" /\ (job.flow = "WS" \/ OneTile) =>
      /\ DOMAIN out = {PlaceOfC(c[1], c[2]) : c \in BlocksOfC}
      /\ \A c \in BlocksOfC :
           out[PlaceOfC(c[1], c[2])] =
             [bias |-> ExpectedBias(c[1], c[2]), terms |-> ExpectedTerms(c[1], c[2]),
              rows |-> Size(c[1], job.I), cols |-> Size(c[2], job.J)]
      /\ acc = <<>>

\* The tiles found fit: tiled_matmul accepts them, A and B do not meet in the
\* scratchpad and C stays within its half of the accumulator.
TilingFits ==
    /\ Fits(tile) /\ tile.I > 0 /\ tile.J > 0 /\ tile.K > 0
    /\ tile.I <= Blocks(job.I) /\ tile.J <= Blocks(job.J) /\ tile.K <= Blocks(job.K)
    /\ \A b \in DOMAIN acc : (b + 1) * DIM <= max_acc_rows(job)
    /\ \A b \in DOMAIN sp : b >= 0 /\ (b + 1) * DIM <= SpadRows

\* The tiles fit and their commands compute the product.
TilingCorrect == TilingFits /\ TilesExact

\* "MM vs LOAD_ACC, load D into accbuf before MM writes to accbuf"
\* (Command::overlap): a multiply that adds to a block of the accumulator is made
\* to wait for the move that puts the bias there.
BiasLoadedFirst ==
    todo # <<>> /\ Given.op \in Cmd!MMOps =>
      \A d \in Held(AccBlock(Given.c)).bias : Cmd!overlap(AsCommand(Given), d.by)
=============================================================================
