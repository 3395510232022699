------------------------------ MODULE MLIRBridge ------------------------------
(***************************************************************************)
(* How a network reaches the accelerator: the two MLIR passes that replace *)
(* linalg.matmul and linalg.conv_2d_nchw_fchw by calls                     *)
(* (src/mlir/lib/gemmini_matmul, gemmini_conv) and the runtime that the    *)
(* calls reach (src/gemmini_interface/mlir_gemmini_runtime.cpp), down to   *)
(* tiled_matmul_auto and tiled_conv_auto, which appear by what they        *)
(* compute (TiledMatmul and TiledConv have the rest).                      *)
(*                                                                         *)
(* Memory is a function from buffers to cells.  A cell holds the set of    *)
(* terms it is the sum of: {} is zero, {<<b, n>>} the word it had first,   *)
(* and <<k, x, y>> the k-th product of a sum.                              *)
(***************************************************************************)
EXTENDS Integers, Sequences, TLC

CONSTANTS
    Networks,       \* set of sequences of bufferized operations
    elem_t          \* element type the runtime is compiled for

VARIABLES
    code,           \* the operations, with the type of the function each calls
    pass,           \* "matmul", "conv": the pass under way; then "run"; "ended"
    visited,        \* operations the pass has walked, or the program has run
    callee,         \* pass -> element type of the function it declared
    store,          \* memory
    meaning         \* memory as linalg has it

bridgeVars == <<code, pass, visited, callee, store, meaning>>

NoFunc == "none"

Target(op) == op.args[Len(op.args)]

\* A memref in C: data, offset, sizes and strides.
Offset(m, idx) == LET At[d \in 0 .. Len(idx)] == IF d = 0 THEN m.offset ELSE At[d - 1] + idx[d] * m.strides[d]
                  IN  At[Len(idx)]

Upto(n) == 0 .. n - 1

Indices(m) == IF Len(m.sizes) = 2 THEN Upto(m.sizes[1]) \X Upto(m.sizes[2])
            ELSE Upto(m.sizes[1]) \X Upto(m.sizes[2]) \X Upto(m.sizes[3]) \X Upto(m.sizes[4])

\* No word of a memref lies past these.
Words(m) == 0 .. Offset(m, m.sizes)

Buffers(ops) == UNION {{ops[i].args[k] : k \in DOMAIN ops[i].args} : i \in DOMAIN ops}

FirstMemory(ops) ==
    [b \in {m.buf : m \in Buffers(ops)} |->
        [n \in UNION {Words(m) : m \in {x \in Buffers(ops) : x.buf = b}} |-> {<<b, n>>}]]

BridgeInit ==
    \E ops \in Networks :
        /\ code = [i \in DOMAIN ops |-> ops[i] @@ [func |-> NoFunc]]
        /\ pass = "matmul" /\ visited = 0
        /\ callee = [p \in {"matmul", "conv"} |-> NoFunc]
        /\ store = FirstMemory(ops) /\ meaning = FirstMemory(ops)

-----------------------------------------------------------------------------
(* The passes.                                                             *)

OperandRank == IF pass = "matmul" THEN 2 ELSE 4

\* The element type for which an operation needs the function.
Elem(op) == op.args[1].elem

\* castToDyn2D, castToDyn4D
Castable(m, elem) == Len(m.sizes) = OperandRank /\ m.elem = elem

\* The tests of runOnOperation.
Supported(op) ==
    /\ op.kind = pass /\ op.form = "memref"
    /\ Elem(op) \in {"i8", "f32"}
    /\ \A k \in 1 .. 3 : Castable(op.args[k], Elem(op))

\* getOrInsertCallee: a function that exists is taken as it is.  The matmul
\* pass compares its type, warns that it "will not rewrite", and returns it.
getOrInsertCallee(elem) == IF callee[pass] = NoFunc THEN elem ELSE callee[pass]

\* One operation of the walk.  The operation replaced is erased at its end.
visit ==
    /\ pass \in {"matmul", "conv"} /\ visited < Len(code)
    /\ visited' = visited + 1
    /\ LET op == code[visited + 1] IN
       IF Supported(op)
       THEN /\ code' = [code EXCEPT ![visited + 1].func = getOrInsertCallee(Elem(op))]
            /\ callee' = [callee EXCEPT ![pass] = getOrInsertCallee(Elem(op))]
       ELSE UNCHANGED <<code, callee>>
    /\ UNCHANGED <<pass, store, meaning>>

\* A call of other types than its function's is refused by MLIR's verifier.
Verified == \A i \in DOMAIN code : code[i].func \in {NoFunc, Elem(code[i])}

nextPass ==
    /\ pass \in {"matmul", "conv"} /\ visited = Len(code)
    /\ pass' = IF ~Verified THEN "ended" ELSE IF pass = "matmul" THEN "conv" ELSE "run"
    /\ visited' = 0
    /\ UNCHANGED <<code, callee, store, meaning>>

-----------------------------------------------------------------------------
(* What linalg says.                                                       *)

\* The sum over ks of Left(k) * Right(k).
SumOver(ks, Left(_), Right(_)) ==
    {<<k, Left(k), Right(k)>> : k \in {k \in ks : Left(k) # {} /\ Right(k) # {}}}

At(memory, m, idx) == memory[m.buf][Offset(m, idx)]

\* "strides" and "dilations", 1 when the operation does not have them.
extract2xI64(attribute) == IF attribute = <<>> THEN <<1, 1>> ELSE attribute

\* Place of the input under an output pixel and a weight.
Under(op, pixel, weight) ==
    [d \in 1 .. 2 |-> pixel[d] * extract2xI64(op.strides)[d] + weight[d] * extract2xI64(op.dilations)[d]]

Linalg(memory, op, idx) ==
    CASE op.kind = "fill" -> {}
      [] op.kind = "matmul" ->
            At(memory, op.args[3], idx) \cup
            SumOver({<<k>> : k \in Upto(op.args[1].sizes[2])},
                    LAMBDA k : At(memory, op.args[1], <<idx[1], k[1]>>),
                    LAMBDA k : At(memory, op.args[2], <<k[1], idx[2]>>))
      [] op.kind = "conv" ->
            LET in(k) == Under(op, <<idx[3], idx[4]>>, <<k[2], k[3]>>) IN
            At(memory, op.args[3], idx) \cup
            SumOver(Upto(op.args[2].sizes[2]) \X Upto(op.args[2].sizes[3]) \X Upto(op.args[2].sizes[4]),
                    LAMBDA k : At(memory, op.args[1], <<idx[1], k[1], in(k)[1], in(k)[2]>>),
                    LAMBDA k : At(memory, op.args[2], <<idx[2], k[1], k[2], k[3]>>))

\* memory with Value(idx) at Place(idx) of the output, for each index.
Put(memory, m, Place(_), Value(_)) ==
    LET idxs == Indices(m) IN
    [memory EXCEPT ![m.buf] =
        [n \in DOMAIN @ |-> LET here == {idx \in idxs : Place(idx) = n}
                            IN  IF here = {} THEN @[n] ELSE UNION {Value(idx) : idx \in here}]]

ByLinalg(memory, op) ==
    Put(memory, Target(op), LAMBDA idx : Offset(Target(op), idx), LAMBDA idx : Linalg(memory, op, idx))

-----------------------------------------------------------------------------
(* The runtime.                                                            *)

\* The tests of tiled_matmul_nn_auto_mlir.
MatmulAccepted(A, B, C) ==
    /\ A.sizes[2] = B.sizes[1] /\ C.sizes = <<A.sizes[1], B.sizes[2]>>
    /\ \A m \in {A, B, C} : m.strides[2] = 1

\* The place of an element from data, which leaves out offset.
DataPlace(m, idx) == idx[1] * m.strides[1] + idx[2]

tiled_matmul_nn_auto_mlir(op) ==
    LET A == op.args[1]  B == op.args[2]  C == op.args[3] IN
    Put(store, C, LAMBDA idx : DataPlace(C, idx),
        LAMBDA idx : SumOver({<<k>> : k \in Upto(A.sizes[2])},
                             LAMBDA k : store[A.buf][DataPlace(A, <<idx[1], k[1]>>)],
                             LAMBDA k : store[B.buf][DataPlace(B, <<k[1], idx[2]>>)]))

\* The tests of tiled_conv_2d_nchw_fchw_auto_mlir.
ConvAccepted(op) ==
    LET in == op.args[1]  w == op.args[2]  out == op.args[3] IN
    /\ \A m \in {in, w, out} : m.strides[4] = 1
    /\ \A a \in {op.strides, op.dilations} : extract2xI64(a)[1] = extract2xI64(a)[2]
    /\ w.sizes[2] = in.sizes[2] /\ w.sizes[3] = w.sizes[4]
    /\ out.sizes[1] = in.sizes[1] /\ out.sizes[2] = w.sizes[1]

\* Index into an array of the given sizes, the last dimension together.
Flat(sizes, idx) == ((idx[1] * sizes[2] + idx[2]) * sizes[3] + idx[3]) * sizes[4] + idx[4]

\* The order of dimensions of an array and of an index into it.
Nhwc == <<1, 3, 4, 2>>

\* Mutant: filters and channels the other way round.
Hwio_Swapped == <<3, 4, 1, 2>>

Hwio == <<3, 4, 2, 1>>

\* Where the element idx of m lies in a vector with the dimensions in that order.
PlaceIn(m, order, idx) ==
    Flat([i \in 1 .. 4 |-> m.sizes[order[i]]], [i \in 1 .. 4 |-> idx[order[i]]])

\* A vector filled by the loops over m: the dst of each element, and load4d of it.
Copied(m, order) ==
    [dst \in Upto(m.sizes[1] * m.sizes[2] * m.sizes[3] * m.sizes[4]) |->
        UNION {At(store, m, idx) : idx \in {x \in Indices(m) : PlaceIn(m, order, x) = dst}}]

\* tiled_conv_auto on input in NHWC and weights in HWIO, without padding.
tiled_conv_auto(op, input, weights, n, oc, pixel) ==
    LET in == op.args[1].sizes  w == op.args[2].sizes
        place(k) == Under(op, pixel, <<k[2], k[3]>>)
    IN  SumOver({k \in Upto(in[2]) \X Upto(w[3]) \X Upto(w[3]) :
                    place(k)[1] < in[3] /\ place(k)[2] < in[4]},
                LAMBDA k : input[Flat(<<in[1], in[3], in[4], in[2]>>, <<n, place(k)[1], place(k)[2], k[1]>>)],
                LAMBDA k : weights[Flat(<<w[3], w[3], in[2], w[1]>>, <<k[2], k[3], k[1], oc>>)])

\* The copies, the call, and the copy of the output back to NCHW.
tiled_conv_2d_nchw_fchw_auto_mlir(op) ==
    LET out == op.args[3]
        input == Copied(op.args[1], Nhwc)  weights == Copied(op.args[2], Hwio)
        output == [src \in Upto(out.sizes[1] * out.sizes[2] * out.sizes[3] * out.sizes[4]) |->
                      LET idx == CHOOSE x \in Indices(out) : PlaceIn(out, Nhwc, x) = src
                      IN  tiled_conv_auto(op, input, weights, idx[1], idx[2], <<idx[3], idx[4]>>)]
    IN  Put(store, out, LAMBDA idx : Offset(out, idx),
            LAMBDA idx : output[PlaceIn(out, Nhwc, idx)])

Accepted(op) ==
    IF op.kind = "conv" THEN ConvAccepted(op) ELSE MatmulAccepted(op.args[1], op.args[2], op.args[3])

\* Elements of another type than elem_t are read as what they are not.
Garbage(op) == Put(store, Target(op), LAMBDA idx : Offset(Target(op), idx), LAMBDA idx : {<<>>})

Called(op) ==
    IF op.func # elem_t THEN Garbage(op)
    ELSE IF op.kind = "matmul" THEN tiled_matmul_nn_auto_mlir(op)
    ELSE tiled_conv_2d_nchw_fchw_auto_mlir(op)

\* The next operation of the compiled program; std::abort ends it.
run ==
    /\ pass = "run" /\ visited < Len(code)
    /\ LET op == code[visited + 1] IN
       IF op.func # NoFunc /\ ~Accepted(op)
       THEN pass' = "ended" /\ UNCHANGED <<visited, store, meaning>>
       ELSE /\ store' = IF op.func = NoFunc THEN ByLinalg(store, op) ELSE Called(op)
            /\ meaning' = ByLinalg(meaning, op)
            /\ visited' = visited + 1 /\ UNCHANGED pass
    /\ UNCHANGED <<code, callee>>

BridgeNext == visit \/ nextPass \/ run

BridgeSpec == BridgeInit /\ [][BridgeNext]_bridgeVars

-----------------------------------------------------------------------------
\* The i-th operation starts from an output that the last write to it zeroed.
Zeroed(i) ==
    \E j \in 1 .. i - 1 :
        /\ code[j].kind = "fill" /\ Target(code[j]) = Target(code[i])
        /\ \A k \in j + 1 .. i - 1 : Target(code[k]).buf # Target(code[i]).buf

\* What torch-mlir and the bufferization make: zeroed outputs, elements of type
\* elem_t and, for a matrix multiplication, memrefs at the start of their data.
AsImported(i) ==
    /\ Zeroed(i) /\ Elem(code[i]) = elem_t
    /\ code[i].kind = "matmul" => \A k \in 1 .. 3 : code[i].args[k].offset = 0

\* A network that the passes rewrote and the runtime runs leaves in memory what
\* its linalg operations say, whatever the strides, offsets and layouts of its
\* buffers, through operations that use one another's results, and whichever of
\* them were left as they are.
NetworkComputed ==
    pass = "run" /\ (\A i \in 1 .. visited : code[i].func # NoFunc => AsImported(i)) => store = meaning
=============================================================================
