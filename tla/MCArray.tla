------------------------------- MODULE MCArray -------------------------------
(***************************************************************************)
(* The parts of the accelerator that are checked on their own: the systolic *)
(* meshes, the flexible array and its reduction networks, the tiling of the *)
(* Gemmini interface and the way of a network to it.  They share no state:  *)
(* a behaviour runs one of them, the others stay in one initial state.      *)
(***************************************************************************)
EXTENDS WSMesh, OSMesh, AdderTree, FlexibleArray, TiledMatmul, TiledConv, MLIRBridge

-----------------------------------------------------------------------------
(* Reduction networks. *)
Uniform(net, size, n, folds) == [net |-> net, sizes |-> [i \in 1 .. n |-> size], folds |-> folds]

\* All dense tiles, and sequences of tiles of different layout.
TreePlans ==
    {<<Uniform("ART", s, MsSize \div s, 1)>> : s \in 1 .. MsSize}
    \cup {<<Uniform(net, s, MsSize \div s, 2)>> : net \in {"ART_ACC", "FEN"}, s \in 2 .. MsSize}
    \cup {<<Uniform(net, s, 1, 2)>> : net \in {"ART_ACC", "FEN"}, s \in {1, 3, 6}}
    \cup {<<[net |-> "ART_ACC", sizes |-> z, folds |-> 2], Uniform("ART", 3, 3, 1), Uniform("ART_ACC", 5, 3, 2)>>
            : z \in {<<2, 6, 4>>, <<4, 2, 6, 2>>, <<6, 10>>}}

SlowSets == {{3, 8}, {0, 5, 9, 14}}

-----------------------------------------------------------------------------
(* Layers and tiles of the flexible array. *)
Layer(r, s, c, k, g, n, x, y, st) ==
    [R |-> r, S |-> s, C |-> c, K |-> k, G |-> g, N |-> n, X |-> x, Y |-> y, stride |-> st]

Mapping(layer, t, folds, flag) ==
    [l |-> layer, folds |-> folds, flag |-> flag,
     t |-> [R |-> t[1], S |-> t[2], C |-> t[3], K |-> t[4], G |-> t[5], N |-> t[6], X |-> t[7], Y |-> t[8]]]

FlexMappings ==
    { \* a window handed on from column to column, two filters at once
      Mapping(Layer(1, 2, 1, 4, 1, 1, 2, 4, 1), <<1, 2, 1, 2, 1, 1, 1, 1>>, 1, FALSE),
      \* two rows of outputs at once
      Mapping(Layer(2, 2, 1, 2, 1, 1, 3, 3, 1), <<2, 2, 1, 1, 1, 1, 2, 1>>, 1, FALSE),
      \* folding through memory
      Mapping(Layer(2, 2, 2, 2, 1, 1, 2, 3, 1), <<1, 2, 1, 2, 1, 1, 1, 1>>, 4, TRUE),
      \* folding in the reduction network
      Mapping(Layer(1, 3, 2, 2, 1, 1, 1, 4, 1), <<1, 3, 1, 2, 1, 1, 1, 1>>, 2, FALSE),
      \* a filter that the tile does not divide, two columns of outputs at once
      Mapping(Layer(1, 3, 1, 3, 1, 1, 1, 4, 1), <<1, 2, 1, 2, 1, 1, 1, 2>>, 2, FALSE),
      \* a window of two parts, of which both hand their columns on
      Mapping(Layer(1, 4, 1, 2, 1, 1, 1, 5, 1), <<1, 2, 1, 2, 1, 1, 1, 1>>, 2, FALSE),
      \* stride 2
      Mapping(Layer(2, 2, 1, 2, 1, 1, 4, 4, 2), <<2, 2, 1, 2, 1, 1, 1, 1>>, 1, FALSE),
      \* groups, and batches in one step and in two
      Mapping(Layer(1, 2, 1, 2, 2, 1, 1, 3, 1), <<1, 2, 1, 2, 2, 1, 1, 1>>, 1, FALSE),
      Mapping(Layer(1, 2, 1, 2, 1, 2, 1, 3, 1), <<1, 2, 1, 2, 1, 2, 1, 1>>, 1, FALSE),
      Mapping(Layer(1, 2, 1, 4, 1, 2, 1, 3, 1), <<1, 2, 1, 2, 1, 1, 1, 1>>, 1, FALSE) }

SumDelays == {{}, {0}, 0 .. 7}

-----------------------------------------------------------------------------
(* Products and convolutions of the Gemmini interface. *)
MatJob(i, j, k, f, b, r, c, d) ==
    [I |-> i, J |-> j, K |-> k, flow |-> f, bias |-> b, repeating |-> r, full_C |-> c, low_D |-> d,
     stride |-> [A |-> k, B |-> IF f = "WS" THEN k ELSE j, C |-> j, D |-> j]]

MatJobs ==
    {MatJob(i, j, k, f, b, FALSE, FALSE, FALSE) :
       i \in {1, 5, 8}, j \in {2, 7}, k \in {1, 4, 9}, f \in {"OS", "WS"}, b \in BOOLEAN}
    \cup \* parts of wider matrices
    {[MatJob(3, 5, 4, f, TRUE, TRUE, c, d) EXCEPT !.stride = [A |-> 6, B |-> 8, C |-> 9, D |-> 7]] :
       f \in {"OS", "WS"}, c \in BOOLEAN, d \in BOOLEAN}

\* Images of 6 by 6.
ConvOf(n, i, o, k, s, id, kd, p, r, b, dw) ==
    LET dilated == 6 + (id - 1) * 5
        outDim  == (dilated + 2 * p - (k + (kd - 1) * (k - 1))) \div s + 1
    IN  [batch |-> n, rows |-> 6, cols |-> 6, ich |-> i, och |-> o, orows |-> outDim, ocols |-> outDim,
         stride |-> s, idil |-> id, kdil |-> kd, padding |-> p, kdim |-> k, rot |-> r, bias |-> b, dw |-> dw]

ConvJobs ==
    {ConvOf(1, 3, 3, 3, s, 1, 1, p, FALSE, TRUE, dw) : s \in {1, 2}, p \in {0, 1}, dw \in BOOLEAN}
    \cup {ConvOf(2, 1, 2, 3, 1, 1, kd, 1, r, FALSE, FALSE) : kd \in {1, 2}, r \in BOOLEAN}
    \cup {ConvOf(1, 3, 5, 1, 2, 1, 1, 0, FALSE, TRUE, FALSE)}
    \cup {ConvOf(1, 2, 2, 3, 1, 2, 1, p, r, TRUE, FALSE) : p \in 0 .. 2, r \in BOOLEAN}

-----------------------------------------------------------------------------
(* Networks. *)
Matrix(name, elem, offset, rows, cols, stride) ==
    [buf |-> name, elem |-> elem, offset |-> offset, sizes |-> <<rows, cols>>, strides |-> <<stride, 1>>]

\* Rows of pad more words than columns.
Image(name, elem, offset, sizes, pad) ==
    LET row == sizes[4] + pad IN
    [buf |-> name, elem |-> elem, offset |-> offset, sizes |-> sizes,
     strides |-> <<sizes[2] * sizes[3] * row, sizes[3] * row, row, 1>>]

Operation(kind, memrefs) ==
    [kind |-> kind, form |-> "memref", args |-> memrefs, strides |-> <<>>, dilations |-> <<>>]

Fill(m) == Operation("fill", <<m>>)
Mul(a, b, c) == Operation("matmul", <<a, b, c>>)
ConvBy(a, b, c, s, d) == [Operation("conv", <<a, b, c>>) EXCEPT !.strides = s, !.dilations = d]

A23(elem, offset) == Matrix("A", elem, offset, 2, 3, 4)
B32(elem) == Matrix("B", elem, 0, 3, 2, 2)
C22(elem) == Matrix("C", elem, 0, 2, 2, 3)
D22(elem) == Matrix("D", elem, 0, 2, 2, 2)

SmallNetworks ==
    { \* products of products, and one that adds to what is there
      <<Fill(C22("f32")), Mul(A23("f32", 0), B32("f32"), C22("f32")),
        Fill(D22("f32")), Mul(C22("f32"), C22("f32"), D22("f32")),
        Mul(D22("f32"), C22("f32"), D22("f32"))>>,
      \* a part of a larger matrix, after a product that is left to the processor
      <<Fill(D22("f32")), [Mul(C22("f32"), C22("f32"), D22("f32")) EXCEPT !.form = "tensor"],
        Fill(C22("f32")), Mul(A23("f32", 2), B32("f32"), C22("f32"))>>,
      \* elements that are not elem_t; shapes that do not fit
      <<Fill(C22("i8")), Mul(A23("i8", 0), B32("i8"), C22("i8"))>>,
      <<Fill(C22("f32")), Mul(C22("f32"), B32("f32"), C22("f32"))>>,
      \* two element types
      <<Fill(C22("f32")), Mul(A23("f32", 0), B32("f32"), C22("f32")), Mul(A23("i8", 0), B32("i8"), C22("i8"))>>,
      <<Fill(D22("i32")), Mul(D22("i32"), D22("i32"), D22("i32"))>> }
    \cup \* convolutions of two channels of 3 by 4, at once or one after the other
    {<<Fill(Image("O", "f32", 1, <<1, 3, h, w>>, 0)),
       ConvBy(Image("I", "f32", off, <<1, 2, 3, 4>>, pad), Image("W", "f32", 0, <<3, 2, 2, 2>>, 0),
              Image("O", "f32", 1, <<1, 3, h, w>>, 0), s, d),
       Fill(Image("P", "f32", 0, <<1, 1, h, w>>, 1)),
       ConvBy(Image("O", "f32", 1, <<1, 3, h, w>>, 0), Image("V", "f32", 0, <<1, 3, 1, 1>>, 0),
              Image("P", "f32", 0, <<1, 1, h, w>>, 1), <<>>, <<>>)>>
       : off \in {0, 2}, pad \in {0, 1},
         h \in {1, 2}, w \in {2, 3}, s \in {<<>>, <<2, 2>>, <<1, 2>>}, d \in {<<>>, <<2, 2>>}}

\* Those in which every pixel lies in the image.
Fitting(op) ==
    op.kind = "conv" =>
        \A k \in {1, 2} :
            (op.args[3].sizes[k + 2] - 1) * (IF op.strides = <<>> THEN 1 ELSE op.strides[k])
            + (op.args[2].sizes[k + 2] - 1) * (IF op.dilations = <<>> THEN 1 ELSE op.dilations[k])
            < op.args[1].sizes[k + 2]

FittingNetworks == {<<>>} \cup {n \in SmallNetworks : \A i \in DOMAIN n : Fitting(n[i])}

-----------------------------------------------------------------------------
VARIABLE part       \* the part that runs

arrayVars == <<part, wsVars, osVars, treeVars, flexVars, tileVars, convVars, bridgeVars>>

MCInit ==
    /\ part \in {"ws", "os", "tree", "flex", "matmul", "conv", "network"}
    /\ IF part = "tree" THEN TreeInit
       ELSE TreeInit /\ plan = <<>> /\ conf = Uniform("ART", 2, 8, 1) /\ slow = {3, 8}
    /\ WSInit
    /\ OSInit /\ (part # "os" => padded_K = CHOOSE k \in TileK : TRUE)
    /\ FlexInit /\ (part # "flex" => map = (CHOOSE m \in FlexMappings : TRUE) /\ late = {})
    /\ TilingInit /\ (part # "matmul" => job = CHOOSE j \in MatJobs : TRUE)
    /\ ConvInit /\ (part # "conv" => conv = (CHOOSE c \in ConvJobs : TRUE) /\ D_sp_addr_row = 0)
    /\ BridgeInit /\ (part # "network" => code = <<>>)

wsPart     == part = "ws" /\ WSNext /\ UNCHANGED <<part, osVars, treeVars, flexVars, tileVars, convVars, bridgeVars>>
osPart     == part = "os" /\ OSNext /\ UNCHANGED <<part, wsVars, treeVars, flexVars, tileVars, convVars, bridgeVars>>
treePart   == part = "tree" /\ TreeNext /\ UNCHANGED <<part, wsVars, osVars, flexVars, tileVars, convVars, bridgeVars>>
flexPart   == part = "flex" /\ FlexNext /\ UNCHANGED <<part, wsVars, osVars, treeVars, tileVars, convVars, bridgeVars>>
matmulPart == part = "matmul" /\ TilingNext /\ UNCHANGED <<part, wsVars, osVars, treeVars, flexVars, convVars, bridgeVars>>
convPart   == part = "conv" /\ ConvNext /\ UNCHANGED <<part, wsVars, osVars, treeVars, flexVars, tileVars, bridgeVars>>
networkPart == part = "network" /\ BridgeNext /\ UNCHANGED <<part, wsVars, osVars, treeVars, flexVars, tileVars, convVars>>

\* A layer, a product, a convolution and a network end.
ended ==
    /\ \/ part = "flex" /\ execution_finished
       \/ part = "matmul" /\ stage = "done"
       \/ part = "conv" /\ convStep = "done"
       \/ part = "network" /\ (pass = "ended" \/ (pass = "run" /\ visited = Len(code)))
    /\ UNCHANGED arrayVars

MCNext == wsPart \/ osPart \/ treePart \/ flexPart \/ matmulPart \/ convPart \/ networkPart \/ ended

\* The fairness of WSSpec, OSSpec, TreeSpec and FlexSpec.
MCSpec ==
    /\ MCInit /\ [][MCNext]_arrayVars
    /\ WF_arrayVars(wsPart) /\ WF_arrayVars(osPart)
    /\ []<>(part # "tree") \/ []<><<treePart>>_arrayVars
    /\ []<>(part # "flex" \/ execution_finished) \/ []<><<flexPart>>_arrayVars
    /\ []<>~lag /\ []<>(late = {})
=============================================================================
