------------------------------ MODULE TiledConv ------------------------------
(***************************************************************************)
(* The convolutions of gemmini.h: tiled_conv_stride_auto (or, for the      *)
(* depthwise ones, tiled_conv_dw_auto) picks the tile sizes, tiled_conv    *)
(* walks over the slices and sp_tiled_conv turns a slice into moves and    *)
(* multiplies.                                                             *)
(*                                                                         *)
(* A row of the scratchpad holds up to DIM channels of one pixel or of one *)
(* weight, a row of the accumulator those of one output pixel.  A product  *)
(* is named by the pixel and the weight it multiplies; values, scale       *)
(* factors and the activation are left out.  Pooling makes sp_tiled_conv   *)
(* exit, and its transpositions are commented out: neither is modelled.    *)
(* The strides of moves and multiplies are those of the configuration      *)
(* calls that the code keeps as comments (gemmini_extended5_config_ld,     *)
(* gemmini_extended3_config_ex).                                           *)
(***************************************************************************)
EXTENDS GemminiParams, FiniteSets

CONSTANT
    Convs   \* the calls: [batch, rows, cols, ich, och, orows, ocols, stride, idil,
            \*             kdil, padding, kdim, rot, bias, dw]

ASSUME ConvAssumption ==
    \A c \in Convs :
      /\ c.kdim > c.padding /\ c.idil \in {1, 2} /\ (c.idil = 2 => c.stride = 1)
      /\ c.dw => c.ich = c.och /\ c.idil = 1 /\ c.kdil = 1 /\ ~c.rot

VARIABLES
    conv,       \* the call
    args,       \* <<batches, orows, ocols, ochs, krows, kcols, kchs>> of a slice
    convStep,       \* "shrink", "widen", "enlarge", "slices", "done"
    slice,      \* the loop counters <<b, porow, pocol, poch, krow, kcol, kch>>
    D_sp_addr_row, C_sp_addr_row,   \* static in sp_tiled_conv
    accu,       \* contents of the accumulator, by row
    image       \* what was moved to each element of the output

convVars == <<conv, args, convStep, slice, D_sp_addr_row, C_sp_addr_row, accu, image>>

RoundUp(n, d) == (n + d - 1) \div d
Dilated(k) == k + (conv.kdil - 1) * (k - 1)
Shift(x, b) == IF b THEN x \div 2 ELSE x
Tests(b) == IF b THEN 1 ELSE 0

downsample ==
    /\ conv.stride = 2 /\ conv.kdim = 1 /\ conv.rows % 2 = 0 /\ conv.cols % 2 = 0
    /\ conv.padding = 0 /\ conv.idil = 1 /\ ~conv.dw
input_dilated == conv.idil = 2

-----------------------------------------------------------------------------
(* tiled_conv_stride_auto and tiled_conv_dw_auto *)

max_args(c) ==
    <<c.batch, c.orows, c.ocols, IF c.dw THEN 1 ELSE c.och, c.kdim, c.kdim, IF c.dw THEN 1 ELSE c.ich>>

conv_spad_rows(a) ==
    LET irows == RoundUp(a[2] * conv.stride + Dilated(a[5]) - 1, conv.idil)
        icols == RoundUp(a[3] * conv.stride + Dilated(a[6]) - 1, conv.idil)
    IN  Blocks(a[7]) * a[1] * Shift(irows, downsample) * Shift(icols, downsample)
        + Blocks(a[4]) * a[6] * a[5] * a[7]
conv_acc_rows(a) == Blocks(a[4]) * a[1] * a[2] * a[3]

ConvFits(a) == conv_spad_rows(a) <= SpadRows \div 2 /\ conv_acc_rows(a) <= ACC_ROWS \div 2

\* The first of the largest sizes, ocols only when the array stays full.
Reducible(a) == {i \in 1 .. 7 : ~(i = 3 /\ a[3] <= DIM /\ a[2] > 1)}
LargestArg(a) ==
    CHOOSE i \in Reducible(a) : \A k \in Reducible(a) : a[i] > a[k] \/ (a[i] = a[k] /\ i <= k)

FewerChannels(n) ==
    LET m == IF n % DIM # 0 THEN (n \div DIM) * DIM ELSE n - DIM IN IF m = 0 THEN 1 ELSE m

Reduce(a) ==
    LET i == LargestArg(a) IN
    [a EXCEPT ![i] = IF i = 4 \/ (i = 7 /\ ~conv.dw) THEN FewerChannels(@) ELSE @ - 1]

Increase(a, i) ==
    LET u == [a EXCEPT ![i] = @ + 1] IN IF u[i] <= max_args(conv)[i] /\ ConvFits(u) THEN u ELSE a

IncreaseEach(a) ==
    Increase(Increase(Increase(Increase(Increase(Increase(Increase(a, 1), 2), 3), 4), 5), 6), 7)

ConvInit ==
    /\ conv \in Convs /\ args = max_args(conv) /\ convStep = "shrink"
    /\ slice = <<0, 0, 0, 0, 0, 0, 0>>
    /\ D_sp_addr_row \in {0, ACC_ROWS \div 2} /\ C_sp_addr_row = D_sp_addr_row
    /\ accu = <<>> /\ image = <<>>

shrinkArgs ==
    /\ convStep = "shrink"
    /\ IF ConvFits(args) THEN convStep' = "widen" /\ UNCHANGED args
       ELSE args' = Reduce(args) /\ UNCHANGED convStep
    /\ UNCHANGED <<conv, slice, D_sp_addr_row, C_sp_addr_row, accu, image>>

widenCols ==
    /\ convStep = "widen"
    /\ args' = Increase(args, 3)
    /\ convStep' = IF args' = args THEN "enlarge" ELSE convStep
    /\ UNCHANGED <<conv, slice, D_sp_addr_row, C_sp_addr_row, accu, image>>

enlargeArgs ==
    /\ convStep = "enlarge"
    /\ args' = IncreaseEach(args)
    /\ convStep' = IF args' = args THEN "slices" ELSE convStep
    /\ UNCHANGED <<conv, slice, D_sp_addr_row, C_sp_addr_row, accu, image>>

-----------------------------------------------------------------------------
(* tiled_conv and tiled_conv_dw: the arguments of one slice *)

Channels == IF conv.dw THEN <<conv.batch, conv.orows, conv.ocols, conv.och, conv.kdim, conv.kdim, 1>>
            ELSE max_args(conv)

\* The padding before and after a slice that starts at `from` and is n long, in
\* an input of size dim.
PadBefore(from) ==
    LET p == IF from < 0 THEN 0 - from ELSE 0
    IN  p + Tests(input_dilated /\ p = 0 /\ from % 2 # 0)
PadAfter(from, n, dim) ==
    LET p == IF from + n > dim THEN from + n - dim ELSE 0
    IN  p + Tests(input_dilated /\ p = 0 /\ (from + n) % 2 # 1)

SliceCall(at) ==
    LET size(i) == Smaller(args[i], Channels[i] - at[i])
        irow == at[2] * conv.stride + at[5] * conv.kdil - conv.padding
        icol == at[3] * conv.stride + at[6] * conv.kdil - conv.padding
        irows == size(2) * conv.stride + Dilated(size(5)) - 1
        icols == size(3) * conv.stride + Dilated(size(6)) - 1
        in_rows == conv.rows + (conv.idil - 1) * (conv.rows - 1)
        in_cols == conv.cols + (conv.idil - 1) * (conv.cols - 1)
        whole == at[5] + args[5] >= conv.kdim /\ at[6] + args[6] >= conv.kdim
    IN  [at |-> at,
         batches |-> size(1), orows |-> size(2), ocols |-> size(3), ochs |-> size(4),
         krows |-> size(5), kcols |-> size(6), kchs |-> size(7),
         irows |-> irows, icols |-> icols,
         upad |-> PadBefore(irow), dpad |-> PadAfter(irow, irows, in_rows),
         lpad |-> PadBefore(icol), rpad |-> PadAfter(icol, icols, in_cols),
         input |-> <<at[1], Shift(irow + PadBefore(irow), input_dilated),
                     Shift(icol + PadBefore(icol), input_dilated),
                     IF conv.dw THEN at[4] ELSE at[7]>>,
         weights |-> IF conv.rot THEN <<conv.kdim - at[5] - size(5), conv.kdim - at[6] - size(6)>>
                     ELSE <<at[5], at[6]>>,
         bias |-> at[5] = 0 /\ at[6] = 0 /\ at[7] = 0,
         \* tiled_conv moves every slice out, tiled_conv_dw only the last of a pixel
         output |-> conv.dw => whole]

\* The loops: the last counter that can still advance does.
NextSlice(at) ==
    LET more == {i \in 1 .. 7 : at[i] + args[i] < Channels[i]}
        i == CHOOSE n \in more : \A m \in more : m <= n
    IN  [n \in 1 .. 7 |-> IF n < i THEN at[n] ELSE IF n = i THEN at[n] + args[n] ELSE 0]
LastSlice(at) == \A i \in 1 .. 7 : at[i] + args[i] >= Channels[i]

-----------------------------------------------------------------------------
(* sp_tiled_conv *)

\* Mutant: half, rounded down.
Undilated_Floor(x) == IF input_dilated THEN x \div 2 ELSE x
Undilated(x) == IF input_dilated THEN (x + 1) \div 2 ELSE x

irows_unpadded(s) == Undilated(s.irows - s.upad - s.dpad)
icols_unpadded(s) == Undilated(s.icols - s.lpad - s.rpad)
\* Undilated, padded and downsampled: the shape of the slice in the scratchpad.
SpadRowsOf(s) == Shift(irows_unpadded(s) + Undilated(s.upad) + Undilated(s.dpad), downsample)
SpadColsOf(s) == Shift(icols_unpadded(s) + Undilated(s.lpad) + Undilated(s.rpad), downsample)

max_pixels_per_row(s) ==
    IF conv.rot \/ downsample \/ input_dilated \/ conv.kdil > 1 \/ s.kchs > DIM THEN 1
    ELSE Smaller(DIM \div s.kchs, s.kcols)

B_start(s) == SpadRows - Blocks(s.ochs) * s.kcols * s.krows * s.kchs
A_row(s, ch, b, irow, icol) ==
    (ch \div DIM) * s.batches * SpadRowsOf(s) * SpadColsOf(s)
    + b * SpadRowsOf(s) * SpadColsOf(s) + Shift(irow, downsample) * SpadColsOf(s) + Shift(icol, downsample)
B_row(s, och, krow, kcol, kch) ==
    B_start(s) + (och \div DIM) * s.krows * s.kcols * s.kchs + krow * s.kcols * s.kchs + kcol * s.kchs + kch
C_row(s, och, b, orow, ocol) ==
    (och \div DIM) * s.batches * s.orows * s.ocols + b * s.orows * s.ocols + orow * s.ocols + ocol

\* The columns of one row of the slice, cut into moves <<first, length>>.
Chunks(s) ==
    LET unpadded == icols_unpadded(s)
        end == unpadded + Undilated(s.rpad)
        wide == IF downsample THEN 2 * DIM ELSE DIM
        len(icol) == IF icol < 0 THEN Smaller(0 - icol, DIM)
                     ELSE IF icol >= unpadded THEN Smaller(end - icol, DIM)
                     ELSE Smaller(unpadded - icol, wide)
        from[icol \in (0 - Undilated(s.lpad)) .. end + 2 * DIM] ==
            IF icol >= end THEN <<>> ELSE << <<icol, len(icol)>> >> \o from[icol + len(icol)]
    IN  from[0 - Undilated(s.lpad)]

\* A row of the scratchpad holds nothing, a pixel or a weight, from a channel on.
Zeros == [kind |-> "zero"]
Pixel(s, b, irow, icol, ch) ==
    [kind |-> "pixel", at |-> <<s.input[1] + b, s.input[2] + irow, s.input[3] + icol>>, ch |-> s.input[4] + ch]
Weight(s, krow, kcol, kch, och) ==
    [kind |-> "weight", at |-> <<s.weights[1] + krow, s.weights[2] + kcol>>,
     ich |-> IF conv.dw THEN s.at[4] ELSE s.at[7] + kch, och |-> s.at[4] + och]

\* mvin input: rows |-> contents, for one move.
InputMove(s, b, irow, chunk, ich) ==
    LET icol == chunk[1]
        zero == irow < 0 \/ irow >= irows_unpadded(s) \/ icol < 0 \/ icol >= icols_unpadded(s)
        chs == Smaller(s.kchs - ich, MAX_BLOCK_LEN * DIM)
        row(p, m) == A_row(s, ich + m * DIM, b, irow + Undilated(s.upad), icol + Undilated(s.lpad)) + p
        moved == {<<p, m>> : p \in 0 .. Shift(chunk[2], downsample) - 1, m \in 0 .. Blocks(chs) - 1}
    IN  {<<row(x[1], x[2]),
           IF zero THEN Zeros
           ELSE Pixel(s, b, irow, icol + (IF downsample THEN 2 ELSE 1) * x[1], ich + x[2] * DIM)>> : x \in moved}

AsFunction(pairs) == [a \in {p[1] : p \in pairs} |-> (CHOOSE p \in pairs : p[1] = a)[2]]

InputMoves(s) ==
    LET every == 1 + Tests(downsample)
        rows == irows_unpadded(s) + Undilated(s.dpad) + Undilated(s.upad)
        it == MAX_BLOCK_LEN * DIM
    IN  Loop(s.batches, LAMBDA b : Loop(RoundUp(rows, every), LAMBDA r :
            Loop(Len(Chunks(s)), LAMBDA n : Loop(RoundUp(s.kchs, it), LAMBDA i :
                <<InputMove(s, b, r * every - Undilated(s.upad), Chunks(s)[n + 1], i * it)>>))))

\* mvin weights.
WeightMoves(s) ==
    {<<B_row(s, och, krow, kcol, kch), Weight(s, krow, kcol, kch, (och \div DIM) * DIM)>> :
        och \in {n * DIM : n \in 0 .. Blocks(s.ochs) - 1}, krow \in 0 .. s.krows - 1,
        kcol \in 0 .. s.kcols - 1, kch \in 0 .. s.kchs - 1}

Scratchpad(s) ==
    LET moves == InputMoves(s)
        after[n \in 0 .. Len(moves)] == IF n = 0 THEN <<>> ELSE With(after[n - 1], AsFunction(moves[n]))
    IN  With(after[Len(moves)], AsFunction(WeightMoves(s)))

\* The first output column of each multiply of a row.
StartCols(s, kcol) ==
    LET it == IF input_dilated THEN 2 * DIM ELSE DIM
        skip(ocol) == input_dilated /\ (kcol + ocol * conv.stride - s.lpad) % 2 # 0
        from[ocol \in 0 .. s.ocols + it] ==
            IF ocol >= s.ocols THEN {}
            ELSE IF skip(ocol) THEN from[ocol + 1] ELSE {ocol} \cup from[ocol + it]
    IN  from[0]

StartRows(s, krow) ==
    {orow \in 0 .. s.orows - 1 :
        ~(input_dilated /\ (krow * conv.kdil + orow * conv.stride - s.upad) % 2 # 0)}

\* The multiplies of a slice: rows of A, B and C, and sizes I, K.
Multiplies(s) ==
    LET mp == max_pixels_per_row(s)
        steps(n, by) == {x * by : x \in 0 .. RoundUp(n, by) - 1}
        half(x) == Undilated(x)
        one(och, krow, kcol, kch, b, orow, ocol) ==
            LET pixels == Smaller(mp, s.kcols - kcol)
                chs == Smaller(DIM, s.kchs - kch)
            IN  [A |-> A_row(s, kch, b, half(orow * conv.stride + krow * conv.kdil),
                             half(ocol * conv.stride + kcol * conv.kdil)),
                 B |-> B_row(s, och, IF conv.rot THEN s.krows - krow - 1 ELSE krow,
                             IF conv.rot THEN s.kcols - kcol - 1 ELSE kcol, kch),
                 C |-> C_row(s, och, b, orow, ocol),
                 I |-> half(Smaller(s.ocols - ocol, IF input_dilated THEN 2 * DIM ELSE DIM)),
                 K |-> pixels * chs, chs |-> chs,
                 id |-> <<och, krow, kcol, kch, b, orow, ocol>>]
    IN  UNION {{one(och, krow, kcol, kch, b, orow, ocol) :
                  och \in steps(s.ochs, DIM), kch \in steps(s.kchs, DIM), b \in 0 .. s.batches - 1,
                  orow \in StartRows(s, krow), ocol \in StartCols(s, kcol)} :
               krow \in 0 .. s.krows - 1, kcol \in steps(s.kcols, mp)}

\* What multiply m adds to its row n from position k of its operands: nothing for
\* a zero pixel.  max_pixels_per_row pixels stand side by side in a row of A.
Products(spad, m, n, k) ==
    LET a == m.A + n * Shift(conv.stride, downsample) + k \div m.chs
        b == m.B + k
    IN  IF a \notin DOMAIN spad \/ b \notin DOMAIN spad THEN {<<"undefined">>}
        ELSE IF spad[a].kind = "weight" \/ spad[b].kind # "weight" THEN {<<"overwritten">>}
        ELSE IF spad[a].kind = "zero" THEN {}
        ELSE {<<spad[a].at, spad[a].ch + (k % m.chs), spad[b].at, spad[b].ich, spad[b].och>>}

Empty == [begun |-> FALSE, bias |-> {}, products |-> {}, count |-> 0]
Accumulated(a, r) == IF r \in DOMAIN a THEN a[r] ELSE Empty

\* mvin bias: the blocks of D, zeros when there is no bias.
MoveInBias(s) ==
    IF ~s.bias THEN accu
    ELSE With(accu,
              AsFunction({<<D_sp_addr_row + C_row(s, och, b, orow, ocol),
                            [Empty EXCEPT !.begun = TRUE, !.bias = IF conv.bias THEN {s.at[4] + och} ELSE {}]>> :
                  och \in {n * DIM : n \in 0 .. Blocks(s.ochs) - 1}, b \in 0 .. s.batches - 1,
                  orow \in 0 .. s.orows - 1, ocol \in 0 .. s.ocols - 1}))

\* The multiplies add to C.
Compute(s, before, spad) ==
    LET target(m, n) == C_sp_addr_row + m.C + n * conv.idil
        adds(m) == UNION {{<<target(m, n), <<m.id, n, k>>, x>> : x \in Products(spad, m, n, k)} :
                            n \in 0 .. m.I - 1, k \in 0 .. m.K - 1}
        added == UNION {adds(m) : m \in Multiplies(s)}
        to(r) == {x \in added : x[1] = r}
    IN  With(before, [r \in {x[1] : x \in added} |->
            [Accumulated(before, r) EXCEPT !.products = @ \cup {x[3] : x \in to(r)},
                                           !.count = @ + Cardinality(to(r))]])

\* mvout output: the channels of a row go to as many elements.
MoveOut(s, after) ==
    IF ~s.output THEN image
    ELSE LET row(e) == Accumulated(after, C_sp_addr_row + C_row(s, e[4], e[1], e[2], e[3]))
             channel(och, e) == och + (e[4] % DIM)
             moved == {<<b, orow, ocol, och>> : b \in 0 .. s.batches - 1, orow \in 0 .. s.orows - 1,
                                                ocol \in 0 .. s.ocols - 1, och \in 0 .. s.ochs - 1}
             to(e) == [i \in 1 .. 4 |-> s.at[i] + e[i]]
             element(e) == [begun |-> row(e).begun, bias |-> {channel(x, e) : x \in row(e).bias},
                            products |-> {IF Len(p) = 1 THEN p ELSE [p EXCEPT ![5] = channel(@, e)]
                                            : p \in row(e).products},
                            count |-> row(e).count]
         IN  With(image, AsFunction({<<to(e), element(e)>> : e \in moved}))

OtherHalf(r) == (r + ACC_ROWS \div 2) % ACC_ROWS

sp_tiled_conv ==
    /\ convStep = "slices"
    /\ \E s \in {SliceCall(slice)} : \E spad \in {Scratchpad(s)} : \E held \in {MoveInBias(s)} :
       \E after \in {Compute(s, held, spad)} :
         /\ accu' = after
         /\ image' = MoveOut(s, after)
         /\ D_sp_addr_row' = IF s.bias THEN OtherHalf(D_sp_addr_row) ELSE D_sp_addr_row
         /\ C_sp_addr_row' = IF s.output THEN OtherHalf(C_sp_addr_row) ELSE C_sp_addr_row
    /\ IF LastSlice(slice) THEN convStep' = "done" /\ UNCHANGED slice
       ELSE slice' = NextSlice(slice) /\ UNCHANGED convStep
    /\ UNCHANGED <<conv, args>>

ConvNext == shrinkArgs \/ widenCols \/ enlargeArgs \/ sp_tiled_conv

ConvSpec == ConvInit /\ [][ConvNext]_convVars

-----------------------------------------------------------------------------
(* conv_cpu_without_pool and conv_dw_cpu_without_pool *)

cpu_products(b, orow, ocol, och) ==
    LET place(o, k) == o * conv.stride + k * conv.kdil - conv.padding
        ok(o, k, dim) ==
            /\ place(o, k) % conv.idil = 0
            /\ place(o, k) >= 0 /\ place(o, k) \div conv.idil < dim
        turned(k) == IF conv.rot THEN conv.kdim - k - 1 ELSE k
        kernel == 0 .. conv.kdim - 1
        krows == {k \in kernel : ok(orow, k, conv.rows)}
        kcols == {k \in kernel : ok(ocol, k, conv.cols)}
    IN  {<< <<b, place(orow, kr) \div conv.idil, place(ocol, kc) \div conv.idil>>, ch,
            <<turned(kr), turned(kc)>>, ch, och>> :
            kr \in krows, kc \in kcols, ch \in IF conv.dw THEN {och} ELSE 0 .. conv.ich - 1}

\* tiled_conv_downsample, for square layers with a kernel of one weight and stride
\* 2: row irow is a product of matrices, whose I rows are every other pixel of it
\* and whose row i becomes pixel i of row irow / 2.
tiled_conv_downsample(b, orow, och) ==
    [i \in 0 .. conv.cols \div 2 - 1 |->
       {<< <<b, 2 * orow, 2 * i>>, ch, <<0, 0>>, ch, och>> : ch \in 0 .. conv.ich - 1}]

\* The kernel is not cut: tiled_conv moves out, and changes halves, after every
\* piece of it, while the bias is in the half of the first.
KernelWhole == conv.dw \/ \A i \in 5 .. 7 : args[i] = max_args(conv)[i]

\* Every output element is moved out exactly once, with its bias (when there is
\* one) and with exactly the products conv_cpu / conv_dw_cpu sum for it, each
\* once: the strides, padding, dilations, downsampling, weight rotation, the
\* packing of several pixels in a scratchpad row and the cutting into slices of
\* tiled_conv and sp_tiled_conv lose nothing and count nothing twice.  Where
\* tiled_conv_downsample may be called instead, it is the same sum.
ConvExact ==
    convStep = "done" /\ KernelWhole =>
      /\ DOMAIN image = (0 .. conv.batch - 1) \X (0 .. conv.orows - 1) \X (0 .. conv.ocols - 1)
                        \X (0 .. conv.och - 1)
      /\ \A e \in DOMAIN image :
           LET expected == cpu_products(e[1], e[2], e[3], e[4]) IN
           image[e] = [begun |-> TRUE, bias |-> IF conv.bias THEN {e[4]} ELSE {},
                       products |-> expected, count |-> Cardinality(expected)]
      /\ downsample /\ conv.rows = conv.cols =>
           \A b \in 0 .. conv.batch - 1, orow \in 0 .. conv.orows - 1, och \in 0 .. conv.och - 1 :
             tiled_conv_downsample(b, orow, och) =
               [ocol \in 0 .. conv.ocols - 1 |-> cpu_products(b, orow, ocol, och)]
=============================================================================
