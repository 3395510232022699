---------------------------- MODULE GemminiParams ----------------------------
(***************************************************************************)
(* The sizes of the accelerator that gemmini_params.h fixes, and the       *)
(* arithmetic gemmini.h shares between matrix multiplies and convolutions. *)
(***************************************************************************)
EXTENDS Integers, Sequences

CONSTANTS
    DIM, MAX_BLOCK_LEN, MAX_BLOCK_LEN_ACC, ACC_ROWS,
    SpadRows    \* BANK_NUM * BANK_ROWS

ASSUME ParamsAssumption ==
    /\ DIM \in Nat \ {0} /\ MAX_BLOCK_LEN \in Nat \ {0} /\ MAX_BLOCK_LEN_ACC \in Nat \ {0}
    /\ SpadRows % (4 * DIM) = 0 /\ ACC_ROWS % (2 * DIM) = 0

Smaller(a, b) == IF a <= b THEN a ELSE b

\* n / DIM, rounded up.
Blocks(n) == (n + DIM - 1) \div DIM

\* f(0) \o f(1) \o ... \o f(n - 1).
Loop(n, f(_)) ==
    LET upTo[i \in 0 .. n] == IF i = 0 THEN <<>> ELSE upTo[i - 1] \o f(i - 1) IN upTo[n]

When(c, s) == IF c THEN s ELSE <<>>

\* f with the values g gives.
With(f, g) == [x \in DOMAIN f \cup DOMAIN g |-> IF x \in DOMAIN g THEN g[x] ELSE f[x]]
=============================================================================
