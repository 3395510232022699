------------------------------- MODULE MCTiles -------------------------------
(***************************************************************************)
(* TiledMatmul by itself: products with a bias, in both dataflows, on an   *)
(* array of two by two.                                                    *)
(***************************************************************************)
EXTENDS TiledMatmul

BiasedJobs ==
    {[I |-> i, J |-> 2, K |-> 4, flow |-> f, bias |-> TRUE, repeating |-> FALSE,
      full_C |-> FALSE, low_D |-> FALSE,
      stride |-> [A |-> 4, B |-> IF f = "WS" THEN 4 ELSE 2, C |-> 2, D |-> 2]] : i \in {1, 5}, f \in {"OS", "WS"}}
=============================================================================
