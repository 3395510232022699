---------------------------- MODULE MCDMAEngine ----------------------------
(***************************************************************************)
(* Small instances of DMAEngine: a window smaller than a transfer, and a   *)
(* bus slower than the memory, with and without L2.                        *)
(***************************************************************************)
EXTENDS DMAEngine

CONSTANTS c1, c2

TwoCmds == {c1, c2}
=============================================================================
