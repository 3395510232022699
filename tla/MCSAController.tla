--------------------------- MODULE MCSAController ---------------------------
(***************************************************************************)
(* Small instances of SAController: one scratchpad of two rows, one        *)
(* accumulator of two rows, tiles of one row.                              *)
(***************************************************************************)
EXTENDS SAController

MoveIn0    == MoveCommand("LOAD", "MOVE_IN", 0, 1)
MoveInAcc0 == MoveCommand("LOAD_ACC", "MOVE_IN_ACC", 0, 1)
MoveOut0   == MoveCommand("STORE", "MOVE_OUT", 0, 1)
Preload1   == ComputeCommand("PRELOAD", FALSE, 0, 1, 0, 1, 1)
Mul00      == ComputeCommand("MATRIX_MULTIPLY", FALSE, 0, 1, 0, 1, 1)
MulFlip00  == ComputeCommand("MATRIX_MULTIPLY_FLIP", FALSE, 0, 1, 0, 1, 1)
MulStay00  == ComputeCommand("MATRIX_MULTIPLY", TRUE, 0, 1, 0, 1, 1)
Fence      == ControlCommand("FENCE")
Config     == ControlCommand("CONFIG")
Fake       == ControlCommand("FAKE")

WSTemplates == {MoveIn0, MoveOut0, Preload1, MulFlip00, Fence}
OSTemplates == {MoveInAcc0, Preload1, Mul00, MulStay00, Config, Fake}

SmallQueues == [u \in Units |-> IF u = "exe" THEN 2 ELSE 1]

AllTemplates == WSTemplates \cup OSTemplates

\* Both dataflows, each with the commands it takes; which of them runs is chosen
\* at the start.  The invariants are about the state and the same for both.
VARIABLE flow

WS == INSTANCE SAController WITH Templates <- WSTemplates, Dataflow <- "WS"
OS == INSTANCE SAController WITH Templates <- OSTemplates, Dataflow <- "OS"

MCInit == Init /\ flow \in {"WS", "OS"}

MCNext ==
    \/ flow = "WS" /\ WS!Next /\ UNCHANGED flow
    \/ flow = "OS" /\ OS!Next /\ UNCHANGED flow

\* The fairness of FairSpec for each dataflow.
MCFairSpec ==
    /\ MCInit /\ [][MCNext]_<<vars, flow>>
    /\ WF_vars(MCNext)
    /\ SF_vars(DmaAllDone /\ UNCHANGED flow)
    /\ SF_vars(flow = "WS" /\ WS!ArrayAllDone /\ UNCHANGED flow)
    /\ SF_vars(flow = "OS" /\ OS!ArrayAllDone /\ UNCHANGED flow)
=============================================================================
