------------------------------- MODULE Command -------------------------------
(***************************************************************************)
(* The commands the CPU hands to the systolic-array controller             *)
(* (include/SA/Command.h, src/SA/Command.cpp): the CommandStatus ladder,    *)
(* the scratchpad rows each command touches, and the overlap test from     *)
(* which the reorder buffer builds its dependences.                        *)
(*                                                                         *)
(* Matrix sizes, DRAM addresses and operand values decide no ordering and  *)
(* are left out.  A row range is the half-open interval lo .. hi - 1.      *)
(* Row numbers are small (a scratchpad has a few thousand rows), so the    *)
(* uint64 sums of the code do not wrap.                                    *)
(***************************************************************************)
EXTENDS Integers

COSIM_INIT      == 0
COSIM_WAITING   == 1
COSIM_ISSUED    == 2
COSIM_EXECUTING == 3
COSIM_FINISHED  == 4
COSIM_COMMITTED == 5

CommandTypes == {"LOAD", "STORE", "EXE", "LOAD_ACC"}

\* The OperationTypes each command type carries (Core::cosim_issue).
OperationsOf(type) ==
    CASE type = "LOAD"     -> {"MOVE_IN"}
      [] type = "LOAD_ACC" -> {"MOVE_IN_ACC"}
      [] type = "STORE"    -> {"MOVE_OUT"}
      [] type = "EXE"      -> {"PRELOAD", "MATRIX_MULTIPLY",
                               "MATRIX_MULTIPLY_FLIP", "FENCE", "CONFIG", "FAKE"}

MMOps == {"MATRIX_MULTIPLY", "MATRIX_MULTIPLY_FLIP"}

NoRows == [lo |-> 0, hi |-> 0]

RowsFrom(addr, n) == [lo |-> addr, hi |-> addr + n]

-----------------------------------------------------------------------------
(***************************************************************************)
(* The constructors: Command::set_params and compute_sp_addr_range.        *)
(***************************************************************************)

\* PRELOAD and matrix multiplies: A and C rows follow T_M, B rows T_N; a
\* PRELOAD has neither an A nor a C range.
ComputeCommand(op, stay, sp_a, sp_b, sp_c, T_M, T_N) ==
    [type |-> "EXE", op |-> op, stay |-> stay,
     rs1  |-> IF op = "PRELOAD" THEN NoRows ELSE RowsFrom(sp_a, T_M),
     rs2  |-> RowsFrom(sp_b, T_N),
     dst  |-> IF op = "PRELOAD" THEN NoRows ELSE RowsFrom(sp_c, T_M)]

\* MOVE_IN, MOVE_IN_ACC and MOVE_OUT.
MoveCommand(type, op, sp, rows) ==
    [type |-> type, op |-> op, stay |-> FALSE,
     rs1  |-> IF type = "STORE" THEN RowsFrom(sp, rows) ELSE NoRows,
     rs2  |-> NoRows,
     dst  |-> IF type = "STORE" THEN NoRows ELSE RowsFrom(sp, rows)]

\* FENCE, CONFIG and FAKE touch no scratchpad row.
ControlCommand(op) ==
    [type |-> "EXE", op |-> op, stay |-> FALSE,
     rs1 |-> NoRows, rs2 |-> NoRows, dst |-> NoRows]

-----------------------------------------------------------------------------
(***************************************************************************)
(* Command::overlap.                                                       *)
(***************************************************************************)

RangeOverlap(r, s) ==
    /\ r.lo < r.hi /\ s.lo < s.hi
    /\ \/ s.lo <= r.lo /\ r.lo < s.hi
       \/ r.lo <= s.lo /\ s.lo < r.hi

\* A younger command (this) against one already in the ROB (other), one
\* disjunct per pair of types the code compares.
overlap(this, other) ==
    \/ /\ this.type = "EXE" /\ other.type = "LOAD"
       /\ RangeOverlap(this.rs1, other.dst) \/ RangeOverlap(this.rs2, other.dst)
    \/ /\ this.type = "EXE" /\ other.type = "STORE"
       /\ RangeOverlap(this.dst, other.rs1)
    \/ /\ this.type = "EXE" /\ other.type = "LOAD_ACC"
       /\ RangeOverlap(this.dst, other.dst)
    \/ /\ this.type = "LOAD" /\ other.type = "EXE"
       /\ RangeOverlap(this.dst, other.rs1) \/ RangeOverlap(this.dst, other.rs2)
    \/ /\ this.type = "LOAD" /\ other.type = "LOAD"
       /\ RangeOverlap(this.dst, other.dst)
    \/ /\ this.type = "STORE" /\ other.type \in {"EXE", "LOAD_ACC"}
       /\ RangeOverlap(this.rs1, other.dst)
    \/ /\ this.type = "LOAD_ACC" /\ other.type \in {"EXE", "LOAD_ACC"}
       /\ RangeOverlap(this.dst, other.dst)
    \/ /\ this.type = "LOAD_ACC" /\ other.type = "STORE"
       /\ RangeOverlap(this.dst, other.rs1)

-----------------------------------------------------------------------------
(***************************************************************************)
(* What the overlap test is for.  Command.cpp states which memory each     *)
(* operand lives in: A and B in the scratchpad, C in the accumulator.      *)
(***************************************************************************)

Cells(memory, r) == {<<memory, row>> : row \in r.lo .. r.hi - 1}

Reads(c) ==
    CASE c.type = "EXE"   -> Cells("SPM", c.rs1) \cup Cells("SPM", c.rs2)
      [] c.type = "STORE" -> Cells("ACC", c.rs1)
      [] OTHER            -> {}

Writes(c) ==
    CASE c.type = "LOAD"  -> Cells("SPM", c.dst)
      [] c.type = "STORE" -> {}
      [] OTHER            -> Cells("ACC", c.dst)

\* Read-after-write, write-after-read or write-after-write on some cell.
Hazard(a, b) ==
    \/ Reads(a) \cap Writes(b) # {}
    \/ Writes(a) \cap Reads(b) # {}
    \/ Writes(a) \cap Writes(b) # {}

\* Command::overlap holds exactly between a command and an older one it
\* conflicts with on some cell; pairs of EXE commands are left to the order of
\* the array ("MMs execute in sequence").
OverlapExact(this, other) ==
    ~(this.type = "EXE" /\ other.type = "EXE") =>
        (overlap(this, other) <=> Hazard(this, other))
=============================================================================
