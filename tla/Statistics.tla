------------------------------ MODULE Statistics ------------------------------
(***************************************************************************)
(* The counters a simulation keeps (Core::issue, Statistic in              *)
(* src/statistc.cpp, Window::retireInstruction) and the report made of     *)
(* them at the end (Core::printStats, Core::printForMcpat, with the unit   *)
(* prices of PowerAreaModel).  All counters are uint64_t and the report    *)
(* subtracts them from one another.                                        *)
(*                                                                         *)
(* The reorder buffer appears as far as the counters look at it: Backend   *)
(* has the rest.  One step is one cycle: commit, execute and writeBack,    *)
(* issue, dispatch.                                                        *)
(***************************************************************************)
EXTENDS Integers, Sequences, FiniteSets, FiniteSetsExt

CONSTANTS
    Codes,          \* LLVM opcodes of the program
    windowSize,     \* instructions dispatched in a cycle
    retireSize,
    RobSize,
    MaxCycles       \* bound: cycles simulated

ASSUME StatisticsAssumption ==
    /\ Codes \subseteq 1 .. 67 /\ windowSize \in Nat \ {0} /\ retireSize \in Nat \ {0}
    /\ RobSize \in Nat \ {0} /\ MaxCycles \in Nat

VARIABLES
    rob,            \* sequence of [code, status]
    insnCountMap,   \* opcode -> instructions retired
    count           \* the counters of Core and Window

statVars == <<rob, insnCountMap, count>>

\* The counters are 0, and cycles counts what run() has done.
Zero == [cycles |-> 0, totalCommit |-> 0, stalls_total |-> 0, stalls_mem_any |-> 0,
         rs_empty_cycles |-> 0, cycles_ge_1_uop_exec |-> 0, cycles_ge_2_uop_exec |-> 0,
         cycles_ge_3_uop_exec |-> 0]

StatInit == rob = <<>> /\ insnCountMap = [c \in Codes |-> 0] /\ count = Zero

-----------------------------------------------------------------------------
(* A cycle.                                                                *)

Load == 32

\* Window::retireInstruction: how many of the oldest instructions retire.
Retiring ==
    CHOOSE n \in 0 .. Len(rob) :
        /\ n <= retireSize /\ \A i \in 1 .. n : rob[i].status = "finished"
        /\ n < retireSize /\ n < Len(rob) => rob[n + 1].status # "finished"

\* Mutant: the counter means the issue queue.
RsEmpty_IssueQueue(entries) == \A i \in DOMAIN entries : entries[i].status # "waiting"

\* "rs_empty_cycles" asks the reorder buffer.
RsEmpty(entries) == entries = <<>>

One(test) == IF test THEN 1 ELSE 0

ExecutingLoads(entries) == {i \in DOMAIN entries : entries[i].code = Load /\ entries[i].status = "executing"}

\* The end of Core::issue, with entries in the buffer and ready of them issued.
Counted(entries, ready) ==
    [count EXCEPT
        !.cycles = @ + 1,
        !.totalCommit = @ + Retiring,
        !.rs_empty_cycles = @ + One(RsEmpty(entries)),
        !.stalls_total = @ + One(ready = {}),
        !.stalls_mem_any = @ + One(ready = {} /\ ExecutingLoads(entries) # {}),
        !.cycles_ge_1_uop_exec = @ + One(Cardinality(ready) >= 1),
        !.cycles_ge_2_uop_exec = @ + One(Cardinality(ready) >= 2),
        !.cycles_ge_3_uop_exec = @ + One(Cardinality(ready) >= 3)]

\* updateInsnCount for each instruction retired.
updateInsnCount ==
    [c \in Codes |-> insnCountMap[c] + Cardinality({i \in 1 .. Retiring : rob[i].code = c})]

Entries(entries, status) == {i \in DOMAIN entries : entries[i].status = status}

\* left: the instructions not retired; finished: those done by execute and writeBack; ready:
\* those issued, of which atOnce have no latency; news: those dispatched.
cycle(left, finished, ready, atOnce, news) ==
    LET executed == [i \in DOMAIN left |->
                        IF i \in finished THEN [left[i] EXCEPT !.status = "finished"] ELSE left[i]]
    IN  /\ Len(left) + Len(news) <= RobSize
        /\ insnCountMap' = updateInsnCount
        /\ count' = Counted(executed, ready)
        /\ rob' = [i \in DOMAIN left |->
                      IF i \in atOnce THEN [left[i] EXCEPT !.status = "finished"]
                      ELSE IF i \in ready THEN [left[i] EXCEPT !.status = "executing"]
                      ELSE executed[i]]
                  \o [i \in DOMAIN news |-> [code |-> news[i], status |-> "waiting"]]

StatNext ==
    LET left == SubSeq(rob, Retiring + 1, Len(rob)) IN
    /\ count.cycles < MaxCycles
    /\ \E n \in 0 .. windowSize : \E news \in [1 .. n -> Codes] :
       \E finished \in SUBSET Entries(left, "executing") :
       \E ready \in SUBSET Entries(left, "waiting") : \E atOnce \in SUBSET ready :
           cycle(left, finished, ready, atOnce, news)

StatSpec == StatInit /\ [][StatNext]_statVars

-----------------------------------------------------------------------------
(* The classes of opcodes, as the report has them and as the prices have   *)
(* them.                                                                   *)

int_adder_opcodes == {13, 15, 34, 53, 48, 47}
bitwise_opcodes   == {25, 26, 27, 28, 29, 30}
int_mult_opcodes  == {17, 19, 20, 23, 22}
fp_mult_opcodes   == {18, 21, 24}
fp_adder_opcodes  == {14, 16, 54, 46, 42, 41, 45, 43}
int_opcodes       == {13, 15, 34, 53, 48, 47, 25, 26, 27, 28, 29, 30, 17, 19, 20, 23, 22}
fp_opcodes        == {18, 21, 24, 14, 16, 54, 46, 42, 41, 45, 43}
ialu_opcodes      == {13, 15, 34, 53, 48, 47, 25, 26, 27, 28, 29, 30}

\* The first class that has the opcode; other instructions have none.
InsnClass(code) ==
    CASE code \in int_opcodes -> "int" [] code \in fp_opcodes -> "fp"
      [] code \in {2, 3} -> "branch" [] code = Load -> "load" [] code = 33 -> "store"
      [] code \in {56, 5} -> "call" [] OTHER -> "other"

getHWFuncUnit(code) ==
    CASE code \in {12, 13, 15, 34, 38, 53, 48, 47, 57, 39, 40} -> "integer_adder"
      [] code \in {17, 19, 20, 23, 22} -> "integer_multiplier"
      [] code \in {14, 16, 54, 46, 42, 41, 45, 43, 44} -> "double_adder"
      [] code \in {18, 21, 24} -> "double_multiplier"
      [] code \in {25, 26, 27, 28, 29, 30} -> "bitwise_operations"
      [] OTHER -> "none"

\* The power line of the report an instruction is added to.
PowerLine(code) ==
    CASE getHWFuncUnit(code) = "none" -> "none"
      [] code \in int_adder_opcodes -> "integer_adder"
      [] code \in int_mult_opcodes -> "integer_multiplier"
      [] code \in fp_adder_opcodes -> "double_adder"
      [] code \in fp_mult_opcodes -> "double_multiplier"
      [] code \in bitwise_opcodes -> "bitwise_operations"
      [] OTHER -> "none"

Instructions(set) == MapThenSumSet(LAMBDA c : insnCountMap[c], Codes \cap set)

-----------------------------------------------------------------------------
(* The report.                                                             *)

slots == count.cycles * windowSize

\* "ipc > 1.8"
few_threshold ==
    IF 10 * count.totalCommit > 18 * count.cycles
    THEN count.cycles_ge_3_uop_exec ELSE count.cycles_ge_2_uop_exec

backend_bound_cycles ==
    count.stalls_total + count.cycles_ge_1_uop_exec - few_threshold - count.rs_empty_cycles

inst_window_reads == count.totalCommit - Instructions(fp_opcodes)

\* Of every opcode of LLVM: the report prices what it counts, at its unit's price.
PricesMatch ==
    \A c \in 1 .. 67 : /\ InsnClass(c) \in {"int", "fp"} <=> PowerLine(c) # "none"
                       /\ PowerLine(c) \in {"none", getHWFuncUnit(c)}

\* What the report divides or subtracts is in proportion, whatever order the
\* cycles came in: memory-bound cycles are some of the backend-bound ones,
\* which do not wrap around below 0; retired instructions fit the slots; every
\* cycle is counted once; every instruction is of one class, the classes add
\* up, and each is priced as the unit it runs on.
ReportConsistent ==
    /\ count.stalls_mem_any <= backend_bound_cycles
    /\ count.totalCommit <= slots
    /\ count.stalls_total + count.cycles_ge_1_uop_exec = count.cycles
    /\ inst_window_reads >= Instructions(int_opcodes)
    /\ Instructions(int_opcodes) = Instructions(ialu_opcodes) + Instructions(int_mult_opcodes)
    /\ PricesMatch
=============================================================================
