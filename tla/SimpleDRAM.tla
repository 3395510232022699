------------------------------- MODULE SimpleDRAM -------------------------------
(***************************************************************************)
(* The built-in memory model (src/mem/SimpleDRAM.cpp): every transaction   *)
(* takes a fixed latency, and at most max_req_per_epoch complete in one    *)
(* epoch of epoch_length cycles.  final_cycle is kept as the number of     *)
(* cycles left, and the cycle counter modulo the epoch.                    *)
(***************************************************************************)
EXTENDS Integers, Sequences

CONSTANTS
    latency,                    \* cycles, params->dram_latency
    Peak_BW,                    \* GB/s, params->dram_bw
    core_clockspeed,            \* MHz
    bytes_per_req, epoch_length,
    MaxPerCycle,                \* transactions L2 adds in one cycle
    MaxPending                  \* bound: transactions under way

ASSUME DramAssumption ==
    /\ latency \in Nat \ {0} /\ epoch_length \in Nat \ {0}
    /\ Peak_BW \in Nat /\ core_clockspeed \in Nat \ {0} /\ bytes_per_req \in Nat \ {0}
    /\ MaxPerCycle \in Nat /\ MaxPending \in Nat

VARIABLES
    pq,             \* in the order of (final_cycle, trans_id): [isWrite, left, age, ahead]
    cycles,         \* cycles % epoch_length
    request_count,
    added           \* transactions added in this cycle

queueVars == <<pq, cycles, request_count, added>>

\* SimpleDRAM::initialize
max_req_per_epoch ==
    LET n == (1000 * Peak_BW * epoch_length) \div (bytes_per_req * core_clockspeed)
    IN  IF n < 1 THEN 1 ELSE n

QueueInit == pq = <<>> /\ cycles = 0 /\ request_count = 0 /\ added = 0

\* age and ahead are history: cycles since it was added, and the transactions
\* that were under way then.
addTransaction(isWrite) ==
    /\ added < MaxPerCycle /\ Len(pq) < MaxPending
    /\ pq' = Append(pq, [isWrite |-> isWrite, left |-> latency - 1, age |-> 0,
                         ahead |-> Len(pq)])
    /\ added' = added + 1
    /\ UNCHANGED <<cycles, request_count>>

\* The loop of process(): how many of the ready transactions complete.
Completing ==
    CHOOSE n \in 0 .. Len(pq) :
        /\ n <= max_req_per_epoch - request_count
        /\ \A i \in 1 .. n : pq[i].left = 0
        /\ n < Len(pq) => pq[n + 1].left > 0 \/ request_count + n >= max_req_per_epoch

Aged(op) == [op EXCEPT !.left = IF @ > 0 THEN @ - 1 ELSE 0, !.age = @ + 1]

\* Mutant: what completed in the last cycle of an epoch counts in the next one.
CountAfter_LateReset(n) == IF cycles = epoch_length - 1 THEN n ELSE request_count + n

\* request_count starts again with every epoch.
CountAfter(n) == IF cycles = epoch_length - 1 THEN 0 ELSE request_count + n

process ==
    LET rest == SubSeq(pq, Completing + 1, Len(pq))
    IN  /\ pq' = [i \in 1 .. Len(rest) |-> Aged(rest[i])]
        /\ cycles' = (cycles + 1) % epoch_length
        /\ request_count' = CountAfter(Completing)
        /\ added' = 0

QueueNext == process \/ \E w \in BOOLEAN : addTransaction(w)

QueueSpec == QueueInit /\ [][QueueNext]_queueVars

-----------------------------------------------------------------------------
\* A transaction waits, beyond its latency, less than one epoch and one more for
\* every max_req_per_epoch transactions that were under way before it: process()
\* delays but never starves, and loses no slot at the turn of an epoch.
ServedInTime ==
    \A i \in 1 .. Len(pq) :
        pq[i].age < latency + (pq[i].ahead \div max_req_per_epoch) * epoch_length + epoch_length - 1

=============================================================================
