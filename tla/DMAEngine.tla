------------------------------ MODULE DMAEngine ------------------------------
(***************************************************************************)
(* The DMA engine of the systolic array (include/mem/DMAEngine.h,          *)
(* src/mem/DMAEngine.cpp).  A request is split into bursts; with an L2     *)
(* cache the bursts are injected into it, without one ("fallback") they go *)
(* through a pipeline of fixed latency.  Either way they return over a bus *)
(* of limited bandwidth.                                                   *)
(*                                                                         *)
(* SAController submits one request per command, so a request is named by  *)
(* its command.  Addresses play no part.  Every absolute cycle number of   *)
(* the code is kept as its distance from now, the argument of the next     *)
(* DMAEngine::cycle; SAController::load and store pass that same number as *)
(* issue_cycle.                                                            *)
(***************************************************************************)
EXTENDS Integers, Sequences, FiniteSets

CONSTANTS
    Cmds,           \* the commands that may ask for a transfer
    Sizes,          \* sizes of a transfer in bursts
    L2Modes,        \* whether connectL2 is called with a cache: the cases to consider
    MaxInFlight,    \* max_in_flight_mem_reqs
    BaseLatency,    \* base_latency
    Delay           \* cycles a burst holds the bus, from burst_bytes and bandwidth

ASSUME DMAAssumption ==
    /\ IsFiniteSet(Cmds)
    /\ Sizes \subseteq Nat /\ L2Modes \subseteq BOOLEAN
    /\ MaxInFlight \in Nat \ {0} /\ BaseLatency \in Nat /\ Delay \in Nat \ {0}

VARIABLES
    l2,             \* the pointer l2 is set, once and for all
    pc,             \* "idle", or "take" between cycle and take_completed
    inflight, reads, early,         \* inflight's keys; is_read; completed_early
    total_txns, issued_txns, done_txns,
    pending,        \* pending_inject or pending_fallback_issue: the request of each burst
    in_memory,      \* bursts inside the L2 cache, by request
    pending_txns,   \* the fallback pipeline
    current_in_flight_mem_reqs,
    pending_zero_done, incoming_txns, scheduled_completions,
    bus_free,       \* next_free_cycle
    completed_cmds, \* how often each command is in completed_cmds
    reported        \* how often SAController has been told of each command

reqVars  == <<inflight, reads, early, total_txns, issued_txns, done_txns>>
memVars  == <<pending, in_memory, pending_txns, current_in_flight_mem_reqs>>
busVars  == <<incoming_txns, scheduled_completions, bus_free>>
vars     == <<l2, pc, reqVars, memVars, pending_zero_done, busVars, completed_cmds, reported>>

\* How many of the bursts in s belong to request r.
Count(s, r) == Cardinality({i \in 1 .. Len(s) : s[i] = r})

Min(a, b) == IF a < b THEN a ELSE b
Max(a, b) == IF a > b THEN a ELSE b

\* A queue of [req, left] entries ordered by left: the part due now, and the
\* rest one cycle on.
DueLen(q) == Cardinality({i \in 1 .. Len(q) : \A j \in 1 .. i : q[j].left <= 0})
Due(q)    == [i \in 1 .. DueLen(q) |-> q[i].req]
NotDue(q) == [i \in 1 .. Len(q) - DueLen(q) |->
                [q[i + DueLen(q)] EXCEPT !.left = @ - 1]]

Init ==
    /\ l2 \in L2Modes
    /\ pc = "idle"
    /\ inflight = {} /\ reads = {} /\ early = {}
    /\ total_txns = [c \in Cmds |-> 0]
    /\ issued_txns = [c \in Cmds |-> 0]
    /\ done_txns = [c \in Cmds |-> 0]
    /\ pending = <<>> /\ in_memory = [c \in Cmds |-> 0] /\ pending_txns = <<>>
    /\ current_in_flight_mem_reqs = 0
    /\ pending_zero_done = <<>>
    /\ incoming_txns = <<>> /\ scheduled_completions = <<>> /\ bus_free = 0
    /\ completed_cmds = [c \in Cmds |-> 0]
    /\ reported = [c \in Cmds |-> 0]

(***************************************************************************)
(* submit(cmd, n bursts, is_read).                                         *)
(***************************************************************************)
submit(c, n, is_read) ==
    /\ pc = "idle"
    /\ c \notin inflight /\ reported[c] = 0
    /\ inflight' = inflight \cup {c}
    /\ reads' = IF is_read THEN reads \cup {c} ELSE reads
    /\ total_txns' = [total_txns EXCEPT ![c] = n]
    /\ IF n = 0
       THEN /\ pending_zero_done' = Append(pending_zero_done, [req |-> c, left |-> 1])
            /\ UNCHANGED pending
       ELSE /\ pending' = pending \o [i \in 1 .. n |-> c]
            /\ UNCHANGED pending_zero_done
    /\ UNCHANGED <<l2, pc, early, issued_txns, done_txns, in_memory, pending_txns,
                   current_in_flight_mem_reqs, busVars, completed_cmds, reported>>

(***************************************************************************)
(* recvResponse: the L2 cache returns a burst, in any order.               *)
(***************************************************************************)
recvResponse(c) ==
    /\ pc = "idle"
    /\ in_memory[c] > 0
    /\ in_memory' = [in_memory EXCEPT ![c] = @ - 1]
    /\ current_in_flight_mem_reqs' = current_in_flight_mem_reqs - 1
    /\ incoming_txns' = Append(incoming_txns, c)
    /\ UNCHANGED <<l2, pc, reqVars, pending, pending_txns, pending_zero_done,
                   scheduled_completions, bus_free, completed_cmds, reported>>

(***************************************************************************)
(* cycle(now), piece by piece.  n bursts leave pending: in L2 mode as many *)
(* as the window and the cache's ports let through, in fallback mode one a *)
(* cycle (next_dram_issue_cycle).                                          *)
(***************************************************************************)

WindowRoom == MaxInFlight - current_in_flight_mem_reqs

CanIssue(n) ==
    /\ n <= Len(pending) /\ n <= WindowRoom
    /\ ~l2 => n = Min(1, Min(Len(pending), WindowRoom))

Issued(n) == SubSeq(pending, 1, n)

IssuedAfter(n) == [c \in Cmds |->
    IF c \in inflight THEN issued_txns[c] + Count(Issued(n), c) ELSE issued_txns[c]]

CompletedEarly_ReadsToo(n) ==
    {c \in inflight \ early :
        Count(Issued(n), c) > 0 /\ IssuedAfter(n)[c] >= total_txns[c]}

\* A write is reported once its last burst has been sent.
CompletedEarly(n) ==
    {c \in inflight \ (reads \cup early) :
        Count(Issued(n), c) > 0 /\ IssuedAfter(n)[c] >= total_txns[c]}

\* 0-byte transfers: looked at in L2 mode only.
ZeroDone == IF l2 THEN Due(pending_zero_done) ELSE <<>>

\* The fallback pipeline, with the bursts issued this cycle at its end.
Pipeline(n) ==
    pending_txns \o [i \in 1 .. n |-> [req |-> Issued(n)[i], left |-> BaseLatency]]

\* The bus: each arrival is scheduled Delay after the one before.
Arrivals(n) == incoming_txns \o (IF l2 THEN <<>> ELSE Due(Pipeline(n)))

Scheduled(n) ==
    scheduled_completions \o
        [i \in 1 .. Len(Arrivals(n)) |->
            [req |-> Arrivals(n)[i], left |-> bus_free + i * Delay]]

Transferred(n) == Due(Scheduled(n))

DoneAfter(n) == [c \in Cmds |->
    IF c \in inflight THEN done_txns[c] + Count(Transferred(n), c) ELSE done_txns[c]]

\* Requests whose last burst has come over the bus.
Erased_AnyBurst(n) == {c \in inflight : Count(Transferred(n), c) > 0}

Erased_OffByOne(n) ==
    {c \in inflight : Count(Transferred(n), c) > 0 /\ DoneAfter(n)[c] > total_txns[c]}

Erased(n) ==
    {c \in inflight : Count(Transferred(n), c) > 0 /\ DoneAfter(n)[c] >= total_txns[c]}

\* Those of them still to be reported.
FinishedByBus(n) ==
    {c \in Erased(n) : c \in reads \/ c \notin early \cup CompletedEarly(n)}

One(b) == IF b THEN 1 ELSE 0

Zeroes == {ZeroDone[i] : i \in 1 .. Len(ZeroDone)} \cap inflight

cycle(n) ==
    /\ pc = "idle"
    /\ CanIssue(n)
    /\ pending' = SubSeq(pending, n + 1, Len(pending))
    /\ issued_txns' = IssuedAfter(n)
    /\ IF l2
       THEN /\ in_memory' = [c \in Cmds |-> in_memory[c] + Count(Issued(n), c)]
            /\ pending_zero_done' = NotDue(pending_zero_done)
            /\ current_in_flight_mem_reqs' = current_in_flight_mem_reqs + n
            /\ UNCHANGED pending_txns
       ELSE /\ pending_txns' = NotDue(Pipeline(n))
            /\ current_in_flight_mem_reqs' =
                    current_in_flight_mem_reqs + n - Len(Due(Pipeline(n)))
            /\ UNCHANGED <<in_memory, pending_zero_done>>
    /\ incoming_txns' = <<>>
    /\ bus_free' = Max(0, bus_free + Len(Arrivals(n)) * Delay - 1)
    /\ scheduled_completions' = NotDue(Scheduled(n))
    /\ done_txns' = DoneAfter(n)
    /\ completed_cmds' = [c \in Cmds |-> completed_cmds[c] + One(c \in CompletedEarly(n))
                                        + One(c \in Zeroes) + One(c \in FinishedByBus(n))]
    /\ early' = (early \cup CompletedEarly(n)) \ (Zeroes \cup Erased(n))
    /\ inflight' = inflight \ (Zeroes \cup Erased(n))
    /\ reads' = reads \ (Zeroes \cup Erased(n))
    /\ pc' = "take"
    /\ UNCHANGED <<l2, total_txns, reported>>

(***************************************************************************)
(* take_completed, which SAController::cycle calls right after cycle.      *)
(***************************************************************************)
take_completed ==
    /\ pc = "take"
    /\ reported' = [c \in Cmds |-> reported[c] + completed_cmds[c]]
    /\ completed_cmds' = [c \in Cmds |-> 0]
    /\ pc' = "idle"
    /\ UNCHANGED <<l2, reqVars, memVars, pending_zero_done, busVars>>

Next ==
    \/ \E c \in Cmds, n \in Sizes, is_read \in BOOLEAN : submit(c, n, is_read)
    \/ \E c \in Cmds : recvResponse(c)
    \/ \E n \in 0 .. MaxInFlight : cycle(n)
    \/ take_completed

Spec == Init /\ [][Next]_vars

(***************************************************************************)
(* SAController::cycle runs the engine for ever; the L2 cache answers      *)
(* every burst, and frees its ports every cycle, so that it accepts a      *)
(* waiting burst again and again.                                          *)
(***************************************************************************)
Inject == \E n \in 1 .. MaxInFlight : cycle(n)

FairSpec ==
    /\ Spec
    /\ WF_vars(\E n \in 0 .. MaxInFlight : cycle(n)) /\ WF_vars(take_completed)
    /\ SF_vars(Inject)
    /\ \A c \in Cmds : SF_vars(recvResponse(c))

-----------------------------------------------------------------------------
\* The requests of a queue of [req, left] entries.
Reqs(q) == [i \in 1 .. Len(q) |-> q[i].req]

\* No burst is lost or duplicated on its way: every burst of a request is
\* waiting, in memory, on its way to the bus, on the bus, or counted.  In
\* particular recvResponse always finds its request (its assertion).
BurstsConserved ==
    \A c \in Cmds :
        LET inMemory == in_memory[c] + Count(Reqs(pending_txns), c)
            onBus    == Count(incoming_txns, c) + Count(Reqs(scheduled_completions), c)
        IN  /\ issued_txns[c] + Count(pending, c) = total_txns[c]
            /\ inMemory + onBus + done_txns[c] = issued_txns[c]
            /\ inMemory + onBus > 0 => c \in inflight

\* The sliding window counts exactly the bursts inside the memory, so it
\* neither leaks nor stalls for good, and never exceeds its limit.
WindowExact ==
    /\ current_in_flight_mem_reqs =
            Len(pending_txns) + Cardinality(UNION {{c} \X (1 .. in_memory[c]) : c \in Cmds})
    /\ current_in_flight_mem_reqs <= MaxInFlight

\* Each command is reported at most once ("do not double-complete"); a
\* transfer reported before all its bursts are back is a write that was sent
\* in full and is still in flight, which is what a fence waits for.
ReportedOnce ==
    \A c \in Cmds :
        LET told == reported[c] + completed_cmds[c] IN
        /\ told <= 1
        /\ told = 1 /\ done_txns[c] < total_txns[c]
                => c \in early /\ issued_txns[c] = total_txns[c]
        /\ told = 0 /\ total_txns[c] > 0 => c \in inflight \ early

\* The engine's books are right for every order of answers: bursts, the window
\* and the reports to the controller.
TransfersAccountedFor == BurstsConserved /\ WindowExact /\ ReportedOnce

\* The engine keeps the promise SAController is modelled against.
Interface == INSTANCE DMAInterface

InterfaceSpec == Interface!Spec

\* Every transfer is reported and leaves the engine in the end, but for those
\* of 0 bytes without L2.
EveryTransferEnds ==
    \A c \in Cmds : (c \in inflight /\ (l2 \/ total_txns[c] > 0))
                        ~> (reported[c] = 1 /\ c \notin inflight)
=============================================================================
