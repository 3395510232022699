----------------------------- MODULE SAController -----------------------------
(***************************************************************************)
(* The systolic-array controller (include/SA/SAController.h,                *)
(* src/SA/SAController.cpp): it takes commands from the CPU in program     *)
(* order, dispatches them into a reorder buffer and three queues, issues   *)
(* each queue's head to its controller once the older commands it overlaps *)
(* have finished, executes them on the array or the DMA engine, and        *)
(* commits in order.                                                       *)
(*                                                                         *)
(* Stonne::cycle runs one stage after another in a single thread, so pc    *)
(* walks through the stages of one cycle in their order in the code; the   *)
(* CPU hands over at most one command between two cycles                   *)
(* (Core::issue).  Commands are numbered in the order the CPU sends them.  *)
(*                                                                         *)
(* The array itself (MemoryController, MultiplierNetwork and the           *)
(* accumulation buffer) appears through the signals the controller reads;  *)
(* ArrayCycle lets each of them change whenever the array may change it.   *)
(***************************************************************************)
EXTENDS Command, Sequences, FiniteSets

CONSTANTS
    Templates,      \* the commands a program may contain
    MaxCmds,        \* bound: commands received in a behaviour
    Dataflow,       \* "WS" or "OS"
    InstCap,        \* inst_queue(2)
    QueueCap,       \* load_queue(8), store_queue(2), exe_queue(8)
    ContlrCap,      \* load_contlr(8), store_contlr(4), exe_contlr(16)
    RobCap,         \* rob(48, ...)
    CommitWidth,    \* rob(..., 1)
    MaxDma          \* the literal 2 in can_execute, per direction

Units == {"load", "store", "exe"}

ASSUME TemplatesAssumption ==
    \A t \in Templates :
        /\ t.type \in CommandTypes
        /\ t.op \in OperationsOf(t.type)
        /\ t.stay \in BOOLEAN
        \* WSMeshMN has no MatrixMultiplyStay: the base class asserts false.
        /\ t.stay => Dataflow = "OS" /\ t.op = "MATRIX_MULTIPLY"

ASSUME SizeAssumption ==
    /\ MaxCmds \in Nat /\ Dataflow \in {"WS", "OS"}
    /\ InstCap \in Nat /\ RobCap \in Nat /\ CommitWidth \in Nat /\ MaxDma \in Nat
    /\ QueueCap \in [Units -> Nat] /\ ContlrCap \in [Units -> Nat]

Cmds == 1 .. MaxCmds

VARIABLES
    pc,             \* the stage of the current cycle that runs next
    cmds,           \* commands received so far, in program order
    status,         \* Command::status
    parents,        \* Command::parents; children are its inverse
    inst_queue, queue, contlr, rob,
    preload_cmds,   \* executing_preload_cmds
    mm_cmds,        \* executing_mm_cmds
    fence_active, fence_cmd,    \* fence_cmd = 0 stands for nullptr
    fu_busy,        \* the operations whose fu_idle entry is false
    load_dma, store_dma,        \* max_load_dma_counter, max_store_dma_counter
    inflight, early, reads,     \* the DMA engine, as DMAInterface
    flipped,        \* msnet->has_array_flipped()
    mem_idle,       \* mem->is_idle()
    preloaded,      \* msnet->weights_preloaded() (WS), psums_received() (OS)
    acc_cmds,       \* wsAB->pending_cmds
    accumulated,    \* wsAB->is_psums_accumulated()
    computed        \* msnet->is_compute_finished()

cmdVars   == <<cmds, status, parents>>
queueVars == <<inst_queue, queue, contlr, rob>>
exeVars   == <<preload_cmds, mm_cmds, fence_active, fence_cmd, fu_busy>>
dmaVars   == <<load_dma, store_dma, inflight, early, reads>>
arrayVars == <<flipped, mem_idle, preloaded, acc_cmds, accumulated, computed>>
vars      == <<pc, cmdVars, queueVars, exeVars, dmaVars, arrayVars>>

DMA == INSTANCE DMAInterface

Elems(s) == {s[i] : i \in 1 .. Len(s)}

TypeOf(c) == cmds[c].type
OpOf(c)   == cmds[c].op

UnitOf(c) ==
    IF TypeOf(c) = "EXE" THEN "exe" ELSE IF TypeOf(c) = "STORE" THEN "store" ELSE "load"

SetStatus(S, v) == [c \in Cmds |-> IF c \in S THEN v ELSE status[c]]

-----------------------------------------------------------------------------
Init ==
    /\ pc = "cpu"
    /\ cmds = <<>>
    /\ status = [c \in Cmds |-> COSIM_INIT]
    /\ parents = [c \in Cmds |-> {}]
    /\ inst_queue = <<>> /\ rob = <<>>
    /\ queue = [u \in Units |-> <<>>] /\ contlr = [u \in Units |-> <<>>]
    /\ preload_cmds = <<>> /\ mm_cmds = <<>>
    /\ fence_active = FALSE /\ fence_cmd = 0
    /\ fu_busy = {}
    /\ load_dma = 0 /\ store_dma = 0
    /\ DMA!Init
    /\ flipped = TRUE /\ mem_idle = TRUE /\ preloaded = FALSE
    /\ acc_cmds = <<>> /\ accumulated = FALSE /\ computed = FALSE

(***************************************************************************)
(* Between two cycles: Core::issue sends the next command when the         *)
(* instruction queue has room (is_inst_queue_available), or nothing.       *)
(***************************************************************************)
receive(t) ==
    /\ pc = "cpu"
    /\ Len(cmds) < MaxCmds
    /\ Len(inst_queue) < InstCap
    /\ cmds' = Append(cmds, t)
    /\ status' = [status EXCEPT ![Len(cmds) + 1] = COSIM_WAITING]
    /\ inst_queue' = Append(inst_queue, Len(cmds) + 1)
    /\ pc' = "dma"
    /\ UNCHANGED <<parents, queue, contlr, rob, exeVars, dmaVars, arrayVars>>

NoReceive ==
    /\ pc = "cpu"
    /\ pc' = "dma"
    /\ UNCHANGED <<cmdVars, queueVars, exeVars, dmaVars, arrayVars>>

(***************************************************************************)
(* dma_engine.cycle and the loop over take_completed.                      *)
(***************************************************************************)
DmaCycle(done, drained) ==
    /\ pc = "dma"
    /\ DMA!Cycle(done, drained)
    /\ status' = SetStatus(done, COSIM_FINISHED)
    /\ fu_busy' = fu_busy \ {OpOf(c) : c \in done}
    /\ load_dma' = load_dma - Cardinality({c \in done : UnitOf(c) = "load"})
    /\ store_dma' = store_dma - Cardinality({c \in done : UnitOf(c) = "store"})
    /\ pc' = "commit"
    /\ UNCHANGED <<cmds, parents, queueVars, preload_cmds, mm_cmds,
                   fence_active, fence_cmd, arrayVars>>

(***************************************************************************)
(* ROB::commit: retire finished heads.  The loop tests n <= commit_width,  *)
(* so it retires up to CommitWidth + 1 of them.  A retired command is      *)
(* deleted after its children have dropped it from their parents.          *)
(***************************************************************************)
commit ==
    /\ pc = "commit"
    /\ \E n \in 0 .. Len(rob) :
        /\ n <= CommitWidth + 1
        /\ \A i \in 1 .. n : status[rob[i]] = COSIM_FINISHED
        /\ n < Len(rob) /\ n <= CommitWidth => status[rob[n + 1]] # COSIM_FINISHED
        /\ LET retired == {rob[i] : i \in 1 .. n} IN
            /\ status' = SetStatus(retired, COSIM_COMMITTED)
            /\ parents' = [c \in Cmds |-> parents[c] \ retired]
        /\ rob' = SubSeq(rob, n + 1, Len(rob))
    /\ pc' = "complete"
    /\ UNCHANGED <<cmds, inst_queue, queue, contlr, exeVars, dmaVars, arrayVars>>

(***************************************************************************)
(* First half of execute(): collect what the array has completed.          *)
(***************************************************************************)
PreloadDone == IF preloaded /\ preload_cmds # <<>> THEN {Head(preload_cmds)} ELSE {}

\* WS: the head of the accumulation buffer.
MMDoneWS == IF accumulated THEN {Head(acc_cmds)} ELSE {}

\* OS: the oldest multiply, by the mesh if it stays, else by its psums.
MMDoneOS ==
    IF mm_cmds = <<>> THEN {}
    ELSE LET c == Head(mm_cmds) IN
         IF cmds[c].stay THEN (IF computed THEN {c} ELSE {})
         ELSE IF accumulated /\ Head(acc_cmds) = c THEN {c} ELSE {}

MMDone == IF Dataflow = "WS" THEN MMDoneWS ELSE MMDoneOS

RemoveTracked_Never(done) == mm_cmds

\* remove_tracked_mm_cmd: only the front of executing_mm_cmds is dropped.
RemoveTracked(done) ==
    IF mm_cmds # <<>> /\ Head(mm_cmds) \in done THEN Tail(mm_cmds) ELSE mm_cmds

Complete ==
    /\ pc = "complete"
    /\ LET done == PreloadDone \cup MMDone IN
        /\ status' = SetStatus(done, COSIM_FINISHED)
        /\ fu_busy' = fu_busy \ {OpOf(c) : c \in done}
    /\ preload_cmds' = IF PreloadDone # {} THEN Tail(preload_cmds) ELSE preload_cmds
    /\ preloaded' = FALSE
    /\ mm_cmds' = RemoveTracked(MMDone)
    /\ LET popped == accumulated /\ Head(acc_cmds) \in MMDone IN
        /\ acc_cmds' = IF popped THEN Tail(acc_cmds) ELSE acc_cmds
        /\ accumulated' = (accumulated /\ ~popped)
    /\ pc' = "execute"
    /\ UNCHANGED <<cmds, parents, queueVars, fence_active, fence_cmd, dmaVars,
                   flipped, mem_idle, computed>>

(***************************************************************************)
(* Second half of execute(): start the head of each controller.            *)
(***************************************************************************)

DmaSlotFree(n) == n < MaxDma

can_execute(c) ==
    CASE OpOf(c) = "PRELOAD"                   -> "PRELOAD" \notin fu_busy /\ flipped
      [] OpOf(c) \in MMOps                     -> flipped /\ mem_idle
      [] OpOf(c) \in {"MOVE_IN", "MOVE_IN_ACC"} -> DmaSlotFree(load_dma)
      [] OpOf(c) = "MOVE_OUT"                  -> DmaSlotFree(store_dma)
      [] OTHER                                 -> OpOf(c) \notin fu_busy

Starting_Youngest(u) ==
    LET last == contlr[u][Len(contlr[u])] IN
    IF contlr[u] # <<>> /\ can_execute(last) THEN {last} ELSE {}

Starting(u) ==
    IF contlr[u] # <<>> /\ can_execute(Head(contlr[u])) THEN {Head(contlr[u])} ELSE {}

\* The execute(cmd) switch; CONFIG and FAKE are done on the spot.
AtOnce(c) == OpOf(c) \in {"FAKE", "CONFIG"}

StartExe(c) ==
    /\ fu_busy' = IF AtOnce(c) THEN fu_busy \ {OpOf(c)} ELSE fu_busy \cup {OpOf(c)}
    /\ fence_cmd' = IF OpOf(c) = "FENCE" THEN c ELSE fence_cmd
    /\ preload_cmds' = IF OpOf(c) = "PRELOAD" THEN Append(preload_cmds, c) ELSE preload_cmds
    /\ flipped' = (flipped /\ OpOf(c) # "PRELOAD")
    /\ mm_cmds' = IF OpOf(c) \in MMOps THEN Append(mm_cmds, c) ELSE mm_cmds
    /\ acc_cmds' = IF OpOf(c) \in MMOps /\ ~cmds[c].stay
                   THEN Append(acc_cmds, c) ELSE acc_cmds
    /\ mem_idle' = (mem_idle /\ (OpOf(c) \notin MMOps \/ Dataflow = "OS"))

execute ==
    /\ pc = "execute"
    /\ LET started == UNION {Starting(u) : u \in Units}
           atOnce  == {c \in Starting("exe") : AtOnce(c)}
       IN  status' = [c \in Cmds |-> IF c \in atOnce THEN COSIM_FINISHED
                                     ELSE IF c \in started THEN COSIM_EXECUTING
                                     ELSE status[c]]
    /\ contlr' = [u \in Units |-> IF Starting(u) = {} THEN contlr[u] ELSE Tail(contlr[u])]
    /\ IF Starting("exe") = {}
       THEN UNCHANGED <<fu_busy, fence_cmd, preload_cmds, flipped, mm_cmds, acc_cmds, mem_idle>>
       ELSE StartExe(Head(contlr["exe"]))
    /\ DMA!Submit(Starting("load"), Starting("store"))
    /\ load_dma' = load_dma + Cardinality(Starting("load"))
    /\ store_dma' = store_dma + Cardinality(Starting("store"))
    /\ pc' = "fence"
    /\ UNCHANGED <<cmds, parents, inst_queue, queue, rob, fence_active,
                   preloaded, accumulated, computed>>

(***************************************************************************)
(* try_complete_fence.                                                     *)
(***************************************************************************)
can_release_fence_IgnoresDma ==
    /\ \A u \in Units : queue[u] = <<>> /\ contlr[u] = <<>>
    /\ preload_cmds = <<>> /\ mm_cmds = <<>>

can_release_fence_EmptyRob == can_release_fence_IgnoresDma /\ inflight = {} /\ rob = <<>>

can_release_fence ==
    /\ \A u \in Units : queue[u] = <<>> /\ contlr[u] = <<>>
    /\ preload_cmds = <<>> /\ mm_cmds = <<>>
    /\ inflight = {}

try_complete_fence ==
    /\ pc = "fence"
    /\ IF fence_cmd # 0 /\ can_release_fence
       THEN /\ status' = SetStatus({fence_cmd}, COSIM_FINISHED)
            /\ fu_busy' = fu_busy \ {"FENCE"}
            /\ fence_cmd' = 0 /\ fence_active' = FALSE
       ELSE UNCHANGED <<status, fu_busy, fence_cmd, fence_active>>
    /\ pc' = "issue"
    /\ UNCHANGED <<cmds, parents, queueVars, preload_cmds, mm_cmds, dmaVars, arrayVars>>

(***************************************************************************)
(* issue(): the head of each queue, when its parents have finished and the *)
(* controller has room.                                                    *)
(***************************************************************************)
is_ready(c) == \A p \in parents[c] : status[p] >= COSIM_FINISHED

can_issue(c) == is_ready(c) /\ status[c] = COSIM_WAITING

Issuing(u) ==
    /\ queue[u] # <<>> /\ Len(contlr[u]) # ContlrCap[u]
    /\ can_issue(Head(queue[u]))

issue ==
    /\ pc = "issue"
    /\ status' = SetStatus({Head(queue[u]) : u \in {v \in Units : Issuing(v)}}, COSIM_ISSUED)
    /\ contlr' = [u \in Units |->
                    IF Issuing(u) THEN Append(contlr[u], Head(queue[u])) ELSE contlr[u]]
    /\ queue' = [u \in Units |-> IF Issuing(u) THEN Tail(queue[u]) ELSE queue[u]]
    /\ pc' = "dispatch"
    /\ UNCHANGED <<cmds, parents, inst_queue, rob, exeVars, dmaVars, arrayVars>>

(***************************************************************************)
(* dispatch(): one command a cycle, none while a fence is pending.         *)
(***************************************************************************)
can_dispatch_NoRobTest(c) == Len(queue[UnitOf(c)]) # QueueCap[UnitOf(c)]

can_dispatch(c) ==
    /\ Len(rob) # RobCap
    /\ Len(queue[UnitOf(c)]) # QueueCap[UnitOf(c)]

build_data_dep_NotExecuting(c) ==
    {p \in Elems(rob) : status[p] < COSIM_EXECUTING /\ overlap(cmds[c], cmds[p])}

\* ROB::build_data_dep.
build_data_dep(c) ==
    {p \in Elems(rob) : status[p] < COSIM_FINISHED /\ overlap(cmds[c], cmds[p])}

dispatch ==
    /\ pc = "dispatch"
    /\ IF inst_queue # <<>> /\ ~fence_active /\ can_dispatch(Head(inst_queue))
       THEN LET c == Head(inst_queue) IN
            /\ status' = [status EXCEPT ![c] = COSIM_WAITING]
            /\ parents' = [parents EXCEPT ![c] = build_data_dep(c)]
            /\ rob' = Append(rob, c)
            /\ queue' = [queue EXCEPT ![UnitOf(c)] = Append(@, c)]
            /\ inst_queue' = Tail(inst_queue)
            /\ fence_active' = (OpOf(c) = "FENCE")
       ELSE UNCHANGED <<status, parents, rob, queue, inst_queue, fence_active>>
    /\ pc' = "array"
    /\ UNCHANGED <<cmds, contlr, preload_cmds, mm_cmds, fence_cmd, fu_busy,
                   dmaVars, arrayVars>>

(***************************************************************************)
(* The rest of Stonne::cycle: mem, wsAB, msnet and dsnet.  Each signal may *)
(* change when the array has the work that changes it: the weights of a    *)
(* preload arrive, the head multiply's psums are all in, the input rows    *)
(* have been sent.  flip_ready and compute_finish move either way.         *)
(***************************************************************************)
ArrayCycle(flip, idle, pre, accd, comp) ==
    /\ pc = "array"
    /\ flipped' = flip
    /\ mem_idle' = idle
    /\ mem_idle /\ Dataflow = "WS" => idle
    /\ preloaded' = pre
    /\ preloaded => pre
    /\ pre => preload_cmds # <<>>
    /\ accumulated' = accd
    /\ accumulated => accd
    /\ accd => acc_cmds # <<>>
    /\ computed' = comp
    /\ comp => Dataflow = "OS"
    /\ pc' = "cpu"
    /\ UNCHANGED <<cmdVars, queueVars, exeVars, dmaVars, acc_cmds>>

-----------------------------------------------------------------------------
Next ==
    \/ \E t \in Templates : receive(t)
    \/ NoReceive
    \/ \E done \in SUBSET inflight : \E drained \in SUBSET inflight :
            DmaCycle(done, drained)
    \/ commit
    \/ Complete
    \/ execute
    \/ try_complete_fence
    \/ issue
    \/ dispatch
    \/ \E flip, idle, pre, accd, comp \in BOOLEAN : ArrayCycle(flip, idle, pre, accd, comp)

Spec == Init /\ [][Next]_vars

(***************************************************************************)
(* Core::run calls Stonne::cycle for ever, every DMA transfer ends after a *)
(* bounded number of cycles, and so does every operation of the array:     *)
(* again and again a cycle comes in which all that was under way is over.  *)
(***************************************************************************)
DmaAllDone == DmaCycle(inflight \ early, inflight)

ArrayAllDone == ArrayCycle(TRUE, TRUE, preload_cmds # <<>>, acc_cmds # <<>>, Dataflow = "OS")

FairSpec == Spec /\ WF_vars(Next) /\ SF_vars(DmaAllDone) /\ SF_vars(ArrayAllDone)

-----------------------------------------------------------------------------
Received == 1 .. Len(cmds)

\* The commands that have left the instruction queue.
Dispatched == 1 .. Len(cmds) - Len(inst_queue)

\* Types, and the assertion of BaseQueue::insert_command: no queue, controller
\* or reorder buffer ever holds more commands than its capacity.
TypeOK ==
    /\ pc \in {"cpu", "dma", "commit", "complete", "execute", "fence", "issue",
               "dispatch", "array"}
    /\ cmds \in Seq(Templates) /\ Len(cmds) <= MaxCmds
    /\ status \in [Cmds -> COSIM_INIT .. COSIM_COMMITTED]
    /\ parents \in [Cmds -> SUBSET Cmds]
    /\ inst_queue \in Seq(Cmds) /\ Len(inst_queue) <= InstCap
    /\ rob \in Seq(Cmds) /\ Len(rob) <= RobCap
    /\ queue \in [Units -> Seq(Cmds)] /\ contlr \in [Units -> Seq(Cmds)]
    /\ \A u \in Units : Len(queue[u]) <= QueueCap[u] /\ Len(contlr[u]) <= ContlrCap[u]
    /\ preload_cmds \in Seq(Cmds) /\ mm_cmds \in Seq(Cmds) /\ acc_cmds \in Seq(Cmds)
    /\ fence_active \in BOOLEAN /\ fence_cmd \in Cmds \cup {0}
    /\ fu_busy \subseteq OperationsOf("EXE")
    /\ load_dma \in Int /\ store_dma \in Int
    /\ inflight \subseteq Cmds /\ early \subseteq Cmds /\ reads \subseteq Cmds
    /\ flipped \in BOOLEAN /\ mem_idle \in BOOLEAN /\ preloaded \in BOOLEAN
    /\ accumulated \in BOOLEAN /\ computed \in BOOLEAN

\* Scratchpad hazards are respected: a command is not issued to its
\* controller while an older command that touches the same rows, one of them
\* writing, is unfinished (ROB::build_data_dep, Command::is_ready).
DependenceOrder ==
    \A d \in Received : \A c \in 1 .. d - 1 :
        status[d] >= COSIM_ISSUED /\ overlap(cmds[d], cmds[c])
            => status[c] >= COSIM_FINISHED

\* "MMs execute in sequence" (Command.cpp), which is why overlap leaves pairs
\* of EXE commands out: within a unit commands start in program order.
UnitOrder ==
    \A d \in Received : \A c \in 1 .. d - 1 :
        UnitOf(c) = UnitOf(d) /\ status[d] >= COSIM_EXECUTING
            => status[c] >= COSIM_EXECUTING

\* A fence is a barrier both ways: nothing younger leaves the instruction
\* queue before it is done, and once it is done every older command is
\* finished and no older DMA write is still on its way, also the ones that
\* were reported complete early (try_complete_fence, fence_active).
FenceBarrier ==
    \A f \in Dispatched : OpOf(f) = "FENCE" =>
        IF status[f] < COSIM_FINISHED
        THEN \A d \in Dispatched : d <= f
        ELSE \A c \in 1 .. f - 1 : status[c] >= COSIM_FINISHED /\ c \notin inflight

\* ROB::commit deletes what it retires; nothing that is dereferenced later
\* still names a deleted command: no queue, controller or tracking list, no
\* unreported DMA request, no parent and no child.
NoDanglingCommand ==
    /\ \A u \in Units : Elems(queue[u]) \cup Elems(contlr[u]) \subseteq Elems(rob)
    /\ Elems(preload_cmds) \cup Elems(mm_cmds) \cup Elems(acc_cmds) \subseteq Elems(rob)
    /\ fence_cmd # 0 => fence_cmd \in Elems(rob)
    /\ inflight \ early \subseteq Elems(rob)
    /\ \A d \in Cmds : parents[d] # {} => parents[d] \cup {d} \subseteq Elems(rob)

\* In program order, hence without repetition.
Sorted(s) == \A i, j \in 1 .. Len(s) : i < j => s[i] < s[j]

\* The accumulation buffer and executing_mm_cmds agree on what is pending and
\* in which order (program order), so the multiply that completes is always
\* the tracked front (the only one remove_tracked_mm_cmd drops).
MMTracked ==
    /\ Sorted(mm_cmds) /\ Sorted(acc_cmds)
    /\ Elems(acc_cmds) = {c \in Elems(mm_cmds) : ~cmds[c].stay}

\* max_load_dma_counter and max_store_dma_counter count the unreported
\* transfers of each direction and never exceed the limit.
DmaThrottle ==
    /\ load_dma = Cardinality({c \in inflight \ early : UnitOf(c) = "load"})
    /\ store_dma = Cardinality({c \in inflight \ early : UnitOf(c) = "store"})
    /\ load_dma <= MaxDma /\ store_dma <= MaxDma

\* What the controller keeps about its commands is right at all times: no list
\* names a deleted command, the running multiplies are tracked in order, and
\* the DMA counters count what is under way.
CommandsTracked == NoDanglingCommand /\ MMTracked /\ DmaThrottle

\* No command is finished twice, started again or revived after its commit:
\* its status only climbs.
StatusClimbs == [][\A c \in Cmds : status'[c] >= status[c]]_vars

\* Every command the CPU hands over is eventually committed and stays so: its
\* status only climbs, and again and again all of them are committed.
EventuallyCommitted ==
    /\ StatusClimbs
    /\ []<>(\A c \in Received : status[c] = COSIM_COMMITTED)
=============================================================================
