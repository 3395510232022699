-------------------------- MODULE SAControllerProofs --------------------------
(***************************************************************************)
(* Type correctness and the order of dependent commands in SAController,   *)
(* for every program, every queue size and both dataflows.                 *)
(*                                                                         *)
(* DependenceOrder is not inductive: that issue() waits long enough rests  *)
(* on the parents that dispatch() computed, these on the reorder buffer    *)
(* holding every unfinished older command, and all of it on a status never *)
(* falling below FINISHED, hence on what the queues and the lists of       *)
(* executing commands say about the status of their members.               *)
(***************************************************************************)
EXTENDS SAController, TLAPS, SequenceTheorems, FiniteSetTheorems

\* The last command dispatched.
Last == Len(cmds) - Len(inst_queue)

\* inst_queue and rob are consecutive stretches of the program.
ProgramOrder ==
    /\ Len(inst_queue) + Len(rob) <= Len(cmds)
    /\ \A i \in 1 .. Len(inst_queue) : inst_queue[i] = Last + i
    /\ \A i \in 1 .. Len(rob) : rob[i] = Last - Len(rob) + i

\* Nothing has started before it is dispatched, everything has finished once
\* it has left the reorder buffer.
StatusByAge ==
    /\ \A c \in Cmds : c > Last => status[c] <= COSIM_WAITING
    /\ \A c \in Cmds : c <= Last - Len(rob) => status[c] >= COSIM_FINISHED

\* A queue or controller holds dispatched commands of its unit, in program
\* order, all in the same state.
Holds(q, u, st) ==
    /\ \A i \in 1 .. Len(q) : q[i] <= Last /\ UnitOf(q[i]) = u /\ status[q[i]] = st
    /\ \A i, j \in 1 .. Len(q) : i < j => q[i] < q[j]

QueuesHold == \A u \in Units : Holds(queue[u], u, COSIM_WAITING)
ContlrsHold == \A u \in Units : Holds(contlr[u], u, COSIM_ISSUED)

\* What waits in a queue is younger than what its controller holds.
UnitFifo ==
    \A u \in Units : \A i \in 1 .. Len(contlr[u]), j \in 1 .. Len(queue[u]) :
        contlr[u][i] < queue[u][j]

\* Whatever the array, the DMA engine or the fence will report has started.
Started(s) == \A i \in 1 .. Len(s) : status[s[i]] >= COSIM_EXECUTING

ReportedStarted ==
    /\ Started(preload_cmds) /\ Started(mm_cmds) /\ Started(acc_cmds)
    /\ \A c \in inflight \ early : status[c] >= COSIM_EXECUTING
    /\ fence_cmd # 0 => status[fence_cmd] >= COSIM_EXECUTING
    /\ accumulated => acc_cmds # <<>>

\* dispatch() found every older command in the way.
ParentsBuilt ==
    \A d \in Cmds : \A c \in 1 .. d - 1 :
        d <= Last /\ overlap(cmds[d], cmds[c]) /\ status[c] < COSIM_FINISHED
            => c \in parents[d]

IInv ==
    /\ TypeOK /\ ProgramOrder /\ StatusByAge /\ QueuesHold /\ ContlrsHold
    /\ UnitFifo /\ ReportedStarted /\ ParentsBuilt /\ DependenceOrder

-----------------------------------------------------------------------------
Statuses == COSIM_INIT .. COSIM_COMMITTED

\* The parts of IInv that only speak of status, cmds and the queues.
StatusInv ==
    /\ StatusByAge /\ QueuesHold /\ ContlrsHold /\ UnitFifo /\ ParentsBuilt /\ DependenceOrder

USE DEF COSIM_INIT, COSIM_WAITING, COSIM_ISSUED, COSIM_EXECUTING,
        COSIM_FINISHED, COSIM_COMMITTED

\* Overriding the status of some commands gives a status function.
LEMMA SetStatusType ==
    ASSUME TypeOK, NEW S, NEW v \in Statuses
    PROVE  /\ SetStatus(S, v) \in [Cmds -> Statuses]
           /\ \A c \in Cmds : SetStatus(S, v)[c] = IF c \in S THEN v ELSE status[c]
BY DEF TypeOK, SetStatus, Statuses

\* Finishing commands that have started disturbs nothing: the queues and
\* controllers hold none of them, and FINISHED only helps the dependents.
LEMMA FinishStarted ==
    ASSUME TypeOK, ProgramOrder, StatusInv,
           NEW S, \A c \in S \cap Cmds : status[c] >= COSIM_EXECUTING,
           NEW v \in {COSIM_FINISHED, COSIM_COMMITTED}, status' = SetStatus(S, v),
           UNCHANGED <<cmds, inst_queue, queue, contlr>>,
           \A d \in Cmds : parents[d] \ S \subseteq parents'[d],
           \/ UNCHANGED rob
           \/ \A c \in Cmds : c <= Last - Len(rob') => c \in S \/ c <= Last - Len(rob)
    PROVE  /\ StatusInv'
           /\ status' \in [Cmds -> Statuses]
           /\ \A c \in Cmds : status'[c] >= COSIM_EXECUTING <=> status[c] >= COSIM_EXECUTING
<1>1. status' \in [Cmds -> Statuses]
      /\ \A c \in Cmds : status'[c] = IF c \in S THEN v ELSE status[c]
  BY SetStatusType DEF Statuses
<1>2. \A c \in Cmds : status[c] \in Statuses
  BY DEF TypeOK, Statuses
<1>3. \A c \in Cmds : /\ status'[c] >= status[c] \/ status'[c] >= COSIM_FINISHED
                      /\ status[c] < COSIM_EXECUTING => status'[c] = status[c]
                      /\ status'[c] >= COSIM_EXECUTING <=> status[c] >= COSIM_EXECUTING
                      /\ status[c] >= COSIM_FINISHED => status'[c] >= COSIM_FINISHED
                      /\ status'[c] >= COSIM_ISSUED <=> status[c] >= COSIM_ISSUED
  BY <1>1, <1>2 DEF Statuses
<1>4. Last' = Last /\ Last \in Int /\ Len(cmds) <= MaxCmds /\ MaxCmds \in Nat
  BY SizeAssumption DEF Last, TypeOK
<1>5. StatusByAge'
  BY <1>1, <1>2, <1>3, <1>4 DEF StatusInv, StatusByAge, Statuses
<1>6. QueuesHold'
  <2> SUFFICES ASSUME NEW u \in Units PROVE Holds(queue[u], u, COSIM_WAITING)'
    BY DEF QueuesHold
  <2>1. Holds(queue[u], u, COSIM_WAITING) /\ queue[u] \in Seq(Cmds)
    BY DEF StatusInv, QueuesHold, TypeOK
  <2>2. QED BY <1>3, <1>4, <2>1 DEF Holds, UnitOf, TypeOf
<1>7. ContlrsHold'
  <2> SUFFICES ASSUME NEW u \in Units PROVE Holds(contlr[u], u, COSIM_ISSUED)'
    BY DEF ContlrsHold
  <2>1. Holds(contlr[u], u, COSIM_ISSUED) /\ contlr[u] \in Seq(Cmds)
    BY DEF StatusInv, ContlrsHold, TypeOK
  <2>2. QED BY <1>3, <1>4, <2>1 DEF Holds, UnitOf, TypeOf
<1>8. ParentsBuilt'
  BY <1>1, <1>2, <1>3, <1>4 DEF StatusInv, ParentsBuilt, Cmds, Statuses
<1>9. DependenceOrder'
  BY <1>1, <1>2, <1>3, <1>4 DEF StatusInv, DependenceOrder, Received, Cmds, Statuses, TypeOK
<1>10. UnitFifo'
  BY DEF StatusInv, UnitFifo
<1>11. QED BY <1>1, <1>3, <1>5, <1>6, <1>7, <1>8, <1>9, <1>10 DEF StatusInv

\* A step that leaves the commands and the queues alone keeps StatusInv.
LEMMA StatusInvUnchanged ==
    ASSUME StatusInv, UNCHANGED <<cmdVars, queueVars>>
    PROVE  StatusInv'
<1>1. /\ cmds' = cmds /\ status' = status /\ parents' = parents
      /\ inst_queue' = inst_queue /\ queue' = queue /\ contlr' = contlr /\ rob' = rob
  BY DEF cmdVars, queueVars
<1>2. StatusByAge'
  BY <1>1 DEF StatusInv, StatusByAge, Last
<1>3. QueuesHold' /\ ContlrsHold'
  BY <1>1 DEF StatusInv, QueuesHold, ContlrsHold, Holds, Last, UnitOf, TypeOf
<1>4. UnitFifo'
  BY <1>1 DEF StatusInv, UnitFifo
<1>5. ParentsBuilt'
  BY <1>1 DEF StatusInv, ParentsBuilt, Last
<1>6. DependenceOrder'
  BY <1>1 DEF StatusInv, DependenceOrder, Received
<1> QED
  BY <1>2, <1>3, <1>4, <1>5, <1>6 DEF StatusInv

LEMMA ProgramOrderUnchanged ==
    ASSUME ProgramOrder, UNCHANGED <<cmds, inst_queue, rob>>
    PROVE  ProgramOrder'
BY DEF ProgramOrder, Last

\* Commands that have started stay started.
LEMMA StartedStays ==
    ASSUME NEW s \in Seq(Cmds), Started(s),
           \A c \in Cmds : status[c] >= COSIM_EXECUTING => status'[c] >= COSIM_EXECUTING
    PROVE  \A i \in 1 .. Len(s) : status'[s[i]] >= COSIM_EXECUTING
<1>1. \A i \in 1 .. Len(s) : s[i] \in Cmds
  OBVIOUS
<1>2. QED BY <1>1 DEF Started

LEMMA InitIInv == Init => IInv
<1> SUFFICES ASSUME Init PROVE IInv
  OBVIOUS
<1> USE DEF Init
<1>1. Len(cmds) = 0 /\ Len(inst_queue) = 0 /\ Len(rob) = 0 /\ Last = 0
  BY DEF Last
<1>2. \A u \in Units : Len(queue[u]) = 0 /\ Len(contlr[u]) = 0
  OBVIOUS
<1>3. inflight = {} /\ early = {} /\ reads = {}
  BY DEF DMA!Init
<1>4. TypeOK
  <2>1. status \in [Cmds -> COSIM_INIT .. COSIM_COMMITTED] /\ parents \in [Cmds -> SUBSET Cmds]
    OBVIOUS
  <2>2. queue \in [Units -> Seq(Cmds)] /\ contlr \in [Units -> Seq(Cmds)]
    OBVIOUS
  <2>3. \A u \in Units : Len(queue[u]) <= QueueCap[u] /\ Len(contlr[u]) <= ContlrCap[u]
    BY <1>2, SizeAssumption
  <2>4. /\ cmds \in Seq(Templates) /\ inst_queue \in Seq(Cmds) /\ rob \in Seq(Cmds)
        /\ preload_cmds \in Seq(Cmds) /\ mm_cmds \in Seq(Cmds) /\ acc_cmds \in Seq(Cmds)
        /\ Len(cmds) <= MaxCmds /\ Len(inst_queue) <= InstCap /\ Len(rob) <= RobCap
    BY <1>1, SizeAssumption
  <2>5. /\ fence_active \in BOOLEAN /\ flipped \in BOOLEAN /\ mem_idle \in BOOLEAN
        /\ preloaded \in BOOLEAN /\ accumulated \in BOOLEAN /\ computed \in BOOLEAN
    BY Zenon
  <2>6. /\ pc \in {"cpu", "dma", "commit", "complete", "execute", "fence", "issue",
                   "dispatch", "array"}
        /\ fence_cmd \in Cmds \cup {0} /\ fu_busy \subseteq OperationsOf("EXE")
        /\ load_dma \in Int /\ store_dma \in Int
        /\ inflight \subseteq Cmds /\ early \subseteq Cmds /\ reads \subseteq Cmds
    BY <1>3
  <2>7. QED BY <2>1, <2>2, <2>3, <2>4, <2>5, <2>6, Zenon DEF TypeOK
<1>5. ProgramOrder /\ StatusByAge
  BY <1>1 DEF ProgramOrder, StatusByAge, Cmds
<1>6. QueuesHold /\ ContlrsHold /\ UnitFifo
  BY <1>2 DEF QueuesHold, ContlrsHold, Holds, UnitFifo
<1>7. ReportedStarted
  BY <1>3 DEF ReportedStarted, Started
<1>8. ParentsBuilt /\ DependenceOrder
  BY <1>1 DEF ParentsBuilt, DependenceOrder, Received, Cmds
<1>9. QED BY <1>4, <1>5, <1>6, <1>7, <1>8 DEF IInv

LEMMA NoReceiveIInv == IInv /\ NoReceive => IInv'
<1> SUFFICES ASSUME IInv, NoReceive PROVE IInv'
  OBVIOUS
<1>1. TypeOK'
  BY DEF IInv, NoReceive, TypeOK, cmdVars, queueVars, exeVars, dmaVars, arrayVars
<1>2. ReportedStarted'
  BY DEF IInv, NoReceive, ReportedStarted, Started, cmdVars, exeVars, dmaVars, arrayVars
<1>3. StatusInv' /\ ProgramOrder'
  BY StatusInvUnchanged, ProgramOrderUnchanged
     DEF IInv, NoReceive, StatusInv, cmdVars, queueVars
<1>4. QED BY <1>1, <1>2, <1>3 DEF IInv, StatusInv

LEMMA ArrayCycleIInv ==
    ASSUME IInv, NEW flip \in BOOLEAN, NEW idle \in BOOLEAN, NEW pre \in BOOLEAN,
           NEW accd \in BOOLEAN, NEW comp \in BOOLEAN,
           ArrayCycle(flip, idle, pre, accd, comp)
    PROVE  IInv'
<1>1. TypeOK'
  BY DEF IInv, ArrayCycle, TypeOK, cmdVars, queueVars, exeVars, dmaVars
<1>2. ReportedStarted'
  BY DEF IInv, ArrayCycle, ReportedStarted, Started, cmdVars, exeVars, dmaVars
<1>3. StatusInv' /\ ProgramOrder'
  BY StatusInvUnchanged, ProgramOrderUnchanged
     DEF IInv, ArrayCycle, StatusInv, cmdVars, queueVars
<1>4. QED BY <1>1, <1>2, <1>3 DEF IInv, StatusInv

LEMMA try_complete_fenceIInv == IInv /\ try_complete_fence => IInv'
<1> SUFFICES ASSUME IInv, try_complete_fence PROVE IInv'
  OBVIOUS
<1>1. CASE fence_cmd # 0 /\ can_release_fence
  <2>1. status' = SetStatus({fence_cmd}, COSIM_FINISHED) /\ fence_cmd' = 0
    BY <1>1 DEF try_complete_fence
  <2>2. UNCHANGED <<cmds, parents, inst_queue, queue, contlr, rob>> /\ ProgramOrder'
    BY ProgramOrderUnchanged DEF try_complete_fence, queueVars, IInv
  <2>3. \A c \in {fence_cmd} \cap Cmds : status[c] >= COSIM_EXECUTING
    BY <1>1 DEF IInv, ReportedStarted
  <2>4. /\ StatusInv' /\ status' \in [Cmds -> Statuses]
        /\ \A c \in Cmds : status'[c] >= COSIM_EXECUTING <=> status[c] >= COSIM_EXECUTING
    BY <2>1, <2>2, <2>3, FinishStarted DEF IInv, StatusInv
  <2>5. TypeOK'
    BY <1>1, <2>2, <2>4 DEF IInv, TypeOK, try_complete_fence, Statuses, queueVars, dmaVars, arrayVars
  <2>6. ReportedStarted'
    <3>1. UNCHANGED <<preload_cmds, mm_cmds, acc_cmds, accumulated, inflight, early>>
      BY DEF try_complete_fence, dmaVars, arrayVars
    <3>2. Started(preload_cmds)' /\ Started(mm_cmds)' /\ Started(acc_cmds)'
      BY <2>4, <3>1, StartedStays DEF IInv, TypeOK, ReportedStarted, Started
    <3>3. \A c \in (inflight \ early)' : status'[c] >= COSIM_EXECUTING
      BY <2>4, <3>1 DEF IInv, TypeOK, ReportedStarted
    <3>4. QED BY <2>1, <3>1, <3>2, <3>3 DEF IInv, ReportedStarted
  <2>7. QED BY <2>2, <2>4, <2>5, <2>6 DEF IInv, StatusInv
<1>2. CASE ~(fence_cmd # 0 /\ can_release_fence)
  <2>1. UNCHANGED <<cmdVars, queueVars, exeVars, dmaVars, arrayVars>> /\ pc' = "issue"
    BY <1>2 DEF try_complete_fence, cmdVars, exeVars
  <2>2. StatusInv' /\ ProgramOrder'
    BY <2>1, StatusInvUnchanged, ProgramOrderUnchanged DEF IInv, StatusInv, cmdVars, queueVars
  <2>3. TypeOK'
    BY <2>1 DEF IInv, TypeOK, cmdVars, queueVars, exeVars, dmaVars, arrayVars
  <2>4. ReportedStarted'
    BY <2>1 DEF IInv, ReportedStarted, Started, cmdVars, exeVars, dmaVars, arrayVars
  <2>5. QED BY <2>2, <2>3, <2>4 DEF IInv, StatusInv
<1>3. QED BY <1>1, <1>2

\* A set of commands has a cardinality that can be added and subtracted.
LEMMA CmdsFinite ==
    ASSUME NEW S \in SUBSET Cmds
    PROVE  IsFiniteSet(S) /\ Cardinality(S) \in Int
<1>1. IsFiniteSet(Cmds)
  BY FS_Interval, SizeAssumption DEF Cmds
<1>2. IsFiniteSet(S)
  BY <1>1, FS_Subset
<1>3. QED BY <1>2, FS_CardinalityType

LEMMA DmaCycleIInv ==
    ASSUME IInv, NEW done \in SUBSET inflight, NEW drained \in SUBSET inflight,
           DmaCycle(done, drained)
    PROVE  IInv'
<1>1. /\ done \subseteq inflight \ early
      /\ inflight' = inflight \ drained /\ early' = (early \cup done) \ drained
      /\ reads' = reads \ drained
  BY DEF DmaCycle, DMA!Cycle
<1>2. UNCHANGED <<cmds, parents, inst_queue, queue, contlr, rob>> /\ ProgramOrder'
  BY ProgramOrderUnchanged DEF DmaCycle, queueVars, IInv
<1>3. \A c \in done \cap Cmds : status[c] >= COSIM_EXECUTING
  BY <1>1 DEF IInv, ReportedStarted
<1>4. /\ StatusInv' /\ status' \in [Cmds -> Statuses]
      /\ \A c \in Cmds : status'[c] >= COSIM_EXECUTING <=> status[c] >= COSIM_EXECUTING
  BY <1>2, <1>3, FinishStarted DEF IInv, StatusInv, DmaCycle
<1>5. TypeOK'
  <2>1. load_dma' \in Int /\ store_dma' \in Int
    <3>1. {c \in done : UnitOf(c) = "load"} \in SUBSET Cmds
          /\ {c \in done : UnitOf(c) = "store"} \in SUBSET Cmds
      BY DEF IInv, TypeOK
    <3>2. /\ Cardinality({c \in done : UnitOf(c) = "load"}) \in Int
          /\ Cardinality({c \in done : UnitOf(c) = "store"}) \in Int
      BY <3>1, CmdsFinite
    <3>3. load_dma \in Int /\ store_dma \in Int
      BY DEF IInv, TypeOK
    <3>4. QED BY <3>2, <3>3 DEF DmaCycle
  <2>2. /\ inflight' \subseteq Cmds /\ early' \subseteq Cmds /\ reads' \subseteq Cmds
        /\ fu_busy' \subseteq OperationsOf("EXE")
    BY <1>1 DEF IInv, TypeOK, DmaCycle
  <2>3. QED BY <1>2, <1>4, <2>1, <2>2
            DEF IInv, TypeOK, DmaCycle, Statuses, queueVars, arrayVars
<1>6. ReportedStarted'
  <2>1. UNCHANGED <<preload_cmds, mm_cmds, acc_cmds, accumulated, fence_cmd>>
    BY DEF DmaCycle, arrayVars
  <2>2. Started(preload_cmds)' /\ Started(mm_cmds)' /\ Started(acc_cmds)'
    BY <1>4, <2>1, StartedStays DEF IInv, TypeOK, ReportedStarted, Started
  <2>3. \A c \in (inflight \ early)' : status'[c] >= COSIM_EXECUTING
    BY <1>1, <1>4 DEF IInv, TypeOK, ReportedStarted
  <2>4. QED BY <1>4, <2>1, <2>2, <2>3 DEF IInv, TypeOK, ReportedStarted
<1>7. QED BY <1>2, <1>4, <1>5, <1>6 DEF IInv, StatusInv

LEMMA TailStarted ==
    ASSUME NEW s \in Seq(Cmds), s # <<>>, Started(s)
    PROVE  /\ Head(s) \in Cmds /\ status[Head(s)] >= COSIM_EXECUTING
           /\ Tail(s) \in Seq(Cmds) /\ Started(Tail(s))
BY DEF Started

LEMMA CompleteIInv == IInv /\ Complete => IInv'
<1> SUFFICES ASSUME IInv, Complete PROVE IInv'
  OBVIOUS
<1> DEFINE done == PreloadDone \cup MMDone
<1>1. /\ preload_cmds \in Seq(Cmds) /\ mm_cmds \in Seq(Cmds) /\ acc_cmds \in Seq(Cmds)
      /\ Started(preload_cmds) /\ Started(mm_cmds) /\ Started(acc_cmds)
      /\ accumulated => acc_cmds # <<>>
  BY DEF IInv, TypeOK, ReportedStarted
<1>2. \A c \in done : c \in Cmds /\ status[c] >= COSIM_EXECUTING
  <2>1. \A c \in PreloadDone : c \in Cmds /\ status[c] >= COSIM_EXECUTING
    BY <1>1, TailStarted DEF PreloadDone
  <2>2. \A c \in MMDone : c \in Cmds /\ status[c] >= COSIM_EXECUTING
    BY <1>1, TailStarted DEF MMDone, MMDoneWS, MMDoneOS
  <2>3. QED BY <2>1, <2>2
<1>3. UNCHANGED <<cmds, parents, inst_queue, queue, contlr, rob>> /\ ProgramOrder'
  BY ProgramOrderUnchanged DEF Complete, queueVars, IInv
<1>4. /\ StatusInv' /\ status' \in [Cmds -> Statuses]
      /\ \A c \in Cmds : status'[c] >= COSIM_EXECUTING <=> status[c] >= COSIM_EXECUTING
  BY <1>2, <1>3, FinishStarted DEF IInv, StatusInv, Complete
<1>5. /\ preload_cmds' \in Seq(Cmds) /\ Started(preload_cmds')
      /\ mm_cmds' \in Seq(Cmds) /\ Started(mm_cmds')
      /\ acc_cmds' \in Seq(Cmds) /\ Started(acc_cmds')
  <2>1. preload_cmds' \in Seq(Cmds) /\ Started(preload_cmds')
    BY <1>1, TailStarted DEF Complete, PreloadDone
  <2>2. mm_cmds' \in Seq(Cmds) /\ Started(mm_cmds')
    BY <1>1, TailStarted DEF Complete, RemoveTracked
  <2>3. acc_cmds' \in Seq(Cmds) /\ Started(acc_cmds')
    BY <1>1, TailStarted DEF Complete
  <2>4. QED BY <2>1, <2>2, <2>3
<1>6. preloaded' \in BOOLEAN /\ accumulated' \in BOOLEAN
  BY DEF Complete
<1>7. TypeOK'
  BY <1>3, <1>4, <1>5, <1>6 DEF IInv, TypeOK, Complete, Statuses, queueVars, dmaVars
<1>8. ReportedStarted'
  <2>1. UNCHANGED <<fence_cmd, inflight, early>>
    BY DEF Complete, dmaVars
  <2>2. Started(preload_cmds)' /\ Started(mm_cmds)' /\ Started(acc_cmds)'
    BY <1>4, <1>5, StartedStays DEF Started
  <2>3. \A c \in (inflight \ early)' : status'[c] >= COSIM_EXECUTING
    BY <1>4, <2>1 DEF IInv, TypeOK, ReportedStarted
  <2>4. accumulated' => acc_cmds' # <<>>
    BY <1>1 DEF Complete
  <2>5. QED BY <1>4, <2>1, <2>2, <2>3, <2>4 DEF IInv, TypeOK, ReportedStarted
<1>9. QED BY <1>3, <1>4, <1>7, <1>8 DEF IInv, StatusInv

LEMMA commitIInv == IInv /\ commit => IInv'
<1> SUFFICES ASSUME IInv, commit PROVE IInv'
  OBVIOUS
<1>1. PICK n \in 0 .. Len(rob) :
        /\ \A i \in 1 .. n : status[rob[i]] = COSIM_FINISHED
        /\ status' = SetStatus({rob[i] : i \in 1 .. n}, COSIM_COMMITTED)
        /\ parents' = [c \in Cmds |-> parents[c] \ {rob[i] : i \in 1 .. n}]
        /\ rob' = SubSeq(rob, n + 1, Len(rob))
  BY DEF commit
<1> DEFINE retired == {rob[i] : i \in 1 .. n}
<1>2. rob \in Seq(Cmds) /\ Len(rob) \in Nat /\ Last \in Int
  BY DEF IInv, TypeOK, Last
<1>3. /\ rob' \in Seq(Cmds) /\ Len(rob') = Len(rob) - n
      /\ \A i \in 1 .. Len(rob') : rob'[i] = rob[n + i]
  BY <1>1, <1>2
<1>4. UNCHANGED <<cmds, inst_queue, queue, contlr>> /\ Last' = Last
  BY DEF commit, Last
<1>5. \A c \in Cmds : c <= Last - Len(rob') => c \in retired \/ c <= Last - Len(rob)
  <2> HIDE DEF retired
  <2>0. ASSUME NEW c \in Cmds
        PROVE  c <= Last - Len(rob) \/ c > Last - Len(rob)
    BY <1>2 DEF Cmds
  <2> SUFFICES ASSUME NEW c \in Cmds, c <= Last - Len(rob'), c > Last - Len(rob)
               PROVE  c \in retired
    BY <2>0
  <2> USE DEF retired
  <2>1. c - (Last - Len(rob)) \in 1 .. n /\ 1 .. n \subseteq 1 .. Len(rob)
    BY <1>2, <1>3 DEF Cmds
  <2>2. rob[c - (Last - Len(rob))] = c
    BY <1>2, <2>1 DEF IInv, ProgramOrder, Cmds
  <2>3. QED BY <2>1, <2>2
<1>6. \A c \in retired \cap Cmds : status[c] >= COSIM_EXECUTING
  BY <1>1
<1>7. \A d \in Cmds : parents[d] \ retired \subseteq parents'[d]
  BY <1>1
<1>8. /\ StatusInv' /\ status' \in [Cmds -> Statuses]
      /\ \A c \in Cmds : status'[c] >= COSIM_EXECUTING <=> status[c] >= COSIM_EXECUTING
  <2>1. status' = SetStatus(retired, COSIM_COMMITTED)
    BY <1>1
  <2>2. TypeOK /\ ProgramOrder /\ StatusInv
    BY DEF IInv, StatusInv
  <2> HIDE DEF retired
  <2>3. QED BY <1>4, <1>5, <1>6, <1>7, <2>1, <2>2, FinishStarted
<1>9. ProgramOrder'
  BY <1>2, <1>3, <1>4 DEF IInv, ProgramOrder
<1>10. TypeOK'
  <2>1. parents' \in [Cmds -> SUBSET Cmds] /\ Len(rob') <= RobCap
    <3>1. parents \in [Cmds -> SUBSET Cmds] /\ Len(rob) <= RobCap /\ RobCap \in Nat
      BY SizeAssumption DEF IInv, TypeOK
    <3>2. Len(rob') <= RobCap
      BY <1>2, <1>3, <3>1
    <3>3. parents' = [c \in Cmds |-> parents[c] \ retired]
      BY <1>1
    <3> HIDE DEF retired
    <3>4. parents' \in [Cmds -> SUBSET Cmds]
      BY <3>1, <3>3
    <3> QED
      BY <3>2, <3>4
  <2>2. QED BY <1>3, <1>4, <1>8, <2>1
            DEF IInv, TypeOK, commit, Statuses, exeVars, dmaVars, arrayVars
<1>11. ReportedStarted'
  <2>1. UNCHANGED <<preload_cmds, mm_cmds, acc_cmds, accumulated, fence_cmd, inflight, early>>
    BY DEF commit, exeVars, dmaVars, arrayVars
  <2>2. Started(preload_cmds)' /\ Started(mm_cmds)' /\ Started(acc_cmds)'
    BY <1>8, <2>1, StartedStays DEF IInv, TypeOK, ReportedStarted, Started
  <2>3. \A c \in (inflight \ early)' : status'[c] >= COSIM_EXECUTING
    BY <1>8, <2>1 DEF IInv, TypeOK, ReportedStarted
  <2>4. QED BY <1>8, <2>1, <2>2, <2>3 DEF IInv, TypeOK, ReportedStarted
<1>12. QED BY <1>8, <1>9, <1>10, <1>11 DEF IInv, StatusInv

\* A queue is not disturbed by a step that keeps it and its members as they
\* are.
LEMMA HoldsUnchanged ==
    ASSUME Last' = Last,
           \A c \in Cmds : c <= Last => UnitOf(c)' = UnitOf(c) /\ status'[c] = status[c]
    PROVE  /\ \A u, st : queue[u] \in Seq(Cmds) /\ queue'[u] = queue[u]
                            /\ Holds(queue[u], u, st) => Holds(queue[u], u, st)'
           /\ \A u, st : contlr[u] \in Seq(Cmds) /\ contlr'[u] = contlr[u]
                            /\ Holds(contlr[u], u, st) => Holds(contlr[u], u, st)'
<1>1. ASSUME NEW u, NEW st, queue[u] \in Seq(Cmds), queue'[u] = queue[u], Holds(queue[u], u, st)
      PROVE  Holds(queue[u], u, st)'
  <2>1. \A i \in 1 .. Len(queue[u]) : queue[u][i] \in Cmds /\ queue[u][i] <= Last
    BY <1>1 DEF Holds
  <2>2. QED BY <1>1, <2>1 DEF Holds, UnitOf, TypeOf
<1>2. ASSUME NEW u, NEW st, contlr[u] \in Seq(Cmds), contlr'[u] = contlr[u], Holds(contlr[u], u, st)
      PROVE  Holds(contlr[u], u, st)'
  <2>1. \A i \in 1 .. Len(contlr[u]) : contlr[u][i] \in Cmds /\ contlr[u][i] <= Last
    BY <1>2 DEF Holds
  <2>2. QED BY <1>2, <2>1 DEF Holds, UnitOf, TypeOf
<1>3. QED BY <1>1, <1>2

LEMMA receiveIInv ==
    ASSUME IInv, NEW t \in Templates, receive(t)
    PROVE  IInv'
<1> DEFINE n == Len(cmds) + 1
<1>1. /\ cmds \in Seq(Templates) /\ Len(cmds) \in Nat /\ n \in Cmds
      /\ inst_queue \in Seq(Cmds) /\ Len(inst_queue) \in Nat
      /\ rob \in Seq(Cmds) /\ Len(rob) \in Nat
      /\ MaxCmds \in Nat /\ n <= MaxCmds
  BY SizeAssumption DEF IInv, TypeOK, receive, Cmds
<1>2. /\ cmds' \in Seq(Templates) /\ Len(cmds') = n
      /\ \A c \in 1 .. Len(cmds) : cmds'[c] = cmds[c]
      /\ inst_queue' \in Seq(Cmds) /\ Len(inst_queue') = Len(inst_queue) + 1
      /\ \A i \in 1 .. Len(inst_queue) : inst_queue'[i] = inst_queue[i]
      /\ inst_queue'[Len(inst_queue) + 1] = n
  BY <1>1 DEF receive
<1>3. /\ status' = [status EXCEPT ![n] = COSIM_WAITING]
      /\ status' \in [Cmds -> Statuses]
      /\ \A c \in Cmds : status'[c] = IF c = n THEN COSIM_WAITING ELSE status[c]
  BY <1>1 DEF receive, IInv, TypeOK, Statuses
<1>4. /\ Last' = Last /\ Last \in Int /\ Last < n /\ Last <= Len(cmds)
      /\ UNCHANGED <<parents, queue, contlr, rob>>
  BY <1>1, <1>2 DEF Last, receive
<1>5. status[n] \in Int /\ status[n] <= COSIM_WAITING
  <2>1. status[n] \in COSIM_INIT .. COSIM_COMMITTED
    BY <1>1 DEF IInv, TypeOK
  <2>2. status[n] <= COSIM_WAITING
    BY <1>1, <1>4 DEF IInv, StatusByAge
  <2>3. QED BY <2>1, <2>2
<1>6. ProgramOrder'
  <2>1. \A i \in 1 .. Len(inst_queue') : inst_queue'[i] = Last + i
    <3> SUFFICES ASSUME NEW i \in 1 .. Len(inst_queue') PROVE inst_queue'[i] = Last + i
      OBVIOUS
    <3>1. CASE i \in 1 .. Len(inst_queue)
      BY <1>2, <3>1 DEF IInv, ProgramOrder
    <3>2. CASE i = Len(inst_queue) + 1
      BY <1>1, <1>2, <3>2 DEF Last
    <3>3. QED BY <1>1, <1>2, <3>1, <3>2
  <2>2. QED BY <1>1, <1>2, <1>4, <2>1 DEF IInv, ProgramOrder
<1>7. StatusByAge'
  BY <1>1, <1>3, <1>4 DEF IInv, StatusByAge, ProgramOrder, Cmds
<1>8. \A c \in Cmds : c <= Last => UnitOf(c)' = UnitOf(c) /\ status'[c] = status[c]
  <2>1. \A c \in Cmds : c <= Last => c # n /\ c \in 1 .. Len(cmds)
    BY <1>1, <1>4 DEF Cmds
  <2>2. QED BY <1>2, <1>3, <2>1 DEF UnitOf, TypeOf
<1>9. QueuesHold' /\ ContlrsHold'
  BY <1>4, <1>8, HoldsUnchanged
     DEF IInv, TypeOK, QueuesHold, ContlrsHold
<1>10. ParentsBuilt'
  <2> SUFFICES ASSUME NEW d \in Cmds, NEW c \in 1 .. d - 1,
                      d <= Last', overlap(cmds'[d], cmds'[c]), status'[c] < COSIM_FINISHED
               PROVE  c \in parents'[d]
    BY DEF ParentsBuilt
  <2>1. c \in Cmds /\ c # n /\ d \in 1 .. Len(cmds) /\ c \in 1 .. Len(cmds)
    BY <1>1, <1>4 DEF Cmds
  <2>2. QED BY <1>2, <1>3, <1>4, <2>1 DEF IInv, ParentsBuilt
<1>11. DependenceOrder'
  <2> SUFFICES ASSUME NEW d \in Received', NEW c \in 1 .. d - 1,
                      status'[d] >= COSIM_ISSUED, overlap(cmds'[d], cmds'[c])
               PROVE  status'[c] >= COSIM_FINISHED
    BY DEF DependenceOrder
  <2>1. d # n /\ d \in Received /\ c \in Received /\ c # n /\ c \in Cmds /\ d \in Cmds
    <3>1. d \in 1 .. n /\ d \in Cmds
      BY <1>1, <1>2 DEF Received, Cmds
    <3>2. d # n
      BY <1>3, <3>1
    <3>3. QED BY <1>1, <3>1, <3>2 DEF Received, Cmds
  <2>2. QED BY <1>2, <1>3, <2>1 DEF IInv, DependenceOrder, Received
<1>12. TypeOK'
  <2>1. Len(cmds') <= MaxCmds /\ Len(inst_queue') <= InstCap
    BY <1>1, <1>2, SizeAssumption DEF receive
  <2>2. QED BY <1>2, <1>3, <1>4, <2>1
            DEF IInv, TypeOK, receive, Statuses, exeVars, dmaVars, arrayVars
<1>13. ReportedStarted'
  <2>1. UNCHANGED <<preload_cmds, mm_cmds, acc_cmds, accumulated, fence_cmd, inflight, early>>
    BY DEF receive, exeVars, dmaVars, arrayVars
  <2>2. \A c \in Cmds : status[c] >= COSIM_EXECUTING => status'[c] >= COSIM_EXECUTING
    <3>1. \A c \in Cmds : status[c] >= COSIM_EXECUTING => c # n
      BY <1>5
    <3>2. QED BY <1>3, <3>1
  <2>3. Started(preload_cmds)' /\ Started(mm_cmds)' /\ Started(acc_cmds)'
    BY <2>1, <2>2, StartedStays DEF IInv, TypeOK, ReportedStarted, Started
  <2>4. QED BY <2>1, <2>2, <2>3 DEF IInv, TypeOK, ReportedStarted
<1>14. UnitFifo'
  BY <1>4 DEF IInv, UnitFifo
<1>15. QED BY <1>6, <1>7, <1>9, <1>10, <1>11, <1>12, <1>13, <1>14 DEF IInv

\* Only the head of a controller starts, and it was issued.
LEMMA StartingHead ==
    ASSUME IInv, NEW u \in Units, NEW c \in Starting(u)
    PROVE  /\ contlr[u] # <<>> /\ c = contlr[u][1] /\ c = Head(contlr[u])
           /\ c \in Cmds /\ c <= Last /\ UnitOf(c) = u /\ status[c] = COSIM_ISSUED
<1>1. contlr[u] # <<>> /\ c = Head(contlr[u]) /\ contlr[u] \in Seq(Cmds)
  BY DEF Starting, IInv, TypeOK
<1>2. Len(contlr[u]) >= 1 /\ c = contlr[u][1] /\ c \in Cmds
  BY <1>1
<1>3. Holds(contlr[u], u, COSIM_ISSUED)
  BY DEF IInv, ContlrsHold
<1>4. 1 \in 1 .. Len(contlr[u])
  BY <1>1, <1>2
<1>5. QED BY <1>1, <1>2, <1>3, <1>4 DEF Holds

LEMMA executeIInv == IInv /\ execute => IInv'
<1> SUFFICES ASSUME IInv, execute PROVE IInv'
  OBVIOUS
<1> DEFINE started == UNION {Starting(u) : u \in Units}
<1>1. /\ \A c \in started : c \in Cmds /\ c <= Last /\ status[c] = COSIM_ISSUED /\ c \in Starting(UnitOf(c))
      /\ \A u \in Units : Starting(u) \subseteq started
  BY StartingHead
<1>2. /\ status' \in [Cmds -> Statuses]
      /\ \A c \in started : status'[c] >= COSIM_EXECUTING
      /\ \A c \in Cmds \ started : status'[c] = status[c]
      /\ \A c \in Starting("load") \cup Starting("store") : status'[c] >= COSIM_EXECUTING
  <2>1. Starting("exe") \subseteq started
    BY DEF Units
  <2>2. Starting("load") \subseteq started /\ Starting("store") \subseteq started
    BY DEF Units
  <2> DEFINE atOnce == {c \in Starting("exe") : AtOnce(c)}
  <2>3. status' = [c \in Cmds |-> IF c \in atOnce THEN COSIM_FINISHED
                                  ELSE IF c \in started THEN COSIM_EXECUTING ELSE status[c]]
    BY DEF execute
  <2>4. status \in [Cmds -> Statuses] /\ atOnce \subseteq started
    BY <2>1 DEF IInv, TypeOK, Statuses
  <2> HIDE DEF atOnce, started
  <2>5. QED BY <1>1, <2>2, <2>3, <2>4 DEF Statuses
<1> HIDE DEF started
<1>3. /\ UNCHANGED <<cmds, parents, inst_queue, queue, rob>>
      /\ Last' = Last /\ Last \in Int
  BY DEF execute, Last, IInv, TypeOK
<1>4. \A c \in Cmds : status[c] \in Statuses /\ status'[c] \in Statuses
  BY <1>2 DEF IInv, TypeOK, Statuses
<1>5. \A c \in Cmds : /\ status[c] # COSIM_ISSUED => status'[c] = status[c]
                      /\ status'[c] >= status[c]
                      /\ status'[c] >= COSIM_ISSUED <=> status[c] >= COSIM_ISSUED
  BY <1>1, <1>2, <1>4 DEF Statuses
<1>6. ProgramOrder'
  BY <1>3, ProgramOrderUnchanged DEF IInv
<1>7. StatusByAge'
  BY <1>3, <1>4, <1>5 DEF IInv, StatusByAge, Statuses
<1>8. ParentsBuilt'
  <2>1. \A d \in Cmds : \A c \in 1 .. d - 1 : c \in Cmds
    BY SizeAssumption DEF Cmds
  <2>2. \A c \in Cmds : status'[c] < COSIM_FINISHED => status[c] < COSIM_FINISHED
    BY <1>4, <1>5 DEF Statuses
  <2>3. QED BY <1>3, <2>1, <2>2 DEF IInv, ParentsBuilt
<1>9. DependenceOrder'
  <2>1. \A d \in Received : d \in Cmds /\ \A c \in 1 .. d - 1 : c \in Cmds
    BY SizeAssumption DEF Received, Cmds, IInv, TypeOK
  <2>2. \A c \in Cmds : status[c] >= COSIM_FINISHED => status'[c] >= COSIM_FINISHED
    BY <1>4, <1>5 DEF Statuses
  <2>3. Received' = Received
    BY <1>3 DEF Received
  <2>4. QED BY <1>3, <1>5, <2>1, <2>2, <2>3 DEF IInv, DependenceOrder
<1>10. QueuesHold'
  <2> SUFFICES ASSUME NEW u \in Units PROVE Holds(queue[u], u, COSIM_WAITING)'
    BY DEF QueuesHold
  <2>1. Holds(queue[u], u, COSIM_WAITING) /\ queue[u] \in Seq(Cmds) /\ queue'[u] = queue[u]
    BY <1>3 DEF IInv, QueuesHold, TypeOK
  <2>2. \A i \in 1 .. Len(queue[u]) : queue[u][i] \in Cmds /\ status[queue[u][i]] = COSIM_WAITING
    BY <2>1 DEF Holds
  <2>3. \A i \in 1 .. Len(queue[u]) : status'[queue[u][i]] = COSIM_WAITING
    BY <1>5, <2>2
  <2>4. QED BY <1>3, <2>1, <2>3 DEF Holds, UnitOf, TypeOf
<1>11. ASSUME NEW u \in Units
       PROVE  /\ contlr'[u] \in Seq(Cmds) /\ Len(contlr'[u]) <= Len(contlr[u])
              /\ Holds(contlr[u], u, COSIM_ISSUED)'
              /\ \A i \in 1 .. Len(contlr'[u]) :
                    \E j \in 1 .. Len(contlr[u]) : contlr'[u][i] = contlr[u][j]
  <2>1. Holds(contlr[u], u, COSIM_ISSUED) /\ contlr[u] \in Seq(Cmds)
    BY DEF IInv, ContlrsHold, TypeOK
  <2>2. contlr'[u] = IF Starting(u) = {} THEN contlr[u] ELSE Tail(contlr[u])
    BY DEF execute
  <2>3. \A i \in 1 .. Len(contlr[u]) :
            contlr[u][i] \in Cmds /\ contlr[u][i] <= Last
            /\ UnitOf(contlr[u][i]) = u /\ status[contlr[u][i]] = COSIM_ISSUED
    BY <2>1 DEF Holds
  <2>4. CASE Starting(u) = {}
    <3>1. \A i \in 1 .. Len(contlr[u]) : contlr[u][i] \notin started
      BY <1>1, <2>3, <2>4
    <3>2. \A i \in 1 .. Len(contlr[u]) : status'[contlr[u][i]] = COSIM_ISSUED
      BY <1>2, <2>3, <3>1
    <3>3. QED BY <1>3, <2>1, <2>2, <2>4, <3>2 DEF Holds, UnitOf, TypeOf
  <2>5. CASE Starting(u) # {}
    <3>1. PICK h : h \in Starting(u)
      BY <2>5
    <3>2. contlr[u] # <<>> /\ h = contlr[u][1] /\ Starting(u) = {h}
      BY <3>1, StartingHead DEF Starting
    <3>3. /\ contlr'[u] \in Seq(Cmds) /\ Len(contlr'[u]) = Len(contlr[u]) - 1
          /\ \A i \in 1 .. Len(contlr'[u]) : contlr'[u][i] = contlr[u][i + 1]
      <4>1. contlr'[u] = Tail(contlr[u])
        BY <2>2, <2>5
      <4>2. QED BY <2>1, <3>2, <4>1, HeadTailProperties
    <3>4. \A i \in 1 .. Len(contlr'[u]) : i + 1 \in 1 .. Len(contlr[u]) /\ 1 \in 1 .. Len(contlr[u]) /\ 1 < i + 1
      BY <2>1, <3>3
    <3>5. \A i \in 1 .. Len(contlr'[u]) : contlr[u][i + 1] > h /\ h \in Cmds
      BY <2>1, <2>3, <3>2, <3>4 DEF Holds, Cmds
    <3>6. \A i \in 1 .. Len(contlr'[u]) : contlr[u][i + 1] \notin started
      BY <1>1, <2>3, <3>2, <3>4, <3>5 DEF Cmds
    <3>7. \A i \in 1 .. Len(contlr'[u]) : status'[contlr'[u][i]] = COSIM_ISSUED
      BY <1>2, <2>3, <3>3, <3>4, <3>6
    <3>8. \A i, j \in 1 .. Len(contlr'[u]) : i < j => contlr'[u][i] < contlr'[u][j]
      BY <2>1, <3>3, <3>4 DEF Holds
    <3>9. \A i \in 1 .. Len(contlr'[u]) : contlr'[u][i] <= Last' /\ UnitOf(contlr[u][i])' = u
      BY <1>3, <2>3, <3>3, <3>4 DEF UnitOf, TypeOf
    <3>10. Holds(contlr[u], u, COSIM_ISSUED)'
      BY <3>7, <3>8, <3>9 DEF Holds
    <3>11. Len(contlr[u]) \in Nat
      BY <2>1
    <3>12. QED BY <3>3, <3>4, <3>10, <3>11
  <2>6. QED BY <2>4, <2>5
<1>12. ContlrsHold'
  BY <1>11 DEF ContlrsHold
<1>13. UnitFifo'
  BY <1>3, <1>11 DEF IInv, UnitFifo
<1>14. \A c \in Cmds : status[c] >= COSIM_EXECUTING => status'[c] >= COSIM_EXECUTING
  BY <1>4, <1>5 DEF Statuses
<1>15. /\ fu_busy' \subseteq OperationsOf("EXE") /\ fence_cmd' \in Cmds \cup {0}
       /\ preload_cmds' \in Seq(Cmds) /\ mm_cmds' \in Seq(Cmds) /\ acc_cmds' \in Seq(Cmds)
       /\ flipped' \in BOOLEAN /\ mem_idle' \in BOOLEAN
       /\ Started(preload_cmds)' /\ Started(mm_cmds)' /\ Started(acc_cmds)'
       /\ fence_cmd' # 0 => status'[fence_cmd'] >= COSIM_EXECUTING
       /\ accumulated' => acc_cmds' # <<>>
  <2>1. /\ preload_cmds \in Seq(Cmds) /\ mm_cmds \in Seq(Cmds) /\ acc_cmds \in Seq(Cmds)
        /\ fu_busy \subseteq OperationsOf("EXE") /\ fence_cmd \in Cmds \cup {0}
        /\ flipped \in BOOLEAN /\ mem_idle \in BOOLEAN
        /\ accumulated => acc_cmds # <<>>
    BY DEF IInv, TypeOK, ReportedStarted
  <2>2. /\ \A i \in 1 .. Len(preload_cmds) : status'[preload_cmds[i]] >= COSIM_EXECUTING
        /\ \A i \in 1 .. Len(mm_cmds) : status'[mm_cmds[i]] >= COSIM_EXECUTING
        /\ \A i \in 1 .. Len(acc_cmds) : status'[acc_cmds[i]] >= COSIM_EXECUTING
        /\ fence_cmd # 0 => status'[fence_cmd] >= COSIM_EXECUTING
    BY <1>14, <2>1, StartedStays DEF IInv, ReportedStarted
  <2>3. CASE Starting("exe") = {}
    <3>1. UNCHANGED <<fu_busy, fence_cmd, preload_cmds, flipped, mm_cmds, acc_cmds, mem_idle, accumulated>>
      BY <2>3 DEF execute
    <3>2. QED BY <2>1, <2>2, <3>1 DEF Started
  <2>4. CASE Starting("exe") # {}
    <3> DEFINE c == Head(contlr["exe"])
    <3>1. PICK h : h \in Starting("exe")
      BY <2>4
    <3>2. /\ c \in Starting("exe") /\ c \in Cmds /\ c <= Last /\ UnitOf(c) = "exe"
      BY <3>1, StartingHead DEF Units
    <3>3. status'[c] >= COSIM_EXECUTING
      BY <1>1, <1>2, <3>2 DEF Units
    <3>4. OpOf(c) \in OperationsOf("EXE")
      <4>1. c \in 1 .. Len(cmds) /\ cmds[c] \in Templates
        BY <1>3, <3>2 DEF Last, Cmds, IInv, TypeOK
      <4>2. TypeOf(c) = "EXE"
        BY <3>2 DEF UnitOf
      <4>3. QED BY <4>1, <4>2, TemplatesAssumption DEF TypeOf, OpOf
    <3>5. StartExe(c) /\ UNCHANGED accumulated
      BY <2>4 DEF execute
    <3> HIDE DEF c
    <3>6. fu_busy' \subseteq OperationsOf("EXE") /\ fence_cmd' \in {c, fence_cmd}
      BY <2>1, <3>4, <3>5 DEF StartExe
    <3>7. /\ preload_cmds' \in {preload_cmds, Append(preload_cmds, c)}
          /\ mm_cmds' \in {mm_cmds, Append(mm_cmds, c)}
          /\ acc_cmds' \in {acc_cmds, Append(acc_cmds, c)}
      BY <3>5 DEF StartExe
    <3>8. /\ preload_cmds' \in Seq(Cmds) /\ mm_cmds' \in Seq(Cmds) /\ acc_cmds' \in Seq(Cmds)
          /\ (accumulated' => acc_cmds' # <<>>)
      <4>1. /\ Append(preload_cmds, c) \in Seq(Cmds) /\ Append(mm_cmds, c) \in Seq(Cmds)
            /\ Append(acc_cmds, c) \in Seq(Cmds) /\ Append(acc_cmds, c) # <<>>
        BY <2>1, <3>2, AppendProperties
      <4>2. QED BY <2>1, <3>5, <3>7, <4>1
    <3>9. ASSUME NEW s \in Seq(Cmds), \A i \in 1 .. Len(s) : status'[s[i]] >= COSIM_EXECUTING,
                 NEW t \in {s, Append(s, c)}
          PROVE  \A i \in 1 .. Len(t) : status'[t[i]] >= COSIM_EXECUTING
      <4>1. CASE t = s
        BY <3>9, <4>1
      <4>2. CASE t = Append(s, c)
        <5>1. /\ Len(t) = Len(s) + 1 /\ t[Len(s) + 1] = c /\ Len(s) \in Nat
              /\ \A i \in 1 .. Len(s) : t[i] = s[i]
          BY <3>2, <4>2
        <5>2. QED BY <3>3, <3>9, <5>1
      <4>3. QED BY <3>9, <4>1, <4>2
    <3>10. Started(preload_cmds)' /\ Started(mm_cmds)' /\ Started(acc_cmds)'
      BY <2>1, <2>2, <3>7, <3>9 DEF Started
    <3>11. flipped' \in BOOLEAN /\ mem_idle' \in BOOLEAN
      BY <3>5, Zenon DEF StartExe
    <3>12. QED BY <2>1, <2>2, <3>2, <3>3, <3>6, <3>8, <3>10, <3>11
  <2>5. QED BY <2>3, <2>4
<1>16. /\ inflight' = inflight \cup Starting("load") \cup Starting("store")
       /\ early' = early /\ reads' = reads \cup Starting("load")
       /\ Starting("load") \subseteq Cmds /\ Starting("store") \subseteq Cmds
  BY <1>1 DEF execute, DMA!Submit, Units
<1>17. ReportedStarted'
  <2>1. \A c \in (inflight \ early)' : status'[c] >= COSIM_EXECUTING
    BY <1>2, <1>14, <1>16 DEF IInv, TypeOK, ReportedStarted
  <2>2. QED BY <1>15, <2>1 DEF ReportedStarted
<1>18. TypeOK'
  <2>1. load_dma' \in Int /\ store_dma' \in Int
    <3>1. Cardinality(Starting("load")) \in Int /\ Cardinality(Starting("store")) \in Int
      BY <1>16, CmdsFinite
    <3>2. load_dma \in Int /\ store_dma \in Int
      BY DEF IInv, TypeOK
    <3>3. QED BY <3>1, <3>2 DEF execute
  <2>2. contlr' \in [Units -> Seq(Cmds)] /\ \A u \in Units : Len(contlr'[u]) <= ContlrCap[u]
    <3>1. DOMAIN contlr' = Units /\ contlr' = [u \in Units |-> contlr'[u]]
      BY DEF execute
    <3>2. \A u \in Units : Len(contlr'[u]) \in Nat /\ Len(contlr[u]) \in Nat
                           /\ Len(contlr[u]) <= ContlrCap[u] /\ ContlrCap[u] \in Nat
      BY <1>11, SizeAssumption DEF IInv, TypeOK
    <3>3. QED BY <1>11, <3>1, <3>2
  <2>3. QED BY <1>2, <1>3, <1>15, <1>16, <2>1, <2>2 DEF IInv, TypeOK, execute, Statuses
<1>19. QED BY <1>6, <1>7, <1>8, <1>9, <1>10, <1>12, <1>13, <1>17, <1>18 DEF IInv

LEMMA issueIInv == IInv /\ issue => IInv'
<1> SUFFICES ASSUME IInv, issue PROVE IInv'
  OBVIOUS
<1> DEFINE heads == {Head(queue[u]) : u \in {v \in Units : Issuing(v)}}
<1>1. ASSUME NEW u \in Units
      PROVE  /\ queue[u] \in Seq(Cmds) /\ contlr[u] \in Seq(Cmds)
             /\ Holds(queue[u], u, COSIM_WAITING) /\ Holds(contlr[u], u, COSIM_ISSUED)
             /\ \A i \in 1 .. Len(queue[u]) :
                    queue[u][i] \in Cmds /\ queue[u][i] <= Last
                    /\ UnitOf(queue[u][i]) = u /\ status[queue[u][i]] = COSIM_WAITING
             /\ \A i \in 1 .. Len(contlr[u]) :
                    contlr[u][i] \in Cmds /\ contlr[u][i] <= Last
                    /\ UnitOf(contlr[u][i]) = u /\ status[contlr[u][i]] = COSIM_ISSUED
  <2>1. queue[u] \in Seq(Cmds) /\ contlr[u] \in Seq(Cmds)
    BY DEF IInv, TypeOK
  <2>2. Holds(queue[u], u, COSIM_WAITING) /\ Holds(contlr[u], u, COSIM_ISSUED)
    BY DEF IInv, QueuesHold, ContlrsHold
  <2>3. /\ \A i \in 1 .. Len(queue[u]) : queue[u][i] \in Cmds
        /\ \A i \in 1 .. Len(contlr[u]) : contlr[u][i] \in Cmds
    BY <2>1
  <2>4. QED BY <2>1, <2>2, <2>3 DEF Holds
<1>2. ASSUME NEW u \in Units, Issuing(u)
      PROVE  /\ queue[u] # <<>> /\ Head(queue[u]) = queue[u][1] /\ 1 \in 1 .. Len(queue[u])
             /\ \A p \in parents[Head(queue[u])] : status[p] >= COSIM_FINISHED
  BY <1>1, <1>2 DEF Issuing, can_issue, is_ready
<1>3. \A h \in heads :
        /\ h \in Cmds /\ h <= Last /\ status[h] = COSIM_WAITING
        /\ \A p \in parents[h] : status[p] >= COSIM_FINISHED
        /\ UnitOf(h) \in Units /\ Issuing(UnitOf(h)) /\ h = queue[UnitOf(h)][1]
  BY <1>1, <1>2
<1>4. /\ status' \in [Cmds -> Statuses]
      /\ \A c \in Cmds : status'[c] = IF c \in heads THEN COSIM_ISSUED ELSE status[c]
  BY SetStatusType DEF issue, IInv, Statuses
<1>5. \A u \in Units : Issuing(u) => Head(queue[u]) \in heads
  OBVIOUS
<1> HIDE DEF heads
<1>6. /\ UNCHANGED <<cmds, parents, inst_queue, rob>>
      /\ Last' = Last /\ Last \in Int
  BY DEF issue, Last, IInv, TypeOK
<1>7. \A c \in Cmds : status[c] \in Statuses /\ status'[c] \in Statuses
  BY <1>4 DEF IInv, TypeOK, Statuses
<1>8. \A c \in Cmds : /\ status'[c] >= status[c]
                      /\ status'[c] >= COSIM_EXECUTING <=> status[c] >= COSIM_EXECUTING
                      /\ status'[c] >= COSIM_FINISHED <=> status[c] >= COSIM_FINISHED
                      /\ status[c] # COSIM_WAITING => status'[c] = status[c]
  BY <1>3, <1>4, <1>7 DEF Statuses
<1>9. ProgramOrder'
  BY <1>6, ProgramOrderUnchanged DEF IInv
<1>10. StatusByAge'
  <2>1. \A c \in Cmds : c > Last => c \notin heads
    BY <1>3, <1>6 DEF Cmds
  <2>2. QED BY <1>4, <1>6, <1>8, <2>1 DEF IInv, StatusByAge
<1>11. ParentsBuilt'
  <2>1. \A d \in Cmds : \A c \in 1 .. d - 1 : c \in Cmds
    BY SizeAssumption DEF Cmds
  <2>2. \A c \in Cmds : status'[c] < COSIM_FINISHED => status[c] < COSIM_FINISHED
    BY <1>7, <1>8 DEF Statuses
  <2>3. QED BY <1>6, <2>1, <2>2 DEF IInv, ParentsBuilt
<1>12. DependenceOrder'
  <2> SUFFICES ASSUME NEW d \in Received, NEW c \in 1 .. d - 1,
                      status'[d] >= COSIM_ISSUED, overlap(cmds[d], cmds[c])
               PROVE  status'[c] >= COSIM_FINISHED
    BY <1>6 DEF DependenceOrder, Received
  <2>1. d \in Cmds /\ c \in Cmds
    BY SizeAssumption DEF Received, Cmds, IInv, TypeOK
  <2>2. CASE d \in heads
    <3>1. d <= Last /\ \A p \in parents[d] : status[p] >= COSIM_FINISHED
      BY <1>3, <2>2
    <3>2. status[c] < COSIM_FINISHED => c \in parents[d]
      BY <2>1, <3>1 DEF IInv, ParentsBuilt
    <3>3. status[c] >= COSIM_FINISHED
      BY <1>7, <2>1, <3>1, <3>2 DEF Statuses
    <3>4. QED BY <1>8, <2>1, <3>3
  <2>3. CASE d \notin heads
    BY <1>4, <1>8, <2>1, <2>3 DEF IInv, DependenceOrder
  <2>4. QED BY <2>2, <2>3
<1>13. ASSUME NEW u \in Units
       PROVE  /\ queue'[u] \in Seq(Cmds) /\ Len(queue'[u]) <= Len(queue[u])
              /\ Holds(queue[u], u, COSIM_WAITING)'
              /\ contlr'[u] \in Seq(Cmds) /\ Len(contlr'[u]) <= ContlrCap[u]
              /\ Holds(contlr[u], u, COSIM_ISSUED)'
              /\ \A i \in 1 .. Len(contlr'[u]), j \in 1 .. Len(queue'[u]) :
                    contlr'[u][i] < queue'[u][j]
  <2>0. /\ queue[u] \in Seq(Cmds) /\ contlr[u] \in Seq(Cmds)
        /\ Len(queue[u]) \in Nat /\ Len(contlr[u]) \in Nat
        /\ Len(contlr[u]) <= ContlrCap[u] /\ ContlrCap[u] \in Nat
    BY SizeAssumption DEF IInv, TypeOK
  <2>1. \A i \in 1 .. Len(contlr[u]), j \in 1 .. Len(queue[u]) : contlr[u][i] < queue[u][j]
    BY DEF IInv, UnitFifo
  <2>6. /\ \A i \in 1 .. Len(queue[u]) :
             queue[u][i] \in Cmds /\ queue[u][i] <= Last
             /\ UnitOf(queue[u][i]) = u /\ status[queue[u][i]] = COSIM_WAITING
        /\ \A i \in 1 .. Len(contlr[u]) :
             contlr[u][i] \in Cmds /\ contlr[u][i] <= Last
             /\ UnitOf(contlr[u][i]) = u /\ status[contlr[u][i]] = COSIM_ISSUED
    BY <1>1
  <2>7. /\ \A i, j \in 1 .. Len(queue[u]) : i < j => queue[u][i] < queue[u][j]
        /\ \A i, j \in 1 .. Len(contlr[u]) : i < j => contlr[u][i] < contlr[u][j]
    BY <1>1 DEF Holds
  <2>2. \A i \in 1 .. Len(contlr[u]) : status'[contlr[u][i]] = COSIM_ISSUED
    BY <1>1, <1>8
  <2>3. CASE ~Issuing(u)
    <3>1. queue'[u] = queue[u] /\ contlr'[u] = contlr[u]
      BY <2>3 DEF issue
    <3>2. \A i \in 1 .. Len(queue[u]) : queue[u][i] \notin heads
      BY <1>1, <1>3, <2>3
    <3>3. \A i \in 1 .. Len(queue[u]) : status'[queue[u][i]] = COSIM_WAITING
      BY <1>1, <1>4, <3>2
    <3>4. Holds(queue[u], u, COSIM_WAITING)' /\ Holds(contlr[u], u, COSIM_ISSUED)'
      BY <1>6, <2>2, <2>6, <2>7, <3>1, <3>3 DEF Holds, UnitOf, TypeOf
    <3>5. QED BY <2>0, <2>1, <3>1, <3>4
  <2>4. CASE Issuing(u)
    <3> DEFINE h == queue[u][1]
    <3>1. /\ queue'[u] = Tail(queue[u]) /\ contlr'[u] = Append(contlr[u], h)
          /\ queue[u] # <<>> /\ Len(contlr[u]) # ContlrCap[u] /\ h \in Cmds /\ h \in heads
      BY <1>1, <1>2, <1>5, <2>4 DEF issue, Issuing
    <3>2. /\ queue'[u] \in Seq(Cmds) /\ Len(queue'[u]) = Len(queue[u]) - 1
          /\ \A i \in 1 .. Len(queue'[u]) : queue'[u][i] = queue[u][i + 1]
      BY <2>0, <3>1, HeadTailProperties
    <3>3. \A i \in 1 .. Len(queue'[u]) :
             i + 1 \in 1 .. Len(queue[u]) /\ 1 \in 1 .. Len(queue[u]) /\ 1 < i + 1
      BY <2>0, <3>2
    <3>4. /\ contlr'[u] \in Seq(Cmds) /\ Len(contlr'[u]) = Len(contlr[u]) + 1
          /\ contlr'[u][Len(contlr[u]) + 1] = h
          /\ \A i \in 1 .. Len(contlr[u]) : contlr'[u][i] = contlr[u][i]
      BY <2>0, <3>1, AppendProperties
    <3> HIDE DEF h
    <3>5. \A i \in 1 .. Len(queue'[u]) : h < queue[u][i + 1]
      <4> SUFFICES ASSUME NEW i \in 1 .. Len(queue'[u]) PROVE h < queue[u][i + 1]
        OBVIOUS
      <4>1. i + 1 \in 1 .. Len(queue[u]) /\ 1 \in 1 .. Len(queue[u]) /\ 1 < i + 1
        BY <3>3
      <4>2. QED BY <2>7, <4>1 DEF h
    <3>6. \A i \in 1 .. Len(queue'[u]) : queue'[u][i] \notin heads
      <4> SUFFICES ASSUME NEW i \in 1 .. Len(queue'[u]), queue[u][i + 1] \in heads PROVE FALSE
        BY <3>2
      <4>1. UnitOf(queue[u][i + 1]) = u /\ queue[u][i + 1] \in Int
        BY <2>6, <3>3 DEF Cmds
      <4>2. queue[u][i + 1] = queue[u][1]
        BY <1>3, <4>1
      <4>3. QED BY <3>5, <4>1, <4>2 DEF h
    <3>7. \A i \in 1 .. Len(queue'[u]) : status'[queue'[u][i]] = COSIM_WAITING
      <4> SUFFICES ASSUME NEW i \in 1 .. Len(queue'[u])
                   PROVE  status'[queue'[u][i]] = COSIM_WAITING
        OBVIOUS
      <4>1. i + 1 \in 1 .. Len(queue[u]) /\ queue'[u][i] = queue[u][i + 1] /\ queue'[u][i] \notin heads
        BY <3>2, <3>3, <3>6
      <4>2. QED BY <1>4, <2>6, <4>1
    <3>8. Holds(queue[u], u, COSIM_WAITING)'
      <4>1. \A i \in 1 .. Len(queue'[u]) : queue'[u][i] <= Last' /\ UnitOf(queue[u][i])' = u
        BY <1>6, <2>6, <3>2, <3>3 DEF UnitOf, TypeOf
      <4>2. \A i, j \in 1 .. Len(queue'[u]) : i < j => queue'[u][i] < queue'[u][j]
        BY <2>7, <3>2, <3>3
      <4>3. QED BY <3>7, <4>1, <4>2 DEF Holds
    <3>9. status'[h] = COSIM_ISSUED /\ h <= Last /\ UnitOf(h) = u
      BY <1>1, <1>2, <1>4, <2>4, <3>1 DEF h
    <3>10. \A i \in 1 .. Len(contlr[u]) : contlr[u][i] < h
      BY <1>2, <2>1, <2>4 DEF h
    <3>11. \A i \in 1 .. Len(contlr'[u]) : i \in 1 .. Len(contlr[u]) \/ i = Len(contlr[u]) + 1
      BY <2>0, <3>4
    <3>12. Holds(contlr[u], u, COSIM_ISSUED)'
      <4>1. \A i \in 1 .. Len(contlr'[u]) :
                /\ contlr'[u][i] <= Last' /\ UnitOf(contlr[u][i])' = u
                /\ status'[contlr'[u][i]] = COSIM_ISSUED
        BY <1>6, <2>2, <2>6, <3>4, <3>9, <3>11 DEF UnitOf, TypeOf
      <4>2. \A i, j \in 1 .. Len(contlr'[u]) : i < j => contlr'[u][i] < contlr'[u][j]
        <5> SUFFICES ASSUME NEW i \in 1 .. Len(contlr'[u]), NEW j \in 1 .. Len(contlr'[u]), i < j
                     PROVE  contlr'[u][i] < contlr'[u][j]
          OBVIOUS
        <5>1. i \in 1 .. Len(contlr[u])
          BY <2>0, <3>4, <3>11
        <5>2. CASE j \in 1 .. Len(contlr[u])
          BY <2>7, <3>4, <5>1, <5>2
        <5>3. CASE j = Len(contlr[u]) + 1
          <6>1. contlr'[u][j] = h /\ contlr'[u][i] = contlr[u][i]
            BY <3>4, <5>1, <5>3
          <6> QED
            BY <3>10, <5>1, <6>1
        <5> QED
          BY <3>11, <5>2, <5>3
      <4>3. QED BY <4>1, <4>2 DEF Holds
    <3>13. \A i \in 1 .. Len(contlr'[u]), j \in 1 .. Len(queue'[u]) : contlr'[u][i] < queue'[u][j]
      BY <2>1, <3>2, <3>3, <3>4, <3>5, <3>11
    <3>14. Len(contlr'[u]) <= ContlrCap[u] /\ Len(queue'[u]) <= Len(queue[u])
      BY <2>0, <3>1, <3>2, <3>4
    <3>15. QED BY <3>2, <3>4, <3>8, <3>12, <3>13, <3>14
  <2>5. QED BY <2>3, <2>4
<1>14. QueuesHold' /\ ContlrsHold' /\ UnitFifo'
  BY <1>13 DEF QueuesHold, ContlrsHold, UnitFifo
<1>15. ReportedStarted'
  <2>1. UNCHANGED <<preload_cmds, mm_cmds, acc_cmds, accumulated, fence_cmd, inflight, early>>
    BY DEF issue, exeVars, dmaVars, arrayVars
  <2>2. Started(preload_cmds)' /\ Started(mm_cmds)' /\ Started(acc_cmds)'
    BY <1>8, <2>1, StartedStays DEF IInv, TypeOK, ReportedStarted, Started
  <2>3. \A c \in (inflight \ early)' : status'[c] >= COSIM_EXECUTING
    BY <1>8, <2>1 DEF IInv, TypeOK, ReportedStarted
  <2>4. QED BY <1>8, <2>1, <2>2, <2>3 DEF IInv, TypeOK, ReportedStarted
<1>16. TypeOK'
  <2>1. contlr' \in [Units -> Seq(Cmds)] /\ queue' \in [Units -> Seq(Cmds)]
    BY <1>13 DEF issue
  <2>2. \A u \in Units : Len(queue'[u]) <= QueueCap[u] /\ Len(contlr'[u]) <= ContlrCap[u]
    <3>1. \A u \in Units : Len(queue'[u]) \in Nat /\ Len(queue[u]) \in Nat
                           /\ Len(queue[u]) <= QueueCap[u] /\ QueueCap[u] \in Nat
      BY <1>13, SizeAssumption DEF IInv, TypeOK
    <3>2. QED BY <1>13, <3>1
  <2>3. QED BY <1>4, <1>6, <2>1, <2>2 DEF IInv, TypeOK, issue, Statuses, exeVars, dmaVars, arrayVars
<1>17. QED BY <1>9, <1>10, <1>11, <1>12, <1>14, <1>15, <1>16 DEF IInv

\* The head of the instruction queue enters the reorder buffer and a queue.
LEMMA DispatchIInv ==
    ASSUME IInv, dispatch, inst_queue # <<>>, can_dispatch(Head(inst_queue)), ~fence_active
    PROVE  IInv'
<1> DEFINE c == Head(inst_queue)
           w == UnitOf(c)
<1>1. /\ inst_queue \in Seq(Cmds) /\ rob \in Seq(Cmds) /\ Len(cmds) \in Nat
      /\ Len(inst_queue) \in Nat /\ Len(rob) \in Nat /\ Len(inst_queue) >= 1
      /\ Last = Len(cmds) - Len(inst_queue) /\ Last \in Int
      /\ MaxCmds \in Nat /\ Len(cmds) <= MaxCmds
  BY SizeAssumption DEF IInv, TypeOK, Last
<1>2. c = inst_queue[1] /\ c = Last + 1 /\ c \in Cmds /\ w \in Units
  <2>1. c = inst_queue[1] /\ c \in Cmds /\ 1 \in 1 .. Len(inst_queue)
    BY <1>1
  <2>2. QED BY <2>1 DEF IInv, ProgramOrder, UnitOf, Units
<1>3. /\ status' = [status EXCEPT ![c] = COSIM_WAITING]
      /\ parents' = [parents EXCEPT ![c] = build_data_dep(c)]
      /\ rob' = Append(rob, c) /\ inst_queue' = Tail(inst_queue)
      /\ queue' = [queue EXCEPT ![w] = Append(@, c)]
      /\ fence_active' = (OpOf(c) = "FENCE") /\ UNCHANGED <<cmds, contlr>>
  BY DEF dispatch
<1>4. Len(rob) # RobCap /\ Len(queue[w]) # QueueCap[w]
  BY DEF can_dispatch
<1> HIDE DEF c, w
<1>5. /\ rob' \in Seq(Cmds) /\ Len(rob') = Len(rob) + 1 /\ rob'[Len(rob) + 1] = c
      /\ \A i \in 1 .. Len(rob) : rob'[i] = rob[i]
  BY <1>1, <1>2, <1>3, AppendProperties
<1>6. /\ inst_queue' \in Seq(Cmds) /\ Len(inst_queue') = Len(inst_queue) - 1
      /\ \A i \in 1 .. Len(inst_queue') : inst_queue'[i] = inst_queue[i + 1]
  BY <1>1, <1>3, HeadTailProperties
<1>7. Last' = Last + 1 /\ Last' = c
  BY <1>1, <1>2, <1>3, <1>6 DEF Last
<1>8. /\ status' \in [Cmds -> Statuses]
      /\ \A d \in Cmds : status'[d] = IF d = c THEN COSIM_WAITING ELSE status[d]
      /\ status[c] \in Int /\ status[c] <= COSIM_WAITING
      /\ \A d \in Cmds : status[d] \in Int
  <2>1. status \in [Cmds -> Statuses]
    BY DEF IInv, TypeOK, Statuses
  <2>2. status[c] <= COSIM_WAITING
    BY <1>1, <1>2 DEF IInv, StatusByAge
  <2>3. QED BY <1>2, <1>3, <2>1, <2>2 DEF Statuses
<1>9. ProgramOrder'
  <2>1. \A i \in 1 .. Len(inst_queue') : inst_queue'[i] = Last' + i
    <3>1. \A i \in 1 .. Len(inst_queue') : i + 1 \in 1 .. Len(inst_queue)
      BY <1>1, <1>6
    <3>2. QED BY <1>1, <1>6, <1>7, <3>1 DEF IInv, ProgramOrder
  <2>2. \A i \in 1 .. Len(rob') : rob'[i] = Last' - Len(rob') + i
    <3>1. \A i \in 1 .. Len(rob') : i \in 1 .. Len(rob) \/ i = Len(rob) + 1
      BY <1>1, <1>5
    <3>2. \A i \in 1 .. Len(rob) : rob[i] = Last - Len(rob) + i
      BY DEF IInv, ProgramOrder
    <3>3. Last' - Len(rob') = Last - Len(rob)
      BY <1>1, <1>5, <1>7
    <3>4. c = Last - Len(rob) + (Len(rob) + 1)
      BY <1>1, <1>2
    <3>5. ASSUME NEW i \in 1 .. Len(rob') PROVE rob'[i] = Last - Len(rob) + i
      <4>1. CASE i \in 1 .. Len(rob)
        BY <1>5, <3>2, <4>1
      <4>2. CASE i = Len(rob) + 1
        BY <1>5, <3>4, <4>2
      <4>3. QED BY <3>1, <4>1, <4>2
    <3>6. QED BY <3>3, <3>5
  <2>3. QED BY <1>1, <1>3, <1>5, <1>6, <2>1, <2>2 DEF IInv, ProgramOrder
<1>10. StatusByAge'
  <2>1. \A d \in Cmds : d > Last' => d > Last /\ d # c
    BY <1>1, <1>2, <1>7 DEF Cmds
  <2>2. \A d \in Cmds : d <= Last' - Len(rob') => d <= Last - Len(rob) /\ d # c
    BY <1>1, <1>2, <1>5, <1>7 DEF Cmds
  <2>3. QED BY <1>8, <2>1, <2>2 DEF IInv, StatusByAge
<1>11. ASSUME NEW d \in Cmds, d <= Last
       PROVE  d # c /\ status'[d] = status[d] /\ UnitOf(d)' = UnitOf(d)
  BY <1>1, <1>2, <1>3, <1>8, <1>11 DEF Cmds, UnitOf, TypeOf
<1>12. ASSUME NEW u \in Units
       PROVE  /\ queue'[u] \in Seq(Cmds) /\ Len(queue'[u]) <= QueueCap[u]
              /\ Holds(queue[u], u, COSIM_WAITING)' /\ Holds(contlr[u], u, COSIM_ISSUED)'
              /\ \A i \in 1 .. Len(contlr'[u]), j \in 1 .. Len(queue'[u]) :
                    contlr'[u][i] < queue'[u][j]
  <2>1. /\ queue[u] \in Seq(Cmds) /\ Len(queue[u]) \in Nat /\ contlr[u] \in Seq(Cmds)
        /\ Len(queue[u]) <= QueueCap[u] /\ QueueCap[u] \in Nat /\ contlr'[u] = contlr[u]
    <3>1. /\ queue \in [Units -> Seq(Cmds)] /\ contlr \in [Units -> Seq(Cmds)]
          /\ Len(queue[u]) <= QueueCap[u] /\ QueueCap \in [Units -> Nat]
      BY SizeAssumption DEF IInv, TypeOK
    <3>2. QED BY <1>3, <3>1
  <2>2. /\ Holds(queue[u], u, COSIM_WAITING) /\ Holds(contlr[u], u, COSIM_ISSUED)
        /\ \A i \in 1 .. Len(contlr[u]), j \in 1 .. Len(queue[u]) : contlr[u][i] < queue[u][j]
    BY DEF IInv, QueuesHold, ContlrsHold, UnitFifo
  <2>3. /\ \A i \in 1 .. Len(queue[u]) : /\ queue[u][i] \in Cmds /\ queue[u][i] <= Last
             /\ UnitOf(queue[u][i]) = u /\ status[queue[u][i]] = COSIM_WAITING
        /\ \A i \in 1 .. Len(contlr[u]) : /\ contlr[u][i] \in Cmds /\ contlr[u][i] <= Last
             /\ UnitOf(contlr[u][i]) = u /\ status[contlr[u][i]] = COSIM_ISSUED
    BY <2>1, <2>2 DEF Holds
  <2>4. /\ \A i, j \in 1 .. Len(queue[u]) : i < j => queue[u][i] < queue[u][j]
        /\ \A i, j \in 1 .. Len(contlr[u]) : i < j => contlr[u][i] < contlr[u][j]
    BY <2>2 DEF Holds
  <2>5. /\ \A i \in 1 .. Len(queue[u]) :
             queue[u][i] < c /\ queue[u][i] <= Last' /\ status'[queue[u][i]] = COSIM_WAITING
        /\ \A i \in 1 .. Len(contlr[u]) :
             contlr[u][i] < c /\ contlr[u][i] <= Last' /\ status'[contlr[u][i]] = COSIM_ISSUED
    <3>1. ASSUME NEW d \in Cmds, d <= Last
          PROVE  d < c /\ d <= Last' /\ status'[d] = status[d]
      <4>1. d \in Int
        BY DEF Cmds
      <4>2. d < c /\ d <= Last'
        BY <1>1, <1>2, <1>7, <3>1, <4>1
      <4>3. QED BY <1>11, <3>1, <4>2
    <3>2. QED BY <2>3, <3>1
  <2>6. Holds(contlr[u], u, COSIM_ISSUED)'
    BY <1>3, <2>1, <2>3, <2>4, <2>5 DEF Holds, UnitOf, TypeOf
  <2>7. CASE u # w
    <3>1. queue'[u] = queue[u]
      BY <1>3, <2>7 DEF IInv, TypeOK
    <3>2. Holds(queue[u], u, COSIM_WAITING)'
      BY <1>3, <2>3, <2>4, <2>5, <3>1 DEF Holds, UnitOf, TypeOf
    <3>3. QED BY <2>1, <2>2, <2>6, <3>1, <3>2
  <2>8. CASE u = w
    <3>1. queue'[u] = Append(queue[u], c) /\ Len(queue[u]) # QueueCap[u]
      BY <1>2, <1>3, <1>4, <2>8 DEF IInv, TypeOK
    <3>2. /\ queue'[u] \in Seq(Cmds) /\ Len(queue'[u]) = Len(queue[u]) + 1
          /\ queue'[u][Len(queue[u]) + 1] = c
          /\ \A i \in 1 .. Len(queue[u]) : queue'[u][i] = queue[u][i]
      BY <1>2, <2>1, <3>1, AppendProperties
    <3>3. \A i \in 1 .. Len(queue'[u]) : i \in 1 .. Len(queue[u]) \/ i = Len(queue[u]) + 1
      BY <2>1, <3>2
    <3>4. UnitOf(c) = u /\ status'[c] = COSIM_WAITING
      BY <1>2, <1>8, <2>8 DEF w
    <3>5. \A i \in 1 .. Len(queue'[u]) :
             /\ queue'[u][i] <= Last' /\ UnitOf(queue[u][i])' = u
             /\ status'[queue'[u][i]] = COSIM_WAITING
      <4> SUFFICES ASSUME NEW i \in 1 .. Len(queue'[u])
                   PROVE  /\ queue'[u][i] <= Last' /\ UnitOf(queue[u][i])' = u
                          /\ status'[queue'[u][i]] = COSIM_WAITING
        OBVIOUS
      <4>1. CASE i \in 1 .. Len(queue[u])
        BY <1>3, <2>3, <2>5, <3>2, <4>1 DEF UnitOf, TypeOf
      <4>2. CASE i = Len(queue[u]) + 1
        <5>1. queue'[u][i] = c /\ c <= Last'
          BY <1>1, <1>2, <1>7, <3>2, <4>2
        <5>2. UnitOf(queue[u][i])' = u
          BY <1>3, <3>4, <5>1 DEF UnitOf, TypeOf
        <5>3. QED BY <3>4, <5>1, <5>2
      <4>3. QED BY <3>3, <4>1, <4>2
    <3>6. \A i, j \in 1 .. Len(queue'[u]) : i < j => queue'[u][i] < queue'[u][j]
      <4> SUFFICES ASSUME NEW i \in 1 .. Len(queue'[u]), NEW j \in 1 .. Len(queue'[u]), i < j
                   PROVE  queue'[u][i] < queue'[u][j]
        OBVIOUS
      <4>1. i \in 1 .. Len(queue[u])
        BY <2>1, <3>2
      <4>2. CASE j \in 1 .. Len(queue[u])
        BY <2>4, <3>2, <4>1, <4>2
      <4>3. CASE j = Len(queue[u]) + 1
        BY <2>5, <3>2, <4>1, <4>3
      <4>4. QED BY <3>3, <4>2, <4>3
    <3>7. Holds(queue[u], u, COSIM_WAITING)'
      BY <3>5, <3>6 DEF Holds
    <3>8. \A i \in 1 .. Len(contlr'[u]), j \in 1 .. Len(queue'[u]) : contlr'[u][i] < queue'[u][j]
      BY <2>1, <2>2, <2>5, <3>2, <3>3
    <3>9. QED BY <2>1, <2>6, <3>1, <3>2, <3>7, <3>8
  <2>9. QED BY <2>7, <2>8
<1>13. QueuesHold' /\ ContlrsHold' /\ UnitFifo'
  BY <1>12 DEF QueuesHold, ContlrsHold, UnitFifo
<1>14. parents' \in [Cmds -> SUBSET Cmds]
       /\ \A d \in Cmds : parents'[d] = IF d = c THEN build_data_dep(c) ELSE parents[d]
  <2>1. build_data_dep(c) \subseteq Cmds
    BY <1>1 DEF build_data_dep, Elems
  <2>2. QED BY <1>2, <1>3, <2>1 DEF IInv, TypeOK
<1>15. ParentsBuilt'
  <2> SUFFICES ASSUME NEW d \in Cmds, NEW p \in 1 .. d - 1,
                      d <= Last', overlap(cmds[d], cmds[p]), status'[p] < COSIM_FINISHED
               PROVE  p \in parents'[d]
    BY <1>3 DEF ParentsBuilt
  <2>1. p \in Cmds /\ p <= Last /\ status'[p] = status[p]
    BY <1>1, <1>2, <1>7, <1>11 DEF Cmds
  <2>2. CASE d # c
    <3>1. d <= Last
      BY <1>1, <1>2, <1>7, <2>2 DEF Cmds
    <3>2. QED BY <1>14, <2>1, <2>2, <3>1 DEF IInv, ParentsBuilt
  <2>3. CASE d = c
    <3>1. p > Last - Len(rob)
      <4>1. p <= Last - Len(rob) => status[p] >= COSIM_FINISHED
        BY <2>1 DEF IInv, StatusByAge
      <4>2. status[p] \in Int /\ p \in Int
        BY <1>8, <2>1 DEF Cmds
      <4>3. QED BY <1>1, <2>1, <4>1, <4>2
    <3>2. p - (Last - Len(rob)) \in 1 .. Len(rob) /\ rob[p - (Last - Len(rob))] = p
      <4>1. p - (Last - Len(rob)) \in 1 .. Len(rob) /\ p \in Int
        BY <1>1, <2>1, <3>1 DEF Cmds
      <4>2. \A i \in 1 .. Len(rob) : rob[i] = Last - Len(rob) + i
        BY DEF IInv, ProgramOrder
      <4>3. QED BY <1>1, <4>1, <4>2
    <3>3. p \in Elems(rob)
      BY <3>2 DEF Elems
    <3>4. QED BY <1>14, <2>1, <2>3, <3>3 DEF build_data_dep
  <2>4. QED BY <2>2, <2>3
<1>16. DependenceOrder'
  <2>1. \A d \in Received : d \in Cmds /\ \A p \in 1 .. d - 1 : p \in Cmds
    BY <1>1 DEF Received, Cmds
  <2>2. \A d \in Cmds : status'[d] >= COSIM_ISSUED => d # c /\ status[d] >= COSIM_ISSUED
    BY <1>8
  <2>3. \A d \in Cmds : status[d] >= COSIM_FINISHED => status'[d] >= COSIM_FINISHED
    BY <1>2, <1>8
  <2>4. Received' = Received
    BY <1>3 DEF Received
  <2>5. QED BY <1>3, <2>1, <2>2, <2>3, <2>4 DEF IInv, DependenceOrder
<1>17. ReportedStarted'
  <2>1. UNCHANGED <<preload_cmds, mm_cmds, acc_cmds, accumulated, fence_cmd, inflight, early>>
    BY DEF dispatch, dmaVars, arrayVars
  <2>2. \A d \in Cmds : status[d] >= COSIM_EXECUTING => status'[d] >= COSIM_EXECUTING
    BY <1>8
  <2>3. Started(preload_cmds)' /\ Started(mm_cmds)' /\ Started(acc_cmds)'
    BY <2>1, <2>2, StartedStays DEF IInv, TypeOK, ReportedStarted, Started
  <2>4. QED BY <2>1, <2>2, <2>3 DEF IInv, TypeOK, ReportedStarted
<1>18. TypeOK'
  <2>1. queue' \in [Units -> Seq(Cmds)]
    <3>1. DOMAIN queue' = Units /\ queue' = [u \in Units |-> queue'[u]]
      BY <1>3 DEF IInv, TypeOK
    <3>2. QED BY <1>12, <3>1
  <2>2. Len(rob') <= RobCap /\ Len(inst_queue') <= InstCap
    BY <1>1, <1>4, <1>5, <1>6, SizeAssumption DEF IInv, TypeOK
  <2>3. fence_active' \in BOOLEAN
    BY <1>3, Zenon
  <2>4. /\ pc' \in {"cpu", "dma", "commit", "complete", "execute", "fence", "issue",
                    "dispatch", "array"}
        /\ UNCHANGED <<cmds, contlr, preload_cmds, mm_cmds, fence_cmd, fu_busy,
                       load_dma, store_dma, inflight, early, reads,
                       flipped, mem_idle, preloaded, acc_cmds, accumulated, computed>>
    BY DEF dispatch, dmaVars, arrayVars
  <2>5. QED BY <1>5, <1>6, <1>8, <1>12, <1>14, <2>1, <2>2, <2>3, <2>4 DEF IInv, TypeOK, Statuses
<1>19. QED BY <1>9, <1>10, <1>13, <1>15, <1>16, <1>17, <1>18 DEF IInv

LEMMA dispatchIInv == IInv /\ dispatch => IInv'
<1> SUFFICES ASSUME IInv, dispatch PROVE IInv'
  OBVIOUS
<1>1. CASE inst_queue # <<>> /\ ~fence_active /\ can_dispatch(Head(inst_queue))
  BY <1>1, DispatchIInv
<1>2. CASE ~(inst_queue # <<>> /\ ~fence_active /\ can_dispatch(Head(inst_queue)))
  <2>1. UNCHANGED <<cmdVars, queueVars, exeVars, dmaVars, arrayVars>> /\ pc' = "array"
    BY <1>2 DEF dispatch, cmdVars, queueVars, exeVars
  <2>2. StatusInv' /\ ProgramOrder'
    BY <2>1, StatusInvUnchanged, ProgramOrderUnchanged DEF IInv, StatusInv, cmdVars, queueVars
  <2>3. TypeOK'
    BY <2>1 DEF IInv, TypeOK, cmdVars, queueVars, exeVars, dmaVars, arrayVars
  <2>4. ReportedStarted'
    BY <2>1 DEF IInv, ReportedStarted, Started, cmdVars, exeVars, dmaVars, arrayVars
  <2>5. QED BY <2>2, <2>3, <2>4 DEF IInv, StatusInv
<1>3. QED BY <1>1, <1>2

-----------------------------------------------------------------------------
\* IInv is inductive: every stage of Stonne::cycle and every command the CPU
\* sends keeps it.
THEOREM Inductive == Spec => []IInv
<1>1. IInv /\ [Next]_vars => IInv'
  <2> SUFFICES ASSUME IInv, [Next]_vars PROVE IInv'
    OBVIOUS
  <2>1. ASSUME NEW t \in Templates, receive(t) PROVE IInv'
    BY <2>1, receiveIInv
  <2>2. CASE NoReceive
    BY <2>2, NoReceiveIInv
  <2>3. ASSUME NEW done \in SUBSET inflight, NEW drained \in SUBSET inflight,
               DmaCycle(done, drained)
        PROVE  IInv'
    BY <2>3, DmaCycleIInv
  <2>4. CASE commit
    BY <2>4, commitIInv
  <2>5. CASE Complete
    BY <2>5, CompleteIInv
  <2>6. CASE execute
    BY <2>6, executeIInv
  <2>7. CASE try_complete_fence
    BY <2>7, try_complete_fenceIInv
  <2>8. CASE issue
    BY <2>8, issueIInv
  <2>9. CASE dispatch
    BY <2>9, dispatchIInv
  <2>10. ASSUME NEW flip \in BOOLEAN, NEW idle \in BOOLEAN, NEW pre \in BOOLEAN,
                NEW accd \in BOOLEAN, NEW comp \in BOOLEAN,
                ArrayCycle(flip, idle, pre, accd, comp)
         PROVE  IInv'
    BY <2>10, ArrayCycleIInv
  <2>11. CASE UNCHANGED vars
    <3>1. UNCHANGED <<pc, cmdVars, queueVars, exeVars, dmaVars, arrayVars>>
      BY <2>11 DEF vars
    <3>2. StatusInv' /\ ProgramOrder'
      BY <3>1, StatusInvUnchanged, ProgramOrderUnchanged DEF IInv, StatusInv, cmdVars, queueVars
    <3>3. TypeOK'
      BY <3>1 DEF IInv, TypeOK, cmdVars, queueVars, exeVars, dmaVars, arrayVars
    <3>4. ReportedStarted'
      BY <3>1 DEF IInv, ReportedStarted, Started, cmdVars, exeVars, dmaVars, arrayVars
    <3>5. QED BY <3>2, <3>3, <3>4 DEF IInv, StatusInv
  <2>12. QED BY <2>1, <2>2, <2>3, <2>4, <2>5, <2>6, <2>7, <2>8, <2>9, <2>10, <2>11 DEF Next
<1>2. QED BY InitIInv, <1>1, PTL DEF Spec

\* No queue, controller or reorder buffer overflows (the assertion of
\* BaseQueue::insert_command), and all state keeps its type.
THEOREM TypeCorrect == Spec => []TypeOK
<1>1. IInv => TypeOK
  BY DEF IInv
<1>2. QED BY Inductive, <1>1, PTL

\* No command is issued before every older command it conflicts with on the
\* scratchpad or the accumulator has finished.
THEOREM DependencesRespected == Spec => []DependenceOrder
<1>1. IInv => DependenceOrder
  BY DEF IInv
<1>2. QED BY Inductive, <1>1, PTL

-----------------------------------------------------------------------------
(***************************************************************************)
(* The hazards: Command::overlap finds exactly the data hazards, for every *)
(* pair of row ranges.                                                     *)
(***************************************************************************)

\* A row range of the code: two row numbers.
RowRange == [lo : Nat, hi : Nat]

\* Two ranges pass the interval test exactly when they share a row.
LEMMA RangeOverlapIsIntersection ==
    ASSUME NEW r \in RowRange, NEW s \in RowRange
    PROVE  RangeOverlap(r, s) <=> (r.lo .. r.hi - 1) \cap (s.lo .. s.hi - 1) # {}
<1>1. ASSUME RangeOverlap(r, s)
      PROVE  (r.lo .. r.hi - 1) \cap (s.lo .. s.hi - 1) # {}
  <2>1. CASE s.lo <= r.lo /\ r.lo < s.hi
    <3>1. r.lo \in (r.lo .. r.hi - 1) \cap (s.lo .. s.hi - 1)
      BY <1>1, <2>1 DEF RangeOverlap, RowRange
    <3>2. QED BY <3>1
  <2>2. CASE r.lo <= s.lo /\ s.lo < r.hi
    <3>1. s.lo \in (r.lo .. r.hi - 1) \cap (s.lo .. s.hi - 1)
      BY <1>1, <2>2 DEF RangeOverlap, RowRange
    <3>2. QED BY <3>1
  <2>3. QED BY <1>1, <2>1, <2>2 DEF RangeOverlap
<1>2. ASSUME NEW x \in (r.lo .. r.hi - 1) \cap (s.lo .. s.hi - 1)
      PROVE  RangeOverlap(r, s)
  BY DEF RangeOverlap, RowRange
<1>3. QED BY <1>1, <1>2

\* The same for two sets of cells of one memory; cells of different memories
\* are never equal.
LEMMA CellsMeet ==
    ASSUME NEW r \in RowRange, NEW s \in RowRange, NEW m, NEW n
    PROVE  Cells(m, r) \cap Cells(n, s) # {} <=> m = n /\ RangeOverlap(r, s)
<1>1. ASSUME NEW x \in Cells(m, r) \cap Cells(n, s)
      PROVE  m = n /\ RangeOverlap(r, s)
  <2>1. PICK i \in r.lo .. r.hi - 1 : x = <<m, i>>
    BY DEF Cells
  <2>2. PICK j \in s.lo .. s.hi - 1 : x = <<n, j>>
    BY DEF Cells
  <2>3. m = n /\ i = j
    BY <2>1, <2>2
  <2>4. (r.lo .. r.hi - 1) \cap (s.lo .. s.hi - 1) # {}
    BY <2>3
  <2>5. QED BY <2>3, <2>4, RangeOverlapIsIntersection
<1>2. ASSUME m = n, RangeOverlap(r, s)
      PROVE  Cells(m, r) \cap Cells(n, s) # {}
  <2>1. PICK i : i \in (r.lo .. r.hi - 1) \cap (s.lo .. s.hi - 1)
    BY <1>2, RangeOverlapIsIntersection
  <2>2. <<m, i>> \in Cells(m, r) \cap Cells(n, s)
    BY <1>2, <2>1 DEF Cells
  <2>3. QED BY <2>2
<1>3. QED BY <1>1, <1>2

\* The cells of a command are those of its operands.
CommandRecords ==
    [type : CommandTypes, op : UNION {OperationsOf(t) : t \in CommandTypes},
     stay : BOOLEAN, rs1 : RowRange, rs2 : RowRange, dst : RowRange]

\* Command::overlap agrees with the hazards it stands for, whatever the ranges.
THEOREM OverlapIsHazard ==
    ASSUME NEW a \in CommandRecords, NEW b \in CommandRecords
    PROVE  OverlapExact(a, b)
<1> DEFINE Meet(m, r, n, s) == Cells(m, r) \cap Cells(n, s) # {}
<1> SUFFICES ASSUME ~(a.type = "EXE" /\ b.type = "EXE")
             PROVE  overlap(a, b) <=> Hazard(a, b)
  BY DEF OverlapExact
<1>1. /\ a.rs1 \in RowRange /\ a.rs2 \in RowRange /\ a.dst \in RowRange /\ a.type \in CommandTypes
      /\ b.rs1 \in RowRange /\ b.rs2 \in RowRange /\ b.dst \in RowRange /\ b.type \in CommandTypes
  BY DEF CommandRecords
<1>2. /\ \A r, s \in RowRange : Meet("SPM", r, "SPM", s) <=> RangeOverlap(r, s)
      /\ \A r, s \in RowRange : Meet("ACC", r, "ACC", s) <=> RangeOverlap(r, s)
      /\ \A r, s \in RowRange : ~Meet("SPM", r, "ACC", s) /\ ~Meet("ACC", r, "SPM", s)
  BY CellsMeet
<1>4. CASE a.type = "EXE"
  <2>1. Hazard(a, b) <=>
          CASE b.type = "LOAD"     -> \/ Meet("SPM", a.rs1, "SPM", b.dst)
                                      \/ Meet("SPM", a.rs2, "SPM", b.dst)
                                      \/ Meet("ACC", a.dst, "SPM", b.dst)
            [] b.type = "STORE"    -> Meet("ACC", a.dst, "ACC", b.rs1)
            [] b.type = "LOAD_ACC" -> \/ Meet("SPM", a.rs1, "ACC", b.dst)
                                      \/ Meet("SPM", a.rs2, "ACC", b.dst)
                                      \/ Meet("ACC", a.dst, "ACC", b.dst)
    BY <1>1, <1>4 DEF Hazard, Reads, Writes, CommandTypes
  <2> HIDE DEF Meet
  <2>2. QED BY <1>1, <1>2, <1>4, <2>1 DEF overlap, CommandTypes
<1>5. CASE a.type = "LOAD"
  <2>1. Hazard(a, b) <=>
          CASE b.type = "EXE"      -> \/ Meet("SPM", a.dst, "SPM", b.rs1)
                                      \/ Meet("SPM", a.dst, "SPM", b.rs2)
                                      \/ Meet("SPM", a.dst, "ACC", b.dst)
            [] b.type = "LOAD"     -> Meet("SPM", a.dst, "SPM", b.dst)
            [] b.type = "STORE"    -> Meet("SPM", a.dst, "ACC", b.rs1)
            [] b.type = "LOAD_ACC" -> Meet("SPM", a.dst, "ACC", b.dst)
    BY <1>1, <1>5 DEF Hazard, Reads, Writes, CommandTypes
  <2> HIDE DEF Meet
  <2>2. QED BY <1>1, <1>2, <1>5, <2>1 DEF overlap, CommandTypes
<1>6. CASE a.type = "STORE"
  <2>1. Hazard(a, b) <=>
          CASE b.type = "LOAD"     -> Meet("ACC", a.rs1, "SPM", b.dst)
            [] b.type = "STORE"    -> FALSE
            [] b.type \in {"EXE", "LOAD_ACC"} -> Meet("ACC", a.rs1, "ACC", b.dst)
    BY <1>1, <1>6 DEF Hazard, Reads, Writes, CommandTypes
  <2> HIDE DEF Meet
  <2>2. QED BY <1>1, <1>2, <1>6, <2>1 DEF overlap, CommandTypes
<1>7. CASE a.type = "LOAD_ACC"
  <2>1. Hazard(a, b) <=>
          CASE b.type = "EXE"      -> \/ Meet("ACC", a.dst, "SPM", b.rs1)
                                      \/ Meet("ACC", a.dst, "SPM", b.rs2)
                                      \/ Meet("ACC", a.dst, "ACC", b.dst)
            [] b.type = "LOAD"     -> Meet("ACC", a.dst, "SPM", b.dst)
            [] b.type = "STORE"    -> Meet("ACC", a.dst, "ACC", b.rs1)
            [] b.type = "LOAD_ACC" -> Meet("ACC", a.dst, "ACC", b.dst)
    BY <1>1, <1>7 DEF Hazard, Reads, Writes, CommandTypes
  <2> HIDE DEF Meet
  <2>2. QED BY <1>1, <1>2, <1>7, <2>1 DEF overlap, CommandTypes
<1>8. QED BY <1>1, <1>4, <1>5, <1>6, <1>7 DEF CommandTypes
=============================================================================
