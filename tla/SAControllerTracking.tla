------------------------- MODULE SAControllerTracking -------------------------
(***************************************************************************)
(* What SAController keeps about its commands is right, for every program, *)
(* every queue size and both dataflows: the order within a unit, the       *)
(* fence, the lists of running commands, the DMA counters, and a status    *)
(* that only climbs.                                                       *)
(*                                                                         *)
(* The invariant behind all of them: each list holds exactly the           *)
(* dispatched commands of its unit or operation in one state, the queues   *)
(* the waiting ones, the controllers the issued ones, and the tracking     *)
(* lists, the DMA engine and fence_cmd the executing ones.  It is proved   *)
(* on top of IInv (SAControllerProofs).                                    *)
(***************************************************************************)
EXTENDS SAControllerProofs

USE DEF COSIM_INIT, COSIM_WAITING, COSIM_ISSUED, COSIM_EXECUTING,
        COSIM_FINISHED, COSIM_COMMITTED

\* What a command that has been received is not: still uninitialised.
KnownStatus == \A c \in Cmds : c <= Len(cmds) => status[c] >= COSIM_WAITING

\* No waiting command is missing from its queue, no issued one from its
\* controller (that nothing else is there is in IInv).
QueuesExact ==
    \A u \in Units : \A c \in Cmds : c <= Last /\ UnitOf(c) = u =>
        /\ status[c] = COSIM_WAITING => c \in Elems(queue[u])
        /\ status[c] = COSIM_ISSUED => c \in Elems(contlr[u])

Running(c) == c <= Last /\ status[c] = COSIM_EXECUTING

\* The running commands of the array.
ListsExact ==
    /\ Sorted(preload_cmds) /\ Sorted(mm_cmds) /\ Sorted(acc_cmds)
    /\ \A c \in Cmds : c \in Elems(preload_cmds) <=> Running(c) /\ OpOf(c) = "PRELOAD"
    /\ \A c \in Cmds : c \in Elems(mm_cmds) <=> Running(c) /\ OpOf(c) \in MMOps
    /\ \A c \in Cmds :
        c \in Elems(acc_cmds) <=> Running(c) /\ OpOf(c) \in MMOps /\ ~cmds[c].stay

\* The running transfers, and the running fence.
OthersExact ==
    /\ \A c \in Cmds : c \in inflight \ early <=> Running(c) /\ UnitOf(c) # "exe"
    /\ \A c \in Cmds : c = fence_cmd <=> Running(c) /\ OpOf(c) = "FENCE"
    /\ \A c \in Cmds : Running(c) => ~AtOnce(c)
    /\ \A c \in early : status[c] >= COSIM_FINISHED

\* An unfinished fence is the last command dispatched and blocks the next.
FenceLast ==
    \A f \in Cmds : f <= Last /\ OpOf(f) = "FENCE" /\ status[f] < COSIM_FINISHED
        => fence_active /\ f = Last

\* What a finished fence waited for.
FenceDone ==
    \A f \in Cmds : \A c \in Cmds :
        f <= Last /\ c < f /\ OpOf(f) = "FENCE" /\ status[f] >= COSIM_FINISHED
            => status[c] >= COSIM_FINISHED /\ c \notin inflight

\* The parents of a command are older than it and still in the reorder buffer.
ParentsLive ==
    \A d \in Cmds : \A p \in parents[d] : Last - Len(rob) < p /\ p < d /\ d <= Last

TInv ==
    /\ KnownStatus /\ QueuesExact /\ ListsExact /\ OthersExact /\ UnitOrder
    /\ FenceLast /\ FenceDone /\ ParentsLive /\ DmaThrottle

-----------------------------------------------------------------------------
\* Dropping the head of a list in program order drops its oldest command.
LEMMA TailElems ==
    ASSUME NEW s \in Seq(Cmds), s # <<>>, Sorted(s)
    PROVE  /\ Head(s) \in Elems(s) /\ Head(s) \in Cmds
           /\ \A c \in Elems(s) : Head(s) <= c
           /\ Sorted(Tail(s)) /\ Tail(s) \in Seq(Cmds)
           /\ Elems(Tail(s)) = Elems(s) \ {Head(s)}
<1>1. /\ Len(s) \in Nat /\ Len(s) >= 1 /\ Head(s) = s[1]
      /\ \A i \in 1 .. Len(s) : s[i] \in Cmds /\ s[i] \in Int
  <2>1. \A c \in Cmds : c \in Int
    BY DEF Cmds
  <2>2. Len(s) \in Nat /\ Len(s) >= 1 /\ Head(s) = s[1] /\ \A i \in 1 .. Len(s) : s[i] \in Cmds
    OBVIOUS
  <2>3. QED BY <2>1, <2>2
<1>2. /\ Tail(s) \in Seq(Cmds) /\ Len(Tail(s)) = Len(s) - 1
      /\ \A i \in 1 .. Len(Tail(s)) : Tail(s)[i] = s[i + 1]
  BY HeadTailProperties
<1>3. Head(s) \in Elems(s) /\ \A c \in Elems(s) : Head(s) <= c
  BY <1>1 DEF Elems, Sorted
<1>4. Sorted(Tail(s))
  BY <1>1, <1>2 DEF Sorted
<1>5. ASSUME NEW c \in Elems(Tail(s)) PROVE c \in Elems(s) \ {Head(s)}
  <2>1. PICK i \in 1 .. Len(Tail(s)) : c = s[i + 1]
    BY <1>2 DEF Elems
  <2>2. i + 1 \in 1 .. Len(s) /\ 1 \in 1 .. Len(s) /\ 1 < i + 1
    BY <1>1, <1>2
  <2>3. c > Head(s)
    BY <1>1, <2>1, <2>2 DEF Sorted
  <2>4. QED BY <1>1, <2>1, <2>2, <2>3 DEF Elems
<1>6. ASSUME NEW c \in Elems(s), c # Head(s) PROVE c \in Elems(Tail(s))
  <2>1. PICK i \in 1 .. Len(s) : c = s[i]
    BY DEF Elems
  <2>2. i - 1 \in 1 .. Len(Tail(s)) /\ Tail(s)[i - 1] = c
    BY <1>1, <1>2, <1>6, <2>1
  <2>3. QED BY <2>2 DEF Elems
<1>7. QED BY <1>1, <1>2, <1>3, <1>4, <1>5, <1>6

\* Appending a younger command keeps a list in program order.
LEMMA AppendElems ==
    ASSUME NEW s \in Seq(Cmds), Sorted(s), NEW c \in Cmds, \A d \in Elems(s) : d < c
    PROVE  /\ Append(s, c) \in Seq(Cmds) /\ Sorted(Append(s, c))
           /\ Elems(Append(s, c)) = Elems(s) \cup {c}
<1> DEFINE t == Append(s, c)
<1>1. /\ t \in Seq(Cmds) /\ Len(s) \in Nat /\ Len(t) = Len(s) + 1 /\ t[Len(s) + 1] = c
      /\ \A i \in 1 .. Len(s) : t[i] = s[i] /\ s[i] < c
  BY AppendProperties DEF Elems
<1> HIDE DEF t
<1>2. \A i \in 1 .. Len(t) : i \in 1 .. Len(s) \/ i = Len(s) + 1
  BY <1>1
<1>3. Sorted(t)
  <2> SUFFICES ASSUME NEW i \in 1 .. Len(t), NEW j \in 1 .. Len(t), i < j PROVE t[i] < t[j]
    BY DEF Sorted
  <2>1. i \in 1 .. Len(s)
    BY <1>1
  <2>2. CASE j \in 1 .. Len(s)
    BY <1>1, <2>1, <2>2 DEF Sorted
  <2>3. CASE j = Len(s) + 1
    BY <1>1, <2>1, <2>3
  <2>4. QED BY <1>2, <2>2, <2>3
<1>4. Elems(t) = Elems(s) \cup {c}
  <2>1. \A x \in Elems(t) : x \in Elems(s) \cup {c}
    BY <1>1, <1>2 DEF Elems
  <2>2. \A x \in Elems(s) : x \in Elems(t)
    <3>1. 1 .. Len(s) \subseteq 1 .. Len(t)
      BY <1>1
    <3>2. QED BY <1>1, <3>1 DEF Elems
  <2>3. c \in Elems(t)
    <3>1. Len(s) + 1 \in 1 .. Len(t)
      BY <1>1
    <3>2. QED BY <1>1, <3>1 DEF Elems
  <2>4. QED BY <2>1, <2>2, <2>3
<1>5. QED BY <1>1, <1>3, <1>4 DEF t

\* Each unit carries its own operations (Core::cosim_issue).
LEMMA UnitOps ==
    ASSUME TypeOK, NEW c \in 1 .. Len(cmds)
    PROVE  /\ UnitOf(c) \in Units
           /\ UnitOf(c) = "load" <=> OpOf(c) \in {"MOVE_IN", "MOVE_IN_ACC"}
           /\ UnitOf(c) = "store" <=> OpOf(c) = "MOVE_OUT"
           /\ UnitOf(c) = "exe" <=> OpOf(c) \in {"PRELOAD", "MATRIX_MULTIPLY",
                                       "MATRIX_MULTIPLY_FLIP", "FENCE", "CONFIG", "FAKE"}
           /\ cmds[c].stay => Dataflow = "OS"
<1>1. cmds[c] \in Templates
  BY DEF TypeOK
<1>2. /\ TypeOf(c) \in CommandTypes /\ OpOf(c) \in OperationsOf(TypeOf(c))
      /\ cmds[c].stay => Dataflow = "OS"
  BY <1>1, TemplatesAssumption DEF TypeOf, OpOf
<1>3. QED BY <1>2 DEF UnitOf, CommandTypes, OperationsOf, Units

\* What TypeOK says of the status, the parents and the DMA engine, pointwise.
LEMMA Typed ==
    ASSUME IInv
    PROVE  /\ \A c \in Cmds : status[c] \in Statuses /\ status[c] \in Int
           /\ \A c \in Cmds : parents[c] \subseteq Cmds
           /\ inflight \subseteq Cmds /\ early \subseteq Cmds
<1>1. \A c \in Cmds : status[c] \in Statuses
  BY DEF IInv, TypeOK, Statuses
<1>2. \A c \in Cmds : status[c] \in Int
  BY <1>1 DEF Statuses
<1>3. \A c \in Cmds : parents[c] \subseteq Cmds
  BY DEF IInv, TypeOK
<1>4. inflight \subseteq Cmds /\ early \subseteq Cmds
  BY DEF IInv, TypeOK
<1>5. QED BY <1>1, <1>2, <1>3, <1>4

\* What has been dispatched has been received.
LEMMA DispatchedReceived ==
    ASSUME IInv
    PROVE  /\ Last \in Int /\ Len(cmds) \in Nat /\ Last <= Len(cmds)
           /\ Len(rob) \in Nat /\ 0 <= Last - Len(rob)
           /\ \A c \in Cmds : c <= Last => c \in 1 .. Len(cmds)
<1>1. /\ Len(cmds) \in Nat /\ Len(inst_queue) \in Nat /\ Len(rob) \in Nat
      /\ Last = Len(cmds) - Len(inst_queue)
  BY DEF IInv, TypeOK, Last
<1>2. Len(inst_queue) + Len(rob) <= Len(cmds)
  BY DEF IInv, ProgramOrder
<1>3. QED BY <1>1, <1>2 DEF Cmds

\* Marking started commands as finished or committed keeps what is known of
\* the others.
LEMMA FinishTracked ==
    ASSUME IInv, TInv, NEW S \in SUBSET Cmds, \A c \in S : status[c] >= COSIM_EXECUTING,
           NEW v \in {COSIM_FINISHED, COSIM_COMMITTED}, status' = SetStatus(S, v),
           UNCHANGED <<cmds, inst_queue, queue, contlr>>
    PROVE  /\ KnownStatus' /\ QueuesExact' /\ UnitOrder' /\ Last' = Last
           /\ \A c \in Cmds : status'[c] = IF c \in S THEN v ELSE status[c]
           /\ \A c \in Cmds : Running(c)' <=> Running(c) /\ c \notin S
<1>1. \A c \in Cmds : status[c] \in Statuses /\ status'[c] = IF c \in S THEN v ELSE status[c]
  BY SetStatusType DEF IInv, TypeOK, Statuses
<1>2. Last' = Last
  BY DEF Last
<1>3. KnownStatus'
  BY <1>1 DEF TInv, KnownStatus, Statuses
<1>4. QueuesExact'
  BY <1>1, <1>2 DEF TInv, QueuesExact, UnitOf, TypeOf, Statuses
<1>5. \A c \in Cmds : Running(c)' <=> Running(c) /\ c \notin S
  BY <1>1, <1>2 DEF Running, Statuses
<1>6. UnitOrder'
  <2>1. \A d \in Received : d \in Cmds /\ \A c \in 1 .. d - 1 : c \in Cmds
    BY SizeAssumption DEF Received, Cmds, IInv, TypeOK
  <2>2. \A c \in Cmds : status'[c] >= COSIM_EXECUTING <=> status[c] >= COSIM_EXECUTING
    BY <1>1 DEF Statuses
  <2>3. Received' = Received
    BY DEF Received
  <2>4. QED BY <2>1, <2>2, <2>3 DEF TInv, UnitOrder, UnitOf, TypeOf
<1>7. QED BY <1>1, <1>2, <1>3, <1>4, <1>5, <1>6

\* A step that leaves the commands, the queues and the lists alone keeps TInv.
LEMMA TInvUnchanged ==
    ASSUME TInv, UNCHANGED <<cmdVars, queueVars, exeVars, dmaVars, acc_cmds>>
    PROVE  TInv'
<1>1. /\ UNCHANGED <<cmds, status, parents, inst_queue, queue, contlr, rob, preload_cmds>>
      /\ UNCHANGED <<mm_cmds, acc_cmds, fence_active, fence_cmd, load_dma, store_dma>>
      /\ UNCHANGED <<inflight, early, Last>>
  BY DEF cmdVars, queueVars, exeVars, dmaVars, Last
<1>2. KnownStatus' /\ QueuesExact' /\ ParentsLive'
  BY <1>1 DEF TInv, KnownStatus, QueuesExact, ParentsLive, UnitOf, TypeOf
<1>3. ListsExact'
  BY <1>1 DEF TInv, ListsExact, Running, OpOf
<1>4. OthersExact'
  BY <1>1 DEF TInv, OthersExact, Running, OpOf, UnitOf, TypeOf, AtOnce
<1>5. UnitOrder' /\ FenceLast' /\ FenceDone'
  BY <1>1 DEF TInv, UnitOrder, FenceLast, FenceDone, Received, UnitOf, TypeOf, OpOf
<1>6. DmaThrottle'
  BY <1>1 DEF TInv, DmaThrottle, UnitOf, TypeOf
<1>7. QED BY <1>2, <1>3, <1>4, <1>5, <1>6 DEF TInv

LEMMA InitTInv == Init => TInv
<1> SUFFICES ASSUME Init PROVE TInv
  OBVIOUS
<1> USE DEF Init
<1>1. /\ Len(cmds) = 0 /\ Len(inst_queue) = 0 /\ Len(rob) = 0 /\ Last = 0
      /\ inflight = {} /\ early = {}
      /\ Len(preload_cmds) = 0 /\ Len(mm_cmds) = 0 /\ Len(acc_cmds) = 0
  BY DEF Last, DMA!Init
<1>2. \A c \in Cmds : c > 0 /\ status[c] = COSIM_INIT /\ parents[c] = {} /\ ~(c <= 0)
  BY DEF Cmds
<1>3. KnownStatus /\ QueuesExact /\ ParentsLive /\ FenceLast /\ FenceDone
  BY <1>1, <1>2 DEF KnownStatus, QueuesExact, ParentsLive, FenceLast, FenceDone
<1>4. ListsExact
  BY <1>1, <1>2 DEF ListsExact, Sorted, Elems, Running
<1>5. OthersExact
  BY <1>1, <1>2 DEF OthersExact, Running
<1>6. UnitOrder
  BY <1>1 DEF UnitOrder, Received
<1>7. DmaThrottle
  <2>1. /\ {c \in inflight \ early : UnitOf(c) = "load"} = {}
        /\ {c \in inflight \ early : UnitOf(c) = "store"} = {}
    BY <1>1
  <2>2. /\ Cardinality({c \in inflight \ early : UnitOf(c) = "load"}) = 0
        /\ Cardinality({c \in inflight \ early : UnitOf(c) = "store"}) = 0
    BY <2>1, FS_EmptySet, Zenon
  <2>3. MaxDma \in Nat /\ load_dma = 0 /\ store_dma = 0
    BY SizeAssumption
  <2>4. QED BY <2>2, <2>3 DEF DmaThrottle
<1>8. QED BY <1>3, <1>4, <1>5, <1>6, <1>7 DEF TInv

LEMMA try_complete_fenceTInv == IInv /\ TInv /\ try_complete_fence => TInv'
<1> SUFFICES ASSUME IInv, TInv, try_complete_fence PROVE TInv'
  OBVIOUS
<1>1. CASE fence_cmd # 0 /\ can_release_fence
  <2>1. /\ status' = SetStatus({fence_cmd}, COSIM_FINISHED) /\ fence_cmd' = 0
        /\ fence_active' = FALSE
        /\ UNCHANGED <<cmds, parents, inst_queue, queue, contlr, rob, preload_cmds, mm_cmds>>
        /\ UNCHANGED <<acc_cmds, load_dma, store_dma, inflight, early>>
    BY <1>1 DEF try_complete_fence, queueVars, dmaVars, arrayVars
  <2>2. fence_cmd \in Cmds /\ fence_cmd > 0
    BY <1>1 DEF IInv, TypeOK, Cmds
  <2>3. Running(fence_cmd) /\ OpOf(fence_cmd) = "FENCE"
    BY <2>2 DEF TInv, OthersExact
  <2>4. fence_cmd = Last
    BY <2>2, <2>3 DEF TInv, FenceLast, Running
  <2>5. /\ KnownStatus' /\ QueuesExact' /\ UnitOrder' /\ Last' = Last
        /\ \A c \in Cmds : status'[c] = IF c = fence_cmd THEN COSIM_FINISHED ELSE status[c]
        /\ \A c \in Cmds : Running(c)' <=> Running(c) /\ c # fence_cmd
    BY <2>1, <2>2, <2>3, FinishTracked DEF Running
  <2>6. /\ \A c \in Cmds : status[c] \in Int
        /\ \A c \in Cmds : OpOf(c)' = OpOf(c) /\ UnitOf(c)' = UnitOf(c) /\ cmds'[c] = cmds[c]
    <3>1. \A c \in Cmds : status[c] \in Int
      BY Typed
    <3>2. \A c \in Cmds : OpOf(c)' = OpOf(c) /\ UnitOf(c)' = UnitOf(c) /\ cmds'[c] = cmds[c]
      BY <2>1 DEF OpOf, UnitOf, TypeOf
    <3>3. QED BY <3>1, <3>2
  <2>7. ListsExact'
    BY <2>1, <2>2, <2>3, <2>5, <2>6 DEF TInv, ListsExact, MMOps
  <2>8. OthersExact'
    <3>1. UnitOf(fence_cmd) = "exe"
      <4>1. fence_cmd \in 1 .. Len(cmds)
        BY <2>2, <2>3 DEF Running, Cmds, Last, IInv, TypeOK
      <4>2. QED BY <2>3, <4>1, UnitOps DEF IInv
    <3>2. \A c \in Cmds : c \in (inflight \ early)' <=> Running(c)' /\ UnitOf(c)' # "exe"
      BY <2>1, <2>5, <2>6, <3>1 DEF TInv, OthersExact
    <3>3. \A c \in Cmds : c = fence_cmd' <=> Running(c)' /\ OpOf(c)' = "FENCE"
      BY <2>1, <2>5, <2>6 DEF TInv, OthersExact, Cmds
    <3>4. \A c \in Cmds : Running(c)' => ~AtOnce(c)'
      BY <2>5, <2>6 DEF TInv, OthersExact, AtOnce
    <3>5. \A c \in early' : status'[c] >= COSIM_FINISHED
      <4>1. \A c \in early' : c \in Cmds /\ status[c] >= COSIM_FINISHED
        BY <2>1 DEF TInv, OthersExact, IInv, TypeOK
      <4>2. QED BY <2>5, <4>1
    <3>6. QED BY <3>2, <3>3, <3>4, <3>5 DEF OthersExact
  <2>9. FenceLast'
    BY <2>4, <2>5, <2>6 DEF TInv, FenceLast
  <2>10. ASSUME NEW c \in Cmds, c < fence_cmd
         PROVE  status[c] >= COSIM_FINISHED /\ c \notin inflight
    <3>1. /\ inflight = {} /\ preload_cmds = <<>> /\ mm_cmds = <<>>
          /\ \A u \in Units : queue[u] = <<>> /\ contlr[u] = <<>>
      BY <1>1 DEF can_release_fence
    <3>2. c <= Last /\ c <= Len(cmds) /\ c \in 1 .. Len(cmds)
      BY <2>2, <2>4, <2>10 DEF Cmds, Last, IInv, TypeOK
    <3>3. UnitOf(c) \in Units /\ (UnitOf(c) = "exe" => OpOf(c) = "FENCE" \/ OpOf(c) = "PRELOAD"
                                                        \/ OpOf(c) \in MMOps \/ AtOnce(c))
      BY <3>2, UnitOps DEF IInv, MMOps, AtOnce
    <3>4. status[c] >= COSIM_WAITING /\ status[c] # COSIM_WAITING /\ status[c] # COSIM_ISSUED
      BY <3>1, <3>2, <3>3 DEF TInv, KnownStatus, QueuesExact, Elems
    <3>5. ~Running(c)
      <4>1. c \notin Elems(preload_cmds) /\ c \notin Elems(mm_cmds) /\ c # fence_cmd
        BY <2>2, <2>10, <3>1 DEF Elems, Cmds
      <4>2. QED BY <3>1, <3>3, <4>1 DEF TInv, ListsExact, OthersExact
    <3>6. QED BY <2>6, <3>1, <3>2, <3>4, <3>5 DEF Running
  <2>11. FenceDone'
    BY <2>1, <2>4, <2>5, <2>6, <2>10 DEF TInv, FenceDone
  <2>12. ParentsLive'
    BY <2>1, <2>5 DEF TInv, ParentsLive
  <2>13. DmaThrottle'
    BY <2>1 DEF TInv, DmaThrottle, UnitOf, TypeOf
  <2>14. QED BY <2>5, <2>7, <2>8, <2>9, <2>11, <2>12, <2>13 DEF TInv
<1>2. CASE ~(fence_cmd # 0 /\ can_release_fence)
  BY <1>2, TInvUnchanged DEF try_complete_fence, cmdVars, exeVars, dmaVars, arrayVars
<1>3. QED BY <1>1, <1>2

\* Cardinalities of sets of commands.
LEMMA CardRemove ==
    ASSUME NEW A \in SUBSET Cmds, NEW B \in SUBSET A
    PROVE  Cardinality(A \ B) = Cardinality(A) - Cardinality(B)
<1>1. IsFiniteSet(A) /\ IsFiniteSet(B) /\ A \cap B = B
  BY CmdsFinite
<1>2. QED BY <1>1, FS_Difference

LEMMA CardAdd ==
    ASSUME NEW A \in SUBSET Cmds, NEW B \in SUBSET Cmds, A \cap B = {}
    PROVE  Cardinality(A \cup B) = Cardinality(A) + Cardinality(B)
<1>1. /\ IsFiniteSet(A) /\ IsFiniteSet(B) /\ Cardinality(A) \in Int
      /\ Cardinality(B) \in Int /\ Cardinality({}) = 0
  BY CmdsFinite, FS_EmptySet
<1>2. QED BY <1>1, FS_Union

\* While the program stays as it is, so do its units and operations.
LEMMA SameCommands ==
    ASSUME UNCHANGED cmds
    PROVE  \A c \in Cmds : /\ OpOf(c)' = OpOf(c) /\ UnitOf(c)' = UnitOf(c)
                           /\ AtOnce(c)' = AtOnce(c) /\ cmds'[c] = cmds[c]
BY DEF OpOf, UnitOf, TypeOf, AtOnce

LEMMA DmaCycleTInv ==
    ASSUME IInv, TInv, NEW done \in SUBSET inflight, NEW drained \in SUBSET inflight,
           DmaCycle(done, drained)
    PROVE  TInv'
<1>1. /\ done \subseteq inflight \ early /\ drained \subseteq early \cup done
      /\ inflight' = inflight \ drained /\ early' = (early \cup done) \ drained
  BY DEF DmaCycle, DMA!Cycle
<1>2. /\ status' = SetStatus(done, COSIM_FINISHED)
      /\ UNCHANGED <<cmds, parents, inst_queue, queue, contlr, rob, preload_cmds, mm_cmds>>
      /\ UNCHANGED <<acc_cmds, fence_active, fence_cmd>>
  BY DEF DmaCycle, queueVars, arrayVars
<1>3. /\ inflight \subseteq Cmds /\ early \subseteq Cmds /\ done \subseteq Cmds
      /\ \A c \in Cmds : status[c] \in Int
  BY Typed
<1>4. \A c \in done : Running(c) /\ UnitOf(c) # "exe"
  BY <1>1, <1>3 DEF TInv, OthersExact
<1>5. /\ KnownStatus' /\ QueuesExact' /\ UnitOrder' /\ Last' = Last
      /\ \A c \in Cmds : status'[c] = IF c \in done THEN COSIM_FINISHED ELSE status[c]
      /\ \A c \in Cmds : Running(c)' <=> Running(c) /\ c \notin done
  <2>1. done \in SUBSET Cmds /\ \A c \in done : status[c] >= COSIM_EXECUTING
    BY <1>3, <1>4 DEF Running
  <2>2. QED BY <1>2, <2>1, FinishTracked
<1>6. \A c \in Cmds : /\ OpOf(c)' = OpOf(c) /\ UnitOf(c)' = UnitOf(c)
                      /\ AtOnce(c)' = AtOnce(c) /\ cmds'[c] = cmds[c]
  BY <1>2, SameCommands
<1>7. \A c \in done : OpOf(c) \notin {"PRELOAD", "FENCE"} /\ OpOf(c) \notin MMOps
  <2>1. \A c \in done : c \in 1 .. Len(cmds)
    BY <1>3, <1>4 DEF Running, Cmds, Last, IInv, TypeOK
  <2>2. QED BY <1>4, <2>1, UnitOps DEF IInv, MMOps
<1>8. ListsExact'
  BY <1>2, <1>5, <1>6, <1>7 DEF TInv, ListsExact
<1>9. OthersExact'
  <2>1. \A c \in Cmds : c \in (inflight \ early)' <=> Running(c)' /\ UnitOf(c)' # "exe"
    BY <1>1, <1>5, <1>6 DEF TInv, OthersExact
  <2>2. \A c \in Cmds : c = fence_cmd' <=> Running(c)' /\ OpOf(c)' = "FENCE"
    BY <1>2, <1>5, <1>6, <1>7 DEF TInv, OthersExact
  <2>3. \A c \in Cmds : Running(c)' => ~AtOnce(c)'
    BY <1>5, <1>6 DEF TInv, OthersExact
  <2>4. \A c \in early' : status'[c] >= COSIM_FINISHED
    <3>1. \A c \in early' : c \in Cmds /\ (c \in done \/ status[c] >= COSIM_FINISHED)
      BY <1>1, <1>3 DEF TInv, OthersExact
    <3>2. QED BY <1>5, <3>1
  <2>5. QED BY <2>1, <2>2, <2>3, <2>4 DEF OthersExact
<1>10. FenceLast'
  BY <1>2, <1>5, <1>6, <1>7 DEF TInv, FenceLast
<1>11. FenceDone'
  BY <1>1, <1>5, <1>6, <1>7 DEF TInv, FenceDone
<1>12. ParentsLive'
  BY <1>2, <1>5 DEF TInv, ParentsLive
<1>13. DmaThrottle'
  <2> DEFINE pending(u) == {c \in inflight \ early : UnitOf(c) = u}
             over(u) == {c \in done : UnitOf(c) = u}
  <2>1. ASSUME NEW u
        PROVE  /\ pending(u)' = pending(u) \ over(u)
               /\ Cardinality(pending(u)') = Cardinality(pending(u)) - Cardinality(over(u))
               /\ Cardinality(pending(u)) \in Int /\ Cardinality(over(u)) \in Nat
    <3>1. \A c \in Cmds : c \in pending(u)' <=> c \in pending(u) \ over(u)
      BY <1>1, <1>3, <1>6
    <3>2. pending(u) \in SUBSET Cmds /\ over(u) \in SUBSET pending(u) /\ pending(u)' \in SUBSET Cmds
      BY <1>1, <1>3
    <3> HIDE DEF pending, over
    <3>3. pending(u)' = pending(u) \ over(u)
      BY <3>1, <3>2
    <3>4. Cardinality(pending(u) \ over(u)) = Cardinality(pending(u)) - Cardinality(over(u))
      BY <3>2, CardRemove
    <3>5. Cardinality(pending(u)) \in Int /\ Cardinality(over(u)) \in Nat
      BY <3>2, CmdsFinite, FS_CardinalityType
    <3>6. QED BY <3>3, <3>4, <3>5
  <2>2. /\ load_dma' = load_dma - Cardinality(over("load"))
        /\ store_dma' = store_dma - Cardinality(over("store"))
    BY DEF DmaCycle
  <2>3. /\ load_dma = Cardinality(pending("load")) /\ store_dma = Cardinality(pending("store"))
        /\ load_dma <= MaxDma /\ store_dma <= MaxDma /\ MaxDma \in Nat
    BY SizeAssumption DEF TInv, DmaThrottle
  <2>4. /\ load_dma' = Cardinality(pending("load")') /\ store_dma' = Cardinality(pending("store")')
        /\ load_dma' <= MaxDma /\ store_dma' <= MaxDma
    <3> HIDE DEF pending, over
    <3>1. QED BY <2>1, <2>2, <2>3
  <2>5. QED BY <2>4 DEF DmaThrottle
<1>14. QED BY <1>5, <1>8, <1>9, <1>10, <1>11, <1>12, <1>13 DEF TInv

LEMMA commitTInv == IInv /\ TInv /\ commit => TInv'
<1> SUFFICES ASSUME IInv, TInv, commit PROVE TInv'
  OBVIOUS
<1>1. PICK n \in 0 .. Len(rob) :
        /\ \A i \in 1 .. n : status[rob[i]] = COSIM_FINISHED
        /\ status' = SetStatus({rob[i] : i \in 1 .. n}, COSIM_COMMITTED)
        /\ parents' = [c \in Cmds |-> parents[c] \ {rob[i] : i \in 1 .. n}]
        /\ rob' = SubSeq(rob, n + 1, Len(rob))
  BY DEF commit
<1> DEFINE retired == {rob[i] : i \in 1 .. n}
<1>2. /\ rob \in Seq(Cmds) /\ Len(rob) \in Nat /\ Last \in Int /\ retired \subseteq Cmds
      /\ \A c \in Cmds : status[c] \in Int /\ parents[c] \subseteq Cmds
      /\ early \subseteq Cmds
  <2>1. rob \in Seq(Cmds) /\ Last \in Int
    BY DEF IInv, TypeOK, Last
  <2>2. retired \subseteq Cmds
    BY <2>1
  <2>3. QED BY <2>1, <2>2, Typed
<1>3. Len(rob') = Len(rob) - n
  BY <1>1, <1>2
<1>4. /\ UNCHANGED <<cmds, inst_queue, queue, contlr, preload_cmds, mm_cmds, acc_cmds>>
      /\ UNCHANGED <<fence_active, fence_cmd, inflight, early, load_dma, store_dma>>
  BY DEF commit, exeVars, dmaVars, arrayVars
<1>5. \A c \in retired : c \in Cmds /\ status[c] = COSIM_FINISHED
  BY <1>1, <1>2
<1>6. \A c \in Cmds : Last - Len(rob) < c /\ c <= Last - Len(rob') => c \in retired
  <2> SUFFICES ASSUME NEW c \in Cmds, Last - Len(rob) < c, c <= Last - Len(rob')
               PROVE  c \in retired
    OBVIOUS
  <2>1. c - (Last - Len(rob)) \in 1 .. n /\ 1 .. n \subseteq 1 .. Len(rob)
    BY <1>2, <1>3 DEF Cmds
  <2>2. rob[c - (Last - Len(rob))] = c
    BY <1>2, <2>1 DEF IInv, ProgramOrder, Cmds
  <2>3. QED BY <2>1, <2>2
<1>7. \A c \in Cmds : parents'[c] = parents[c] \ retired
  BY <1>1
<1>8. /\ KnownStatus' /\ QueuesExact' /\ UnitOrder' /\ Last' = Last
      /\ \A c \in Cmds : status'[c] = IF c \in retired THEN COSIM_COMMITTED ELSE status[c]
      /\ \A c \in Cmds : Running(c)' <=> Running(c)
  <2>1. status' = SetStatus(retired, COSIM_COMMITTED)
    BY <1>1
  <2> HIDE DEF retired
  <2>2. retired \in SUBSET Cmds /\ \A c \in retired : status[c] >= COSIM_EXECUTING
    BY <1>2, <1>5
  <2>3. /\ KnownStatus' /\ QueuesExact' /\ UnitOrder' /\ Last' = Last
        /\ \A c \in Cmds : status'[c] = IF c \in retired THEN COSIM_COMMITTED ELSE status[c]
        /\ \A c \in Cmds : Running(c)' <=> Running(c) /\ c \notin retired
    BY <1>4, <2>1, <2>2, FinishTracked
  <2>4. QED BY <1>5, <2>3 DEF Running
<1> HIDE DEF retired
<1>9. \A c \in Cmds : /\ OpOf(c)' = OpOf(c) /\ UnitOf(c)' = UnitOf(c)
                      /\ AtOnce(c)' = AtOnce(c) /\ cmds'[c] = cmds[c]
  BY <1>4, SameCommands
<1>10. \A c \in Cmds : status'[c] >= COSIM_FINISHED <=> status[c] >= COSIM_FINISHED
  BY <1>5, <1>8
<1>11. ListsExact'
  BY <1>4, <1>8, <1>9 DEF TInv, ListsExact
<1>12. OthersExact'
  <2>1. \A c \in Cmds : c \in (inflight \ early)' <=> Running(c)' /\ UnitOf(c)' # "exe"
    BY <1>4, <1>8, <1>9 DEF TInv, OthersExact
  <2>2. \A c \in Cmds : /\ c = fence_cmd' <=> Running(c)' /\ OpOf(c)' = "FENCE"
                        /\ Running(c)' => ~AtOnce(c)'
    BY <1>4, <1>8, <1>9 DEF TInv, OthersExact
  <2>3. \A c \in early' : status'[c] >= COSIM_FINISHED
    BY <1>2, <1>4, <1>10 DEF TInv, OthersExact
  <2>4. QED BY <2>1, <2>2, <2>3 DEF OthersExact
<1>13. FenceLast'
  BY <1>2, <1>4, <1>8, <1>9, <1>10 DEF TInv, FenceLast
<1>14. FenceDone'
  BY <1>2, <1>4, <1>8, <1>9, <1>10 DEF TInv, FenceDone
<1>15. ParentsLive'
  <2> SUFFICES ASSUME NEW d \in Cmds, NEW p \in parents'[d]
               PROVE  Last' - Len(rob') < p /\ p < d /\ d <= Last'
    BY DEF ParentsLive
  <2>1. /\ p \in parents[d] /\ p \notin retired /\ p \in Cmds
        /\ Last - Len(rob) < p /\ p < d /\ d <= Last
    BY <1>2, <1>7 DEF TInv, ParentsLive
  <2>2. ~(p <= Last - Len(rob')) /\ p \in Int
    BY <1>6, <2>1 DEF Cmds
  <2>3. Len(rob') \in Int
    BY <1>2, <1>3
  <2>4. QED BY <1>2, <1>8, <2>1, <2>2, <2>3
<1>16. DmaThrottle'
  BY <1>4 DEF TInv, DmaThrottle, UnitOf, TypeOf
<1>17. QED BY <1>8, <1>11, <1>12, <1>13, <1>14, <1>15, <1>16 DEF TInv

\* The multiply that completes is the tracked front, and it leaves both
\* executing_mm_cmds and the accumulation buffer.
LEMMA CompleteMM ==
    ASSUME IInv, TInv, Complete
    PROVE  /\ MMDone \subseteq Elems(mm_cmds)
           /\ Sorted(mm_cmds') /\ Elems(mm_cmds') = Elems(mm_cmds) \ MMDone
           /\ Sorted(acc_cmds') /\ Elems(acc_cmds') = Elems(acc_cmds) \ MMDone
<1>1. /\ mm_cmds \in Seq(Cmds) /\ acc_cmds \in Seq(Cmds)
      /\ Sorted(mm_cmds) /\ Sorted(acc_cmds) /\ (accumulated => acc_cmds # <<>>)
  BY DEF IInv, TypeOK, ReportedStarted, TInv, ListsExact
<1>2. /\ Elems(acc_cmds) \subseteq Elems(mm_cmds)
      /\ \A c \in Elems(mm_cmds) : c \in Elems(acc_cmds) <=> ~cmds[c].stay
      /\ \A c \in Elems(mm_cmds) : Dataflow = "WS" => ~cmds[c].stay
  <2>1. Elems(mm_cmds) \subseteq Cmds /\ Elems(acc_cmds) \subseteq Cmds
    BY <1>1 DEF Elems
  <2>2. \A c \in Elems(mm_cmds) : c \in 1 .. Len(cmds)
    BY <2>1 DEF TInv, ListsExact, Running, Cmds, Last, IInv, TypeOK
  <2>3. \A c \in Elems(mm_cmds) : Dataflow = "WS" => ~cmds[c].stay
    BY <2>2, UnitOps DEF IInv
  <2>4. QED BY <2>1, <2>3 DEF TInv, ListsExact
<1>3. accumulated => /\ Head(acc_cmds) \in Elems(acc_cmds) /\ mm_cmds # <<>>
                     /\ Dataflow = "WS" => Head(acc_cmds) = Head(mm_cmds)
  <2> SUFFICES ASSUME accumulated
               PROVE  /\ Head(acc_cmds) \in Elems(acc_cmds) /\ mm_cmds # <<>>
                      /\ Dataflow = "WS" => Head(acc_cmds) = Head(mm_cmds)
    OBVIOUS
  <2>1. /\ Head(acc_cmds) \in Elems(acc_cmds) /\ Head(acc_cmds) \in Cmds
        /\ \A c \in Elems(acc_cmds) : Head(acc_cmds) <= c
    BY <1>1, TailElems
  <2>2. mm_cmds # <<>>
    BY <1>2, <2>1 DEF Elems
  <2>3. /\ Head(mm_cmds) \in Elems(mm_cmds) /\ Head(mm_cmds) \in Cmds
        /\ \A c \in Elems(mm_cmds) : Head(mm_cmds) <= c
    BY <1>1, <2>2, TailElems
  <2>4. ASSUME Dataflow = "WS" PROVE Head(acc_cmds) = Head(mm_cmds)
    <3>1. Head(acc_cmds) \in Elems(mm_cmds) /\ Head(mm_cmds) \in Elems(acc_cmds)
      BY <1>2, <2>1, <2>3, <2>4
    <3>2. Head(acc_cmds) <= Head(mm_cmds) /\ Head(mm_cmds) <= Head(acc_cmds)
      BY <2>1, <2>3, <3>1
    <3>3. QED BY <2>1, <2>3, <3>2 DEF Cmds
  <2>5. QED BY <2>1, <2>2, <2>4
<1>4. /\ mm_cmds' = RemoveTracked(MMDone)
      /\ acc_cmds' = IF accumulated /\ Head(acc_cmds) \in MMDone THEN Tail(acc_cmds) ELSE acc_cmds
  BY DEF Complete
<1>5. CASE MMDone = {}
  <2>1. UNCHANGED <<mm_cmds, acc_cmds>>
    BY <1>4, <1>5 DEF RemoveTracked
  <2>2. QED BY <1>1, <1>5, <2>1
<1>6. CASE MMDone # {}
  <2> DEFINE h == Head(mm_cmds)
  <2>1. /\ mm_cmds # <<>> /\ MMDone = {h}
        /\ cmds[h].stay => h \notin Elems(acc_cmds)
        /\ ~cmds[h].stay => accumulated /\ Head(acc_cmds) = h
    <3>1. CASE Dataflow = "WS"
      <4>1. accumulated /\ MMDone = {Head(acc_cmds)}
        BY <1>6, <3>1 DEF MMDone, MMDoneWS
      <4>2. mm_cmds # <<>> /\ Head(acc_cmds) = h /\ h \in Elems(mm_cmds)
        BY <1>2, <1>3, <3>1, <4>1
      <4>3. QED BY <1>2, <3>1, <4>1, <4>2
    <3>2. CASE Dataflow # "WS"
      <4>1. mm_cmds # <<>> /\ MMDone = {h}
            /\ (~cmds[h].stay => accumulated /\ Head(acc_cmds) = h)
        BY <1>6, <3>2 DEF MMDone, MMDoneOS
      <4>2. h \in Elems(mm_cmds)
        BY <1>1, <4>1, TailElems
      <4>3. QED BY <1>2, <4>1, <4>2
    <3>3. QED BY <3>1, <3>2
  <2>2. mm_cmds' = Tail(mm_cmds)
    BY <1>4, <2>1 DEF RemoveTracked
  <2>3. /\ h \in Elems(mm_cmds) /\ Sorted(Tail(mm_cmds))
        /\ Elems(Tail(mm_cmds)) = Elems(mm_cmds) \ {h}
    BY <1>1, <2>1, TailElems
  <2> HIDE DEF h
  <2>4. CASE cmds[h].stay
    <3>1. acc_cmds' = acc_cmds /\ h \notin Elems(acc_cmds)
      BY <1>3, <1>4, <2>1, <2>4
    <3>2. QED BY <1>1, <2>1, <2>2, <2>3, <3>1
  <2>5. CASE ~cmds[h].stay
    <3>1. acc_cmds' = Tail(acc_cmds) /\ Head(acc_cmds) = h /\ acc_cmds # <<>>
      BY <1>1, <1>4, <2>1, <2>5
    <3>2. Sorted(Tail(acc_cmds)) /\ Elems(Tail(acc_cmds)) = Elems(acc_cmds) \ {h}
      BY <1>1, <3>1, TailElems
    <3>3. QED BY <2>1, <2>2, <2>3, <3>1, <3>2
  <2>6. QED BY <2>4, <2>5
<1>7. QED BY <1>5, <1>6

LEMMA CompleteTInv == IInv /\ TInv /\ Complete => TInv'
<1> SUFFICES ASSUME IInv, TInv, Complete PROVE TInv'
  OBVIOUS
<1> DEFINE done == PreloadDone \cup MMDone
<1>1. /\ status' = SetStatus(done, COSIM_FINISHED)
      /\ UNCHANGED <<cmds, parents, inst_queue, queue, contlr, rob, fence_active, fence_cmd>>
      /\ UNCHANGED <<load_dma, store_dma, inflight, early>>
  BY DEF Complete, queueVars, dmaVars
<1>2. /\ PreloadDone \subseteq Elems(preload_cmds) /\ Sorted(preload_cmds')
      /\ Elems(preload_cmds') = Elems(preload_cmds) \ PreloadDone
  <2>1. preload_cmds \in Seq(Cmds) /\ Sorted(preload_cmds)
    BY DEF IInv, TypeOK, TInv, ListsExact
  <2>2. preload_cmds' = IF PreloadDone # {} THEN Tail(preload_cmds) ELSE preload_cmds
    BY DEF Complete
  <2>3. CASE PreloadDone = {}
    BY <2>1, <2>2, <2>3
  <2>4. CASE PreloadDone # {}
    <3>1. preload_cmds # <<>> /\ PreloadDone = {Head(preload_cmds)}
      BY <2>4 DEF PreloadDone
    <3>2. /\ Head(preload_cmds) \in Elems(preload_cmds) /\ Sorted(Tail(preload_cmds))
          /\ Elems(Tail(preload_cmds)) = Elems(preload_cmds) \ {Head(preload_cmds)}
      BY <2>1, <3>1, TailElems
    <3>3. QED BY <2>2, <3>1, <3>2
  <2>5. QED BY <2>3, <2>4
<1>3. /\ MMDone \subseteq Elems(mm_cmds)
      /\ Sorted(mm_cmds') /\ Elems(mm_cmds') = Elems(mm_cmds) \ MMDone
      /\ Sorted(acc_cmds') /\ Elems(acc_cmds') = Elems(acc_cmds) \ MMDone
  BY CompleteMM
<1>4. Elems(preload_cmds) \subseteq Cmds /\ Elems(mm_cmds) \subseteq Cmds
  BY DEF Elems, IInv, TypeOK
<1>5. /\ \A c \in PreloadDone : c \in Cmds /\ Running(c) /\ OpOf(c) = "PRELOAD"
      /\ \A c \in MMDone : c \in Cmds /\ Running(c) /\ OpOf(c) \in MMOps
  BY <1>2, <1>3, <1>4 DEF TInv, ListsExact
<1> HIDE DEF done
<1>6. done \subseteq Cmds /\ \A c \in done : c \in Cmds /\ Running(c) /\ OpOf(c) # "FENCE"
  BY <1>5 DEF done, MMOps
<1>7. /\ KnownStatus' /\ QueuesExact' /\ UnitOrder' /\ Last' = Last
      /\ \A c \in Cmds : status'[c] = IF c \in done THEN COSIM_FINISHED ELSE status[c]
      /\ \A c \in Cmds : Running(c)' <=> Running(c) /\ c \notin done
  <2>1. done \in SUBSET Cmds /\ \A c \in done : status[c] >= COSIM_EXECUTING
    BY <1>6 DEF Running
  <2>2. QED BY <1>1, <2>1, FinishTracked
<1>8. /\ \A c \in Cmds : /\ OpOf(c)' = OpOf(c) /\ UnitOf(c)' = UnitOf(c)
                         /\ AtOnce(c)' = AtOnce(c) /\ cmds'[c] = cmds[c]
      /\ \A c \in Cmds : status[c] \in Int
      /\ early \subseteq Cmds
  BY <1>1, SameCommands, Typed
<1>9. ListsExact'
  <2>1. /\ \A c \in Cmds : OpOf(c) = "PRELOAD" => (c \in done <=> c \in PreloadDone)
        /\ \A c \in Cmds : OpOf(c) \in MMOps => (c \in done <=> c \in MMDone)
    BY <1>5 DEF done, MMOps
  <2>2. \A c \in Cmds : c \in Elems(preload_cmds') <=> Running(c)' /\ OpOf(c)' = "PRELOAD"
    BY <1>2, <1>7, <1>8, <2>1 DEF TInv, ListsExact
  <2>3. \A c \in Cmds : c \in Elems(mm_cmds') <=> Running(c)' /\ OpOf(c)' \in MMOps
    BY <1>3, <1>7, <1>8, <2>1 DEF TInv, ListsExact
  <2>4. \A c \in Cmds : c \in Elems(acc_cmds') <=>
                            Running(c)' /\ OpOf(c)' \in MMOps /\ ~cmds'[c].stay
    BY <1>3, <1>7, <1>8, <2>1 DEF TInv, ListsExact
  <2>5. QED BY <1>2, <1>3, <2>2, <2>3, <2>4 DEF ListsExact, Elems, Sorted
<1>10. OthersExact'
  <2>1. \A c \in done : UnitOf(c) = "exe"
    <3>1. \A c \in done : c \in 1 .. Len(cmds)
      BY <1>6, DispatchedReceived DEF Running
    <3>2. \A c \in done : OpOf(c) = "PRELOAD" \/ OpOf(c) \in MMOps
      BY <1>5 DEF done
    <3>3. QED BY <3>1, <3>2, UnitOps DEF IInv, MMOps
  <2>2. \A c \in Cmds : c \in (inflight \ early)' <=> Running(c)' /\ UnitOf(c)' # "exe"
    BY <1>1, <1>7, <1>8, <2>1 DEF TInv, OthersExact
  <2>3. \A c \in Cmds : /\ c = fence_cmd' <=> Running(c)' /\ OpOf(c)' = "FENCE"
                        /\ Running(c)' => ~AtOnce(c)'
    BY <1>1, <1>6, <1>7, <1>8 DEF TInv, OthersExact
  <2>4. \A c \in early' : status'[c] >= COSIM_FINISHED
    BY <1>1, <1>7, <1>8 DEF TInv, OthersExact
  <2>5. QED BY <2>2, <2>3, <2>4 DEF OthersExact
<1>11. FenceLast'
  BY <1>1, <1>6, <1>7, <1>8 DEF TInv, FenceLast
<1>12. FenceDone'
  BY <1>1, <1>6, <1>7, <1>8 DEF TInv, FenceDone
<1>13. ParentsLive'
  BY <1>1, <1>7 DEF TInv, ParentsLive
<1>14. DmaThrottle'
  BY <1>1 DEF TInv, DmaThrottle, UnitOf, TypeOf
<1>15. QED BY <1>7, <1>9, <1>10, <1>11, <1>12, <1>13, <1>14 DEF TInv

LEMMA receiveTInv ==
    ASSUME IInv, TInv, NEW t \in Templates, receive(t)
    PROVE  TInv'
<1> DEFINE n == Len(cmds) + 1
<1>1. /\ Len(cmds') = n /\ n \in Cmds /\ Len(cmds) \in Nat
      /\ \A c \in 1 .. Len(cmds) : cmds'[c] = cmds[c]
      /\ Len(inst_queue') = Len(inst_queue) + 1 /\ Len(inst_queue) \in Nat
  BY SizeAssumption DEF IInv, TypeOK, receive, Cmds
<1>2. \A c \in Cmds : status'[c] = IF c = n THEN COSIM_WAITING ELSE status[c]
  BY <1>1 DEF receive, IInv, TypeOK
<1>3. Last' = Last /\ Last < n /\ Last \in Int
  BY <1>1, DispatchedReceived DEF Last
<1>4. /\ UNCHANGED <<parents, queue, contlr, rob, preload_cmds, mm_cmds, acc_cmds>>
      /\ UNCHANGED <<fence_active, fence_cmd, inflight, early, load_dma, store_dma>>
  BY DEF receive, exeVars, dmaVars, arrayVars
<1>5. \A c \in Cmds : c <= Last =>
        /\ OpOf(c)' = OpOf(c) /\ UnitOf(c)' = UnitOf(c) /\ AtOnce(c)' = AtOnce(c)
        /\ cmds'[c] = cmds[c] /\ status'[c] = status[c]
  <2>1. \A c \in Cmds : c <= Last => c \in 1 .. Len(cmds) /\ c # n
    BY <1>1, DispatchedReceived
  <2>2. QED BY <1>1, <1>2, <2>1 DEF OpOf, UnitOf, TypeOf, AtOnce
<1>6. \A c \in Cmds : Running(c)' <=> Running(c)
  BY <1>3, <1>5 DEF Running
<1>7. /\ status[n] \in Int /\ status[n] <= COSIM_WAITING
      /\ \A c \in Cmds : status[c] \in Int
      /\ inflight \subseteq Cmds /\ early \subseteq Cmds
  BY <1>1, <1>3, Typed DEF IInv, StatusByAge
<1> HIDE DEF n
<1>8. KnownStatus'
  <2>1. \A c \in Cmds : c <= n => c = n \/ c <= Len(cmds)
    BY <1>1 DEF Cmds, n
  <2>2. QED BY <1>1, <1>2, <2>1 DEF TInv, KnownStatus
<1>9. QueuesExact'
  BY <1>3, <1>4, <1>5 DEF TInv, QueuesExact
<1>10. ListsExact'
  <2>1. \A c \in Cmds : Running(c) => c <= Last
    BY DEF Running
  <2>2. QED BY <1>4, <1>5, <1>6, <2>1 DEF TInv, ListsExact
<1>11. OthersExact'
  <2>1. \A c \in Cmds : Running(c) => c <= Last
    BY DEF Running
  <2>2. \A c \in early' : status'[c] >= COSIM_FINISHED
    BY <1>2, <1>4, <1>7 DEF TInv, OthersExact
  <2>3. QED BY <1>4, <1>5, <1>6, <2>1, <2>2 DEF TInv, OthersExact
<1>12. UnitOrder'
  <2> SUFFICES ASSUME NEW d \in Received', NEW c \in 1 .. d - 1,
                      UnitOf(c)' = UnitOf(d)', status'[d] >= COSIM_EXECUTING
               PROVE  status'[c] >= COSIM_EXECUTING
    BY DEF UnitOrder
  <2>1. d \in Cmds /\ d \in 1 .. n
    BY <1>1, SizeAssumption DEF Received, Cmds
  <2>2. d # n
    BY <1>2, <2>1
  <2>3. /\ d \in Received /\ c \in 1 .. Len(cmds) /\ c \in Cmds /\ c # n
        /\ d \in 1 .. Len(cmds)
    <3>1. n = Len(cmds) + 1 /\ Len(cmds) \in Nat /\ MaxCmds \in Nat /\ n <= MaxCmds
      BY <1>1, SizeAssumption DEF Cmds, n
    <3>2. d \in 1 .. Len(cmds)
      BY <2>1, <2>2, <3>1
    <3>3. c \in 1 .. Len(cmds) /\ c \in 1 .. MaxCmds /\ c # n
      BY <3>1, <3>2
    <3> QED
      BY <3>2, <3>3 DEF Received, Cmds
  <2>4. UnitOf(c) = UnitOf(d)
    BY <1>1, <2>3 DEF UnitOf, TypeOf
  <2>5. QED BY <1>2, <2>1, <2>2, <2>3, <2>4 DEF TInv, UnitOrder
<1>13. FenceLast'
  BY <1>3, <1>4, <1>5 DEF TInv, FenceLast
<1>14. FenceDone'
  <2>1. \A f, c \in Cmds : f <= Last /\ c < f => c <= Last
    BY <1>3 DEF Cmds
  <2>2. QED BY <1>3, <1>4, <1>5, <2>1 DEF TInv, FenceDone
<1>15. ParentsLive'
  BY <1>3, <1>4 DEF TInv, ParentsLive
<1>16. DmaThrottle'
  <2>1. \A c \in inflight \ early : UnitOf(c)' = UnitOf(c)
    <3>1. \A c \in inflight \ early : c \in Cmds /\ Running(c)
      BY <1>7 DEF TInv, OthersExact
    <3>2. QED BY <1>5, <3>1 DEF Running
  <2>2. /\ {c \in inflight \ early : UnitOf(c) = "load"}' = {c \in inflight \ early : UnitOf(c) = "load"}
        /\ {c \in inflight \ early : UnitOf(c) = "store"}' = {c \in inflight \ early : UnitOf(c) = "store"}
    BY <1>4, <2>1
  <2>3. QED BY <1>4, <2>2 DEF TInv, DmaThrottle
<1>17. QED BY <1>8, <1>9, <1>10, <1>11, <1>12, <1>13, <1>14, <1>15, <1>16 DEF TInv

LEMMA dispatchTInv == IInv /\ TInv /\ dispatch => TInv'
<1> SUFFICES ASSUME IInv, TInv, dispatch PROVE TInv'
  OBVIOUS
<1>1. CASE ~(inst_queue # <<>> /\ ~fence_active /\ can_dispatch(Head(inst_queue)))
  BY <1>1, TInvUnchanged DEF dispatch, cmdVars, queueVars, exeVars, dmaVars, arrayVars
<1>2. CASE inst_queue # <<>> /\ ~fence_active /\ can_dispatch(Head(inst_queue))
  <2> DEFINE c == Head(inst_queue)
             w == UnitOf(c)
  <2>1. /\ status' = [status EXCEPT ![c] = COSIM_WAITING]
        /\ parents' = [parents EXCEPT ![c] = build_data_dep(c)]
        /\ rob' = Append(rob, c) /\ inst_queue' = Tail(inst_queue)
        /\ queue' = [queue EXCEPT ![w] = Append(@, c)]
        /\ fence_active' = (OpOf(c) = "FENCE")
        /\ UNCHANGED <<cmds, contlr, preload_cmds, mm_cmds, acc_cmds>>
        /\ UNCHANGED <<fence_cmd, inflight, early, load_dma, store_dma>>
    BY <1>2 DEF dispatch, dmaVars, arrayVars
  <2>2. /\ c \in Cmds /\ c = Last + 1 /\ Last \in Int /\ Len(inst_queue') = Len(inst_queue) - 1
        /\ Len(inst_queue) >= 1 /\ Len(rob') = Len(rob) + 1 /\ Len(rob) \in Nat
        /\ Len(inst_queue) \in Nat
    <3>1. inst_queue \in Seq(Cmds) /\ rob \in Seq(Cmds) /\ Last \in Int
      BY DispatchedReceived DEF IInv, TypeOK
    <3>2. c = inst_queue[1] /\ c \in Cmds /\ 1 \in 1 .. Len(inst_queue)
      BY <1>2, <3>1
    <3>3. c = Last + 1
      BY <3>2 DEF IInv, ProgramOrder
    <3>4. Len(inst_queue') = Len(inst_queue) - 1
      BY <1>2, <2>1, <3>1, HeadTailProperties
    <3>5. Len(rob') = Len(rob) + 1
      BY <2>1, <3>1, <3>2, AppendProperties
    <3>6. QED BY <3>1, <3>2, <3>3, <3>4, <3>5
  <2> HIDE DEF c
  <2>3. Last' = c
    <3>1. Last' = Len(cmds) - Len(inst_queue') /\ Last = Len(cmds) - Len(inst_queue)
      BY <2>1 DEF Last
    <3>2. Len(cmds) \in Nat
      BY DispatchedReceived
    <3>3. QED BY <2>2, <3>1, <3>2
  <2>4. \A d \in Cmds : status'[d] = IF d = c THEN COSIM_WAITING ELSE status[d]
    BY <2>1, <2>2 DEF IInv, TypeOK
  <2>5. /\ \A d \in Cmds : /\ OpOf(d)' = OpOf(d) /\ UnitOf(d)' = UnitOf(d)
                           /\ AtOnce(d)' = AtOnce(d) /\ cmds'[d] = cmds[d]
        /\ \A d \in Cmds : status[d] \in Int /\ d \in Int
        /\ inflight \subseteq Cmds /\ early \subseteq Cmds
        /\ status[c] <= COSIM_WAITING
    BY <2>1, <2>2, SameCommands, Typed DEF IInv, StatusByAge, Cmds
  <2>6. \A d \in Cmds : d <= Last' <=> d <= Last \/ d = c
    BY <2>2, <2>3, <2>5
  <2>7. \A d \in Cmds : Running(d)' <=> Running(d)
    BY <2>2, <2>4, <2>5, <2>6 DEF Running
  <2>8. KnownStatus'
    BY <2>1, <2>4 DEF TInv, KnownStatus
  <2>9. QueuesExact'
    <3> SUFFICES ASSUME NEW u \in Units, NEW d \in Cmds, d <= Last', UnitOf(d)' = u
                 PROVE  /\ status'[d] = COSIM_WAITING => d \in Elems(queue'[u])
                        /\ status'[d] = COSIM_ISSUED => d \in Elems(contlr'[u])
      BY DEF QueuesExact, Elems
    <3>1. queue[u] \in Seq(Cmds) /\ queue \in [Units -> Seq(Cmds)]
      BY DEF IInv, TypeOK
    <3>2. Elems(queue[u]) \subseteq Elems(queue'[u]) /\ (u = w => c \in Elems(queue'[u]))
      <4>1. CASE u # w
        <5>1. queue'[u] = queue[u]
          BY <2>1, <3>1, <4>1
        <5>2. QED BY <4>1, <5>1
      <4>2. CASE u = w
        <5>1. queue'[u] = Append(queue[u], c)
          BY <2>1, <3>1, <4>2
        <5>2. /\ Len(queue'[u]) = Len(queue[u]) + 1 /\ queue'[u][Len(queue[u]) + 1] = c
              /\ \A i \in 1 .. Len(queue[u]) : queue'[u][i] = queue[u][i]
              /\ Len(queue[u]) \in Nat
          BY <2>2, <3>1, <5>1, AppendProperties
        <5>3. 1 .. Len(queue[u]) \subseteq 1 .. Len(queue'[u])
              /\ Len(queue[u]) + 1 \in 1 .. Len(queue'[u])
          BY <5>2
        <5>4. QED BY <5>2, <5>3 DEF Elems
      <4>3. QED BY <4>1, <4>2
    <3>3. CASE d = c
      BY <2>4, <2>5, <3>2, <3>3
    <3>4. CASE d # c
      <4>1. d <= Last /\ UnitOf(d) = u /\ status'[d] = status[d]
        BY <2>4, <2>5, <2>6, <3>4
      <4>2. QED BY <2>1, <3>2, <4>1 DEF TInv, QueuesExact
    <3>5. QED BY <3>3, <3>4
  <2>10. ListsExact'
    BY <2>1, <2>5, <2>7 DEF TInv, ListsExact
  <2>11. OthersExact'
    <3>1. \A d \in early' : status'[d] >= COSIM_FINISHED
      BY <2>1, <2>4, <2>5 DEF TInv, OthersExact
    <3>2. QED BY <2>1, <2>5, <2>7, <3>1 DEF TInv, OthersExact
  <2>12. UnitOrder'
    <3>1. \A d \in Received : d \in Cmds /\ \A p \in 1 .. d - 1 : p \in Cmds
      BY SizeAssumption DEF Received, Cmds, IInv, TypeOK
    <3>2. \A d \in Cmds : status'[d] >= COSIM_EXECUTING <=> status[d] >= COSIM_EXECUTING
      BY <2>4, <2>5
    <3>3. Received' = Received
      BY <2>1 DEF Received
    <3>4. QED BY <2>1, <3>1, <3>2, <3>3 DEF TInv, UnitOrder, UnitOf, TypeOf
  <2>13. FenceLast'
    <3> SUFFICES ASSUME NEW f \in Cmds, f <= Last', OpOf(f)' = "FENCE", status'[f] < COSIM_FINISHED
                 PROVE  fence_active' /\ f = Last'
      BY DEF FenceLast
    <3>1. f = c
      BY <1>2, <2>4, <2>5, <2>6 DEF TInv, FenceLast
    <3>2. QED BY <2>1, <2>3, <2>5, <3>1
  <2>14. FenceDone'
    BY <2>1, <2>2, <2>4, <2>5, <2>6 DEF TInv, FenceDone
  <2>15. ParentsLive'
    <3> SUFFICES ASSUME NEW d \in Cmds, NEW p \in parents'[d]
                 PROVE  Last' - Len(rob') < p /\ p < d /\ d <= Last'
      BY DEF ParentsLive
    <3>1. Last' - Len(rob') = Last - Len(rob)
      BY <2>2, <2>3
    <3>2. CASE d = c
      <4>1. parents'[d] = build_data_dep(c)
        BY <2>1, <2>2, <3>2 DEF IInv, TypeOK
      <4>2. PICK i \in 1 .. Len(rob) : p = rob[i]
        BY <4>1 DEF build_data_dep, Elems
      <4>3. p = Last - Len(rob) + i
        BY <4>2 DEF IInv, ProgramOrder
      <4>4. QED BY <2>2, <2>3, <3>1, <3>2, <4>3
    <3>3. CASE d # c
      <4>1. p \in parents[d] /\ p \in Cmds
        BY <2>1, <3>3, Typed DEF IInv, TypeOK
      <4>2. Last - Len(rob) < p /\ p < d /\ d <= Last
        BY <4>1 DEF TInv, ParentsLive
      <4>3. QED BY <2>6, <3>1, <4>2
    <3>4. QED BY <3>2, <3>3
  <2>16. DmaThrottle'
    BY <2>1 DEF TInv, DmaThrottle, UnitOf, TypeOf
  <2>17. QED BY <2>8, <2>9, <2>10, <2>11, <2>12, <2>13, <2>14, <2>15, <2>16 DEF TInv
<1>3. QED BY <1>1, <1>2

\* What IInv says of the queues and controllers, in terms of their members.
LEMMA QueueMembers ==
    ASSUME IInv, NEW u \in Units
    PROVE  /\ queue[u] \in Seq(Cmds) /\ Sorted(queue[u])
           /\ contlr[u] \in Seq(Cmds) /\ Sorted(contlr[u])
           /\ \A c \in Elems(queue[u]) :
                c \in Cmds /\ c <= Last /\ UnitOf(c) = u /\ status[c] = COSIM_WAITING
           /\ \A c \in Elems(contlr[u]) :
                c \in Cmds /\ c <= Last /\ UnitOf(c) = u /\ status[c] = COSIM_ISSUED
           /\ \A c \in Elems(contlr[u]), d \in Elems(queue[u]) : c < d
<1>1. queue[u] \in Seq(Cmds) /\ contlr[u] \in Seq(Cmds)
  BY DEF IInv, TypeOK
<1>2. Holds(queue[u], u, COSIM_WAITING) /\ Holds(contlr[u], u, COSIM_ISSUED)
  BY DEF IInv, QueuesHold, ContlrsHold
<1>3. \A c \in Elems(queue[u]) :
        c \in Cmds /\ c <= Last /\ UnitOf(c) = u /\ status[c] = COSIM_WAITING
  BY <1>1, <1>2 DEF Holds, Elems
<1>4. \A c \in Elems(contlr[u]) :
        c \in Cmds /\ c <= Last /\ UnitOf(c) = u /\ status[c] = COSIM_ISSUED
  BY <1>1, <1>2 DEF Holds, Elems
<1>5. \A c \in Elems(contlr[u]), d \in Elems(queue[u]) : c < d
  BY DEF IInv, UnitFifo, Elems
<1>6. QED BY <1>1, <1>2, <1>3, <1>4, <1>5 DEF Holds, Sorted

LEMMA issueTInv == IInv /\ TInv /\ issue => TInv'
<1> SUFFICES ASSUME IInv, TInv, issue PROVE TInv'
  OBVIOUS
<1> DEFINE heads == {Head(queue[u]) : u \in {v \in Units : Issuing(v)}}
<1>1. ASSUME NEW u \in Units, Issuing(u)
      PROVE  /\ Head(queue[u]) \in Elems(queue[u]) /\ Head(queue[u]) \in Cmds
             /\ Head(queue[u]) <= Last /\ UnitOf(Head(queue[u])) = u
             /\ status[Head(queue[u])] = COSIM_WAITING
             /\ Elems(Tail(queue[u])) = Elems(queue[u]) \ {Head(queue[u])}
             /\ Elems(Append(contlr[u], Head(queue[u]))) = Elems(contlr[u]) \cup {Head(queue[u])}
  <2>1. queue[u] # <<>>
    BY <1>1 DEF Issuing
  <2>2. /\ Head(queue[u]) \in Elems(queue[u]) /\ Head(queue[u]) \in Cmds
        /\ Elems(Tail(queue[u])) = Elems(queue[u]) \ {Head(queue[u])}
    BY <2>1, QueueMembers, TailElems
  <2>3. \A c \in Elems(contlr[u]) : c < Head(queue[u])
    BY <2>2, QueueMembers
  <2>4. Elems(Append(contlr[u], Head(queue[u]))) = Elems(contlr[u]) \cup {Head(queue[u])}
    BY <2>2, <2>3, QueueMembers, AppendElems
  <2>5. QED BY <2>2, <2>4, QueueMembers
<1>2. /\ \A u \in Units : Issuing(u) => Head(queue[u]) \in heads
      /\ \A h \in heads : /\ h \in Cmds /\ h <= Last /\ status[h] = COSIM_WAITING
                          /\ UnitOf(h) \in Units /\ Issuing(UnitOf(h))
                          /\ h = Head(queue[UnitOf(h)])
  BY <1>1
<1>3. \A c \in Cmds : status'[c] = IF c \in heads THEN COSIM_ISSUED ELSE status[c]
  BY SetStatusType DEF issue, IInv, Statuses
<1> HIDE DEF heads
<1>4. /\ UNCHANGED <<cmds, parents, inst_queue, rob, preload_cmds, mm_cmds, acc_cmds>>
      /\ UNCHANGED <<fence_active, fence_cmd, inflight, early, load_dma, store_dma, Last>>
  BY DEF issue, exeVars, dmaVars, arrayVars, Last
<1>5. \A u \in Units :
        /\ contlr'[u] = IF Issuing(u) THEN Append(contlr[u], Head(queue[u])) ELSE contlr[u]
        /\ queue'[u] = IF Issuing(u) THEN Tail(queue[u]) ELSE queue[u]
  BY DEF issue
<1>6. /\ \A c \in Cmds : /\ OpOf(c)' = OpOf(c) /\ UnitOf(c)' = UnitOf(c)
                         /\ AtOnce(c)' = AtOnce(c) /\ cmds'[c] = cmds[c]
      /\ \A c \in Cmds : status[c] \in Int
      /\ early \subseteq Cmds
  BY <1>4, SameCommands, Typed
<1>7. /\ \A c \in Cmds : Running(c)' <=> Running(c)
      /\ \A c \in Cmds : status'[c] >= COSIM_WAITING \/ status'[c] = status[c]
      /\ \A c \in Cmds : status'[c] >= COSIM_EXECUTING <=> status[c] >= COSIM_EXECUTING
      /\ \A c \in Cmds : status'[c] >= COSIM_FINISHED <=> status[c] >= COSIM_FINISHED
      /\ \A c \in Cmds : status'[c] < COSIM_FINISHED <=> status[c] < COSIM_FINISHED
  BY <1>2, <1>3, <1>4, <1>6 DEF Running
<1>8. KnownStatus'
  BY <1>4, <1>7 DEF TInv, KnownStatus
<1>9. QueuesExact'
  <2> SUFFICES ASSUME NEW u \in Units, NEW c \in Cmds, c <= Last', UnitOf(c)' = u
               PROVE  /\ status'[c] = COSIM_WAITING => c \in Elems(queue'[u])
                      /\ status'[c] = COSIM_ISSUED => c \in Elems(contlr'[u])
    BY DEF QueuesExact, Elems
  <2>1. c <= Last /\ UnitOf(c) = u
    BY <1>4, <1>6
  <2>2. /\ status[c] = COSIM_WAITING => c \in Elems(queue[u])
        /\ status[c] = COSIM_ISSUED => c \in Elems(contlr[u])
    BY <2>1 DEF TInv, QueuesExact
  <2>3. c \in heads <=> Issuing(u) /\ c = Head(queue[u])
    BY <1>2, <2>1
  <2>4. CASE Issuing(u)
    <3>1. /\ Elems(queue'[u]) = Elems(queue[u]) \ {Head(queue[u])}
          /\ Elems(contlr'[u]) = Elems(contlr[u]) \cup {Head(queue[u])}
      BY <1>1, <1>5, <2>4
    <3>2. QED BY <1>3, <2>2, <2>3, <2>4, <3>1
  <2>5. CASE ~Issuing(u)
    <3>1. queue'[u] = queue[u] /\ contlr'[u] = contlr[u]
      BY <1>5, <2>5
    <3>2. QED BY <1>3, <2>2, <2>3, <2>5, <3>1
  <2>6. QED BY <2>4, <2>5
<1>10. ListsExact'
  BY <1>4, <1>6, <1>7 DEF TInv, ListsExact
<1>11. OthersExact'
  <2>1. \A c \in early' : status'[c] >= COSIM_FINISHED
    BY <1>4, <1>6, <1>7 DEF TInv, OthersExact
  <2>2. QED BY <1>4, <1>6, <1>7, <2>1 DEF TInv, OthersExact
<1>12. UnitOrder'
  <2>1. \A d \in Received : d \in Cmds /\ \A p \in 1 .. d - 1 : p \in Cmds
    BY SizeAssumption DEF Received, Cmds, IInv, TypeOK
  <2>2. Received' = Received
    BY <1>4 DEF Received
  <2>3. QED BY <1>4, <1>7, <2>1, <2>2 DEF TInv, UnitOrder, UnitOf, TypeOf
<1>13. FenceLast' /\ FenceDone'
  BY <1>4, <1>6, <1>7 DEF TInv, FenceLast, FenceDone
<1>14. ParentsLive'
  BY <1>4 DEF TInv, ParentsLive
<1>15. DmaThrottle'
  BY <1>4 DEF TInv, DmaThrottle, UnitOf, TypeOf
<1>16. QED BY <1>8, <1>9, <1>10, <1>11, <1>12, <1>13, <1>14, <1>15 DEF TInv

\* What the head of a controller finds when it starts: the older commands of
\* its unit have started, and it is not tracked anywhere yet.
LEMMA StartingOldest ==
    ASSUME IInv, TInv, NEW u \in Units, NEW h \in Starting(u)
    PROVE  /\ contlr[u] # <<>> /\ h = Head(contlr[u]) /\ Starting(u) = {h} /\ can_execute(h)
           /\ h \in Cmds /\ h <= Last /\ UnitOf(h) = u /\ status[h] = COSIM_ISSUED
           /\ Elems(Tail(contlr[u])) = Elems(contlr[u]) \ {h}
           /\ \A c \in Cmds : c < h /\ UnitOf(c) = u => status[c] >= COSIM_EXECUTING
           /\ \A c \in Cmds : Running(c) /\ UnitOf(c) = u => c < h
<1>1. /\ contlr[u] # <<>> /\ h = Head(contlr[u]) /\ Starting(u) = {h}
      /\ can_execute(h)
  BY DEF Starting
<1>2. /\ h \in Elems(contlr[u]) /\ h \in Cmds /\ \A c \in Elems(contlr[u]) : h <= c
      /\ Elems(Tail(contlr[u])) = Elems(contlr[u]) \ {h}
  BY <1>1, QueueMembers, TailElems
<1>3. h <= Last /\ UnitOf(h) = u /\ status[h] = COSIM_ISSUED
  BY <1>2, QueueMembers
<1>4. ASSUME NEW c \in Cmds, c < h, UnitOf(c) = u PROVE status[c] >= COSIM_EXECUTING
  <2>1. c <= Last /\ c <= Len(cmds) /\ c \in Int /\ h \in Int /\ ~(h <= c)
    BY <1>2, <1>3, <1>4, DispatchedReceived DEF Cmds
  <2>2. c \notin Elems(contlr[u]) /\ c \notin Elems(queue[u])
    <3>1. c \notin Elems(contlr[u])
      BY <1>2, <2>1
    <3>2. c \in Elems(queue[u]) => h < c
      BY <1>2, QueueMembers
    <3>3. QED BY <2>1, <3>1, <3>2
  <2>3. status[c] >= COSIM_WAITING /\ status[c] # COSIM_WAITING /\ status[c] # COSIM_ISSUED
    BY <1>4, <2>1, <2>2 DEF TInv, KnownStatus, QueuesExact
  <2>4. status[c] \in Int
    BY Typed
  <2>5. QED BY <2>3, <2>4
<1>5. ASSUME NEW c \in Cmds, Running(c), UnitOf(c) = u PROVE c < h
  <2>1. c \in Int /\ h \in Int /\ c # h /\ c \in 1 .. Len(cmds)
    BY <1>2, <1>3, <1>5, DispatchedReceived DEF Running, Cmds
  <2>2. CASE h < c
    <3>1. c \in Received /\ h \in 1 .. c - 1
      BY <1>2, <2>1, <2>2 DEF Received, Cmds
    <3>2. status[h] >= COSIM_EXECUTING
      BY <1>3, <1>5, <3>1 DEF TInv, UnitOrder, Running
    <3>3. QED BY <1>3, <3>2
  <2>3. QED BY <2>1, <2>2
<1>6. QED BY <1>1, <1>2, <1>3, <1>4, <1>5

\* Which commands execute() starts, and what becomes of every status.
LEMMA ExecuteStatus ==
    ASSUME IInv, TInv, execute
    PROVE  /\ \A c \in Cmds : c \notin Starting(UnitOf(c)) => status'[c] = status[c]
           /\ \A c \in Cmds : c \in Starting(UnitOf(c)) =>
                 /\ c <= Last /\ status[c] = COSIM_ISSUED
                 /\ status'[c] = IF AtOnce(c) THEN COSIM_FINISHED ELSE COSIM_EXECUTING
           /\ \A u \in Units : \A c \in Starting(u) : c \in Cmds /\ UnitOf(c) = u
<1> DEFINE started == UNION {Starting(u) : u \in Units}
           atOnce == {c \in Starting("exe") : AtOnce(c)}
<1>1. /\ \A u \in Units : \A c \in Starting(u) :
           c \in Cmds /\ UnitOf(c) = u /\ c <= Last /\ status[c] = COSIM_ISSUED
      /\ \A c \in started : c \in Cmds /\ c \in Starting(UnitOf(c))
  BY StartingOldest
<1>2. status' = [c \in Cmds |-> IF c \in atOnce THEN COSIM_FINISHED
                                ELSE IF c \in started THEN COSIM_EXECUTING ELSE status[c]]
  BY DEF execute
<1>3. ASSUME NEW c \in Cmds PROVE c \in Starting(UnitOf(c)) <=> c \in started
  <2>1. UnitOf(c) \in Units
    BY DEF UnitOf, Units
  <2>2. QED BY <1>1, <2>1
<1>4. ASSUME NEW c \in Cmds, c \in started PROVE c \in atOnce <=> AtOnce(c)
  <2>1. c <= Last /\ c \in Starting(UnitOf(c))
    <3>1. UnitOf(c) \in Units
      BY DEF UnitOf, Units
    <3>2. QED BY <1>1, <1>4, <3>1
  <2>2. c \in 1 .. Len(cmds)
    BY <2>1, DispatchedReceived
  <2>3. AtOnce(c) => UnitOf(c) = "exe"
    BY <2>2, UnitOps DEF IInv, AtOnce
  <2>4. QED BY <2>1, <2>3
<1>5. atOnce \subseteq started
  BY DEF Units
<1>6. \A c \in Cmds : UnitOf(c) \in Units
  BY DEF UnitOf, Units
<1> HIDE DEF started, atOnce
<1>7. QED BY <1>1, <1>2, <1>3, <1>4, <1>5, <1>6

LEMMA executeTInv == IInv /\ TInv /\ execute => TInv'
<1> SUFFICES ASSUME IInv, TInv, execute PROVE TInv'
  OBVIOUS
<1> DEFINE starts(c) == c \in Starting(UnitOf(c))
<1>1. /\ \A c \in Cmds : ~starts(c) => status'[c] = status[c]
      /\ \A c \in Cmds : starts(c) =>
            /\ c <= Last /\ status[c] = COSIM_ISSUED
            /\ status'[c] = IF AtOnce(c) THEN COSIM_FINISHED ELSE COSIM_EXECUTING
      /\ \A u \in Units : \A c \in Starting(u) : c \in Cmds /\ UnitOf(c) = u
  BY ExecuteStatus
<1>2. \A c \in Cmds : UnitOf(c) \in Units
  BY DEF UnitOf, Units
<1>3. /\ UNCHANGED <<cmds, parents, inst_queue, queue, rob, fence_active>>
      /\ UNCHANGED Last
      /\ \A u \in Units : contlr'[u] = IF Starting(u) = {} THEN contlr[u] ELSE Tail(contlr[u])
  BY DEF execute, Last
<1>4. /\ inflight' = inflight \cup Starting("load") \cup Starting("store") /\ early' = early
      /\ load_dma' = load_dma + Cardinality(Starting("load"))
      /\ store_dma' = store_dma + Cardinality(Starting("store"))
  BY DEF execute, DMA!Submit
<1>5. /\ \A c \in Cmds : /\ OpOf(c)' = OpOf(c) /\ UnitOf(c)' = UnitOf(c)
                         /\ AtOnce(c)' = AtOnce(c) /\ cmds'[c] = cmds[c]
      /\ \A c \in Cmds : status[c] \in Int
      /\ inflight \subseteq Cmds /\ early \subseteq Cmds
  BY <1>3, SameCommands, Typed
<1>6. \A c \in Cmds : starts(c) =>
        /\ UnitOf(c) = "load" <=> OpOf(c) \in {"MOVE_IN", "MOVE_IN_ACC"}
        /\ UnitOf(c) = "store" <=> OpOf(c) = "MOVE_OUT"
        /\ UnitOf(c) = "exe" <=> OpOf(c) \in {"PRELOAD", "MATRIX_MULTIPLY",
                                   "MATRIX_MULTIPLY_FLIP", "FENCE", "CONFIG", "FAKE"}
  <2>1. \A c \in Cmds : starts(c) => c \in 1 .. Len(cmds)
    BY <1>1, DispatchedReceived
  <2>2. QED BY <2>1, UnitOps DEF IInv
<1> HIDE DEF starts
<1>7. /\ \A c \in Cmds : Running(c)' <=> Running(c) \/ (starts(c) /\ ~AtOnce(c))
      /\ \A c \in Cmds : starts(c) => ~Running(c)
      /\ \A c \in Cmds : status[c] >= COSIM_FINISHED => ~starts(c) /\ status'[c] >= COSIM_FINISHED
      /\ \A c \in Cmds : status'[c] < COSIM_FINISHED => status[c] < COSIM_FINISHED
      /\ \A c \in Cmds : status'[c] >= status[c]
  BY <1>1, <1>3, <1>5 DEF Running
<1>8. KnownStatus'
  BY <1>3, <1>5, <1>1 DEF TInv, KnownStatus
<1>9. QueuesExact'
  <2> SUFFICES ASSUME NEW u \in Units, NEW c \in Cmds, c <= Last', UnitOf(c)' = u
               PROVE  /\ status'[c] = COSIM_WAITING => c \in Elems(queue'[u])
                      /\ status'[c] = COSIM_ISSUED => c \in Elems(contlr'[u])
    BY DEF QueuesExact, Elems
  <2>1. c <= Last /\ UnitOf(c) = u
    BY <1>3, <1>5
  <2>2. /\ status[c] = COSIM_WAITING => c \in Elems(queue[u])
        /\ status[c] = COSIM_ISSUED => c \in Elems(contlr[u])
    BY <2>1 DEF TInv, QueuesExact
  <2>3. status'[c] <= COSIM_ISSUED => ~starts(c) /\ status'[c] = status[c]
    BY <1>1
  <2>4. CASE Starting(u) = {}
    BY <1>3, <2>2, <2>3, <2>4
  <2>5. ASSUME NEW h \in Starting(u) PROVE c \in Elems(contlr[u]) /\ ~starts(c) => c \in Elems(contlr'[u])
    <3>1. Starting(u) = {h} /\ Elems(Tail(contlr[u])) = Elems(contlr[u]) \ {h}
      BY StartingOldest
    <3>2. starts(c) <=> c = h
      BY <2>1, <3>1 DEF starts
    <3>3. QED BY <1>3, <3>1, <3>2
  <2>6. QED BY <1>3, <2>2, <2>3, <2>4, <2>5
<1>10. UnitOrder'
  <2> SUFFICES ASSUME NEW d \in Received', NEW c \in 1 .. d - 1,
                      UnitOf(c)' = UnitOf(d)', status'[d] >= COSIM_EXECUTING
               PROVE  status'[c] >= COSIM_EXECUTING
    BY DEF UnitOrder
  <2>1. d \in Received /\ d \in Cmds /\ c \in Cmds /\ c < d
    BY <1>3, SizeAssumption DEF Received, Cmds, IInv, TypeOK
  <2>2. UnitOf(c) = UnitOf(d)
    BY <1>5, <2>1
  <2>3. status[c] >= COSIM_EXECUTING
    <3>1. CASE starts(d)
      <4>1. d \in Starting(UnitOf(d)) /\ UnitOf(d) \in Units
        BY <1>2, <2>1, <3>1 DEF starts
      <4>2. QED BY <2>1, <2>2, <4>1, StartingOldest
    <3>2. CASE ~starts(d)
      BY <1>1, <2>1, <2>2, <3>2 DEF TInv, UnitOrder
    <3>3. QED BY <3>1, <3>2
  <2>4. status'[c] >= status[c] /\ (starts(c) \/ status'[c] = status[c])
    BY <1>1, <1>7, <2>1
  <2>5. ~starts(c)
    BY <1>1, <2>1, <2>3
  <2>6. QED BY <2>3, <2>4, <2>5
<1>11. ListsExact'
  <2>1. /\ preload_cmds \in Seq(Cmds) /\ mm_cmds \in Seq(Cmds) /\ acc_cmds \in Seq(Cmds)
        /\ Sorted(preload_cmds) /\ Sorted(mm_cmds) /\ Sorted(acc_cmds)
    BY DEF IInv, TypeOK, TInv, ListsExact
  <2>2. CASE Starting("exe") = {}
    <3>1. UNCHANGED <<preload_cmds, mm_cmds, acc_cmds>>
      BY <2>2 DEF execute
    <3>2. \A c \in Cmds : starts(c) => OpOf(c) # "PRELOAD" /\ OpOf(c) \notin MMOps
      BY <1>6, <2>2 DEF starts, MMOps
    <3>3. QED BY <1>5, <1>7, <3>1, <3>2 DEF TInv, ListsExact
  <2>3. CASE Starting("exe") # {}
    <3>1. PICK h : h \in Starting("exe")
      BY <2>3
    <3>2. /\ Starting("exe") = {h} /\ h = Head(contlr["exe"]) /\ h \in Cmds /\ UnitOf(h) = "exe"
          /\ \A c \in Cmds : Running(c) /\ UnitOf(c) = "exe" => c < h
      BY <3>1, StartingOldest DEF Units
    <3>3. StartExe(h)
      BY <2>3, <3>2 DEF execute
    <3>4. \A c \in Cmds : starts(c) /\ UnitOf(c) = "exe" <=> c = h
      BY <3>2 DEF starts
    <3>5. \A c \in Cmds : starts(c) /\ c # h => OpOf(c) # "PRELOAD" /\ OpOf(c) \notin MMOps
      BY <1>6, <3>4 DEF MMOps
    <3>6. \A c \in Cmds : Running(c) /\ (OpOf(c) = "PRELOAD" \/ OpOf(c) \in MMOps) => c < h
      <4>1. \A c \in Cmds : Running(c) => c \in 1 .. Len(cmds)
        BY DispatchedReceived DEF Running
      <4>2. \A c \in Cmds : Running(c) /\ (OpOf(c) = "PRELOAD" \/ OpOf(c) \in MMOps)
                                => UnitOf(c) = "exe"
        BY <4>1, UnitOps DEF IInv, MMOps
      <4>3. QED BY <3>2, <4>2
    <3>7. \A c \in Cmds : OpOf(c) = "PRELOAD" \/ OpOf(c) \in MMOps =>
            (Running(c)' <=> Running(c) \/ c = h)
      <4>1. \A c \in Cmds : OpOf(c) = "PRELOAD" \/ OpOf(c) \in MMOps => ~AtOnce(c)
        BY DEF AtOnce, MMOps
      <4>2. starts(h)
        BY <3>2, <3>4
      <4>3. QED BY <1>7, <3>5, <4>1, <4>2
    <3>8. /\ preload_cmds' = IF OpOf(h) = "PRELOAD" THEN Append(preload_cmds, h) ELSE preload_cmds
          /\ mm_cmds' = IF OpOf(h) \in MMOps THEN Append(mm_cmds, h) ELSE mm_cmds
          /\ acc_cmds' = IF OpOf(h) \in MMOps /\ ~cmds[h].stay THEN Append(acc_cmds, h) ELSE acc_cmds
      BY <3>3 DEF StartExe
    <3>9. /\ \A c \in Elems(preload_cmds) : c \in Cmds /\ c < h
          /\ \A c \in Elems(mm_cmds) : c \in Cmds /\ c < h
          /\ \A c \in Elems(acc_cmds) : c \in Cmds /\ c < h
      <4>1. /\ Elems(preload_cmds) \subseteq Cmds /\ Elems(mm_cmds) \subseteq Cmds
            /\ Elems(acc_cmds) \subseteq Cmds
        BY <2>1 DEF Elems
      <4>2. QED BY <3>6, <4>1 DEF TInv, ListsExact
    <3>10. /\ Sorted(preload_cmds')
           /\ Elems(preload_cmds') = Elems(preload_cmds) \cup (IF OpOf(h) = "PRELOAD" THEN {h} ELSE {})
      BY <2>1, <3>2, <3>8, <3>9, AppendElems
    <3>11. /\ Sorted(mm_cmds')
           /\ Elems(mm_cmds') = Elems(mm_cmds) \cup (IF OpOf(h) \in MMOps THEN {h} ELSE {})
      BY <2>1, <3>2, <3>8, <3>9, AppendElems
    <3>12. /\ Sorted(acc_cmds')
           /\ Elems(acc_cmds') = Elems(acc_cmds) \cup
                (IF OpOf(h) \in MMOps /\ ~cmds[h].stay THEN {h} ELSE {})
      BY <2>1, <3>2, <3>8, <3>9, AppendElems
    <3>13. \A c \in Cmds : c \in Elems(preload_cmds') <=> Running(c)' /\ OpOf(c)' = "PRELOAD"
      BY <1>5, <3>7, <3>10 DEF TInv, ListsExact
    <3>14. \A c \in Cmds : c \in Elems(mm_cmds') <=> Running(c)' /\ OpOf(c)' \in MMOps
      BY <1>5, <3>7, <3>11 DEF TInv, ListsExact
    <3>15. \A c \in Cmds : c \in Elems(acc_cmds') <=>
                              Running(c)' /\ OpOf(c)' \in MMOps /\ ~cmds'[c].stay
      BY <1>5, <3>7, <3>12 DEF TInv, ListsExact
    <3>16. QED BY <3>10, <3>11, <3>12, <3>13, <3>14, <3>15 DEF ListsExact, Sorted, Elems
  <2>4. QED BY <2>2, <2>3
<1>12. OthersExact'
  <2>1. \A c \in Cmds : c \in Starting("load") \cup Starting("store") <=>
                            starts(c) /\ UnitOf(c) # "exe"
    BY <1>1, <1>2 DEF starts, Units
  <2>2. \A c \in early : c \in Cmds /\ status[c] >= COSIM_FINISHED
    BY <1>5 DEF TInv, OthersExact
  <2>3. \A c \in Cmds : c \in (inflight \ early)' <=> Running(c)' /\ UnitOf(c)' # "exe"
    <3>1. \A c \in Cmds : starts(c) /\ UnitOf(c) # "exe" => ~AtOnce(c) /\ c \notin early
      BY <1>6, <1>7, <2>2 DEF AtOnce
    <3>2. QED BY <1>4, <1>5, <1>7, <2>1, <3>1 DEF TInv, OthersExact
  <2>4. \A c \in Cmds : c = fence_cmd' <=> Running(c)' /\ OpOf(c)' = "FENCE"
    <3>1. \A c \in Cmds : OpOf(c) = "FENCE" => ~AtOnce(c)
      BY DEF AtOnce
    <3>2. \A c \in Cmds : starts(c) /\ OpOf(c) = "FENCE" => c \in Starting("exe")
      BY <1>6 DEF starts
    <3>3. CASE Starting("exe") = {}
      <4>1. fence_cmd' = fence_cmd
        BY <3>3 DEF execute
      <4>2. QED BY <1>5, <1>7, <3>2, <3>3, <4>1 DEF TInv, OthersExact
    <3>4. CASE Starting("exe") # {}
      <4>1. PICK h : h \in Starting("exe")
        BY <3>4
      <4>2. Starting("exe") = {h} /\ h = Head(contlr["exe"]) /\ h \in Cmds /\ UnitOf(h) = "exe"
        BY <4>1, StartingOldest DEF Units
      <4>3. fence_cmd' = IF OpOf(h) = "FENCE" THEN h ELSE fence_cmd
        BY <3>4, <4>2 DEF execute, StartExe
      <4>4. starts(h) /\ \A c \in Cmds : starts(c) /\ OpOf(c) = "FENCE" => c = h
        BY <3>2, <4>2 DEF starts
      <4>5. CASE OpOf(h) # "FENCE"
        BY <1>5, <1>7, <4>3, <4>4, <4>5 DEF TInv, OthersExact
      <4>6. CASE OpOf(h) = "FENCE"
        <5>1. h = Last
          BY <1>1, <4>2, <4>4, <4>6 DEF TInv, FenceLast
        <5>2. \A c \in Cmds : Running(c) /\ OpOf(c) = "FENCE" => c = h
          BY <5>1 DEF TInv, FenceLast, Running
        <5>3. QED BY <1>5, <1>7, <3>1, <4>2, <4>3, <4>4, <4>6, <5>2
      <4>7. QED BY <4>5, <4>6
    <3>5. QED BY <3>3, <3>4
  <2>5. \A c \in Cmds : Running(c)' => ~AtOnce(c)'
    BY <1>5, <1>7 DEF TInv, OthersExact
  <2>6. \A c \in early' : status'[c] >= COSIM_FINISHED
    BY <1>4, <1>7, <2>2
  <2>7. QED BY <2>3, <2>4, <2>5, <2>6 DEF OthersExact
<1>13. FenceLast'
  BY <1>3, <1>5, <1>7 DEF TInv, FenceLast
<1>14. FenceDone'
  <2> SUFFICES ASSUME NEW f \in Cmds, NEW c \in Cmds, f <= Last, c < f,
                      OpOf(f) = "FENCE", status'[f] >= COSIM_FINISHED
               PROVE  status'[c] >= COSIM_FINISHED /\ c \notin inflight'
    BY <1>3, <1>5 DEF FenceDone
  <2>1. ~starts(f)
    BY <1>1 DEF AtOnce
  <2>2. status[c] >= COSIM_FINISHED /\ c \notin inflight
    BY <1>1, <2>1 DEF TInv, FenceDone
  <2>3. ~starts(c) /\ status'[c] >= COSIM_FINISHED
    BY <1>7, <2>2
  <2>4. QED BY <1>1, <1>4, <2>2, <2>3 DEF starts, Units
<1>15. ParentsLive'
  BY <1>3 DEF TInv, ParentsLive
<1>16. DmaThrottle'
  <2> DEFINE pending(u) == {c \in inflight \ early : UnitOf(c) = u}
  <2>1. ASSUME NEW u \in {"load", "store"}
        PROVE  /\ Cardinality(pending(u)') = Cardinality(pending(u)) + Cardinality(Starting(u))
               /\ Cardinality(pending(u)) \in Int
               /\ \/ Starting(u) = {} /\ Cardinality(Starting(u)) = 0
                  \/ \E h \in Cmds : /\ Starting(u) = {h} /\ Cardinality(Starting(u)) = 1
                                     /\ can_execute(h) /\ starts(h) /\ UnitOf(h) = u
    <3>1. u \in Units
      BY DEF Units
    <3>2. \A c \in Starting(u) : c \in Cmds /\ UnitOf(c) = u /\ starts(c)
      BY <1>1, <3>1 DEF starts
    <3>3. \A c \in Starting(u) : c \notin inflight \ early /\ c \notin early
      <4>1. \A c \in Starting(u) : c \notin inflight \ early
        BY <1>7, <3>2 DEF TInv, OthersExact
      <4>2. \A c \in Starting(u) : c \notin early
        BY <1>7, <3>2 DEF TInv, OthersExact
      <4>3. QED BY <4>1, <4>2
    <3>4. \A c \in Cmds : c \in pending(u)' <=> c \in pending(u) \cup Starting(u)
      BY <1>1, <1>4, <1>5, <3>2, <3>3 DEF Units
    <3>5. /\ pending(u) \in SUBSET Cmds /\ Starting(u) \in SUBSET Cmds /\ pending(u)' \in SUBSET Cmds
          /\ pending(u) \cap Starting(u) = {}
      BY <1>1, <1>4, <1>5, <3>2, <3>3 DEF Units
    <3> HIDE DEF pending
    <3>6. pending(u)' = pending(u) \cup Starting(u)
      BY <3>4, <3>5
    <3>7. Cardinality(pending(u) \cup Starting(u)) = Cardinality(pending(u)) + Cardinality(Starting(u))
      BY <3>5, CardAdd
    <3>8. Cardinality(pending(u)) \in Int
      BY <3>5, CmdsFinite
    <3>9. CASE Starting(u) = {}
      BY <3>6, <3>7, <3>8, <3>9, FS_EmptySet
    <3>10. CASE Starting(u) # {}
      <4>1. PICK h : h \in Starting(u)
        BY <3>10
      <4>2. Starting(u) = {h} /\ can_execute(h) /\ h \in Cmds
        BY <3>1, <4>1, StartingOldest
      <4>3. Cardinality(Starting(u)) = 1
        BY <4>2, FS_Singleton
      <4>4. QED BY <3>2, <3>6, <3>7, <3>8, <4>1, <4>2, <4>3
    <3>11. QED BY <3>9, <3>10
  <2>2. /\ load_dma = Cardinality(pending("load")) /\ store_dma = Cardinality(pending("store"))
        /\ load_dma <= MaxDma /\ store_dma <= MaxDma /\ MaxDma \in Nat
    BY SizeAssumption DEF TInv, DmaThrottle
  <2>3. ASSUME NEW h \in Cmds, can_execute(h), starts(h)
        PROVE  /\ UnitOf(h) = "load" => load_dma < MaxDma
               /\ UnitOf(h) = "store" => store_dma < MaxDma
    BY <1>6, <2>3 DEF can_execute, DmaSlotFree, MMOps
  <2> HIDE DEF pending
  <2>4. load_dma' = Cardinality(pending("load")') /\ load_dma' <= MaxDma
    BY <1>4, <2>1, <2>2, <2>3
  <2>5. store_dma' = Cardinality(pending("store")') /\ store_dma' <= MaxDma
    BY <1>4, <2>1, <2>2, <2>3
  <2>6. QED BY <2>4, <2>5 DEF DmaThrottle, pending
<1>17. QED BY <1>8, <1>9, <1>10, <1>11, <1>12, <1>13, <1>14, <1>15, <1>16 DEF TInv

-----------------------------------------------------------------------------
\* SAController's queues, controllers, tracking lists and DMA counters hold
\* exactly the commands in the state they stand for, in every reachable state.
THEOREM Tracking == Spec => [](IInv /\ TInv)
<1>1. IInv /\ TInv /\ [Next]_vars => TInv'
  <2> SUFFICES ASSUME IInv, TInv, [Next]_vars PROVE TInv'
    OBVIOUS
  <2>1. ASSUME NEW t \in Templates, receive(t) PROVE TInv'
    BY <2>1, receiveTInv
  <2>2. CASE NoReceive
    BY <2>2, TInvUnchanged DEF NoReceive, arrayVars
  <2>3. ASSUME NEW done \in SUBSET inflight, NEW drained \in SUBSET inflight,
               DmaCycle(done, drained)
        PROVE  TInv'
    BY <2>3, DmaCycleTInv
  <2>4. CASE commit
    BY <2>4, commitTInv
  <2>5. CASE Complete
    BY <2>5, CompleteTInv
  <2>6. CASE execute
    BY <2>6, executeTInv
  <2>7. CASE try_complete_fence
    BY <2>7, try_complete_fenceTInv
  <2>8. CASE issue
    BY <2>8, issueTInv
  <2>9. CASE dispatch
    BY <2>9, dispatchTInv
  <2>10. ASSUME NEW flip \in BOOLEAN, NEW idle \in BOOLEAN, NEW pre \in BOOLEAN,
                NEW accd \in BOOLEAN, NEW comp \in BOOLEAN,
                ArrayCycle(flip, idle, pre, accd, comp)
         PROVE  TInv'
    BY <2>10, TInvUnchanged DEF ArrayCycle
  <2>11. CASE UNCHANGED vars
    BY <2>11, TInvUnchanged DEF vars, arrayVars
  <2>12. QED BY <2>1, <2>2, <2>3, <2>4, <2>5, <2>6, <2>7, <2>8, <2>9, <2>10, <2>11 DEF Next
<1>2. QED BY InitTInv, Inductive, <1>1, PTL DEF Spec

\* "MMs execute in sequence" (Command.cpp), for every program: within a unit
\* no command starts before an older one.
THEOREM UnitsInOrder == Spec => []UnitOrder
<1>1. TInv => UnitOrder
  BY DEF TInv
<1>2. QED BY Tracking, <1>1, PTL

\* try_complete_fence and fence_active make a fence a barrier both ways: what
\* is older has finished, its DMA writes included, before it is done, and
\* nothing younger is dispatched before.
THEOREM FencesHold == Spec => []FenceBarrier
<1>1. IInv /\ TInv => FenceBarrier
  <2> SUFFICES ASSUME IInv, TInv, NEW f \in Dispatched, OpOf(f) = "FENCE"
               PROVE  IF status[f] < COSIM_FINISHED
                      THEN \A d \in Dispatched : d <= f
                      ELSE \A c \in 1 .. f - 1 : status[c] >= COSIM_FINISHED /\ c \notin inflight
    BY DEF FenceBarrier
  <2>1. /\ Dispatched = 1 .. Last /\ Last \in Int /\ Last <= MaxCmds /\ MaxCmds \in Nat
        /\ f \in Cmds /\ f <= Last
    <3>1. Dispatched = 1 .. Last /\ Last \in Int /\ Last <= Len(cmds) /\ Len(cmds) \in Nat
      BY DispatchedReceived DEF Dispatched, Last
    <3>2. Len(cmds) <= MaxCmds /\ MaxCmds \in Nat
      BY SizeAssumption DEF IInv, TypeOK
    <3>3. QED BY <3>1, <3>2 DEF Cmds
  <2>2. status[f] \in Int /\ \A c \in 1 .. f - 1 : c \in Cmds /\ c < f
    BY <2>1, Typed DEF Cmds
  <2>3. CASE status[f] < COSIM_FINISHED
    BY <2>1, <2>3 DEF TInv, FenceLast
  <2>4. CASE ~(status[f] < COSIM_FINISHED)
    BY <2>1, <2>2, <2>4 DEF TInv, FenceDone
  <2>5. QED BY <2>3, <2>4
<1>2. QED BY Tracking, <1>1, PTL

\* Nothing that is dereferenced later names a command ROB::commit has deleted,
\* the multiplies are tracked in order, and the DMA counters are exact and
\* bounded.
THEOREM AllCommandsTracked == Spec => []CommandsTracked
<1>1. IInv /\ TInv => CommandsTracked
  <2> SUFFICES ASSUME IInv, TInv PROVE CommandsTracked
    OBVIOUS
  <2>1. \A c \in Cmds : c <= Last /\ Last - Len(rob) < c => c \in Elems(rob)
    <3> SUFFICES ASSUME NEW c \in Cmds, c <= Last, Last - Len(rob) < c PROVE c \in Elems(rob)
      OBVIOUS
    <3>1. Last \in Int /\ Len(rob) \in Nat /\ c \in Int
      BY DispatchedReceived DEF Cmds
    <3>2. c - (Last - Len(rob)) \in 1 .. Len(rob)
      BY <3>1
    <3>3. rob[c - (Last - Len(rob))] = c
      BY <3>1, <3>2 DEF IInv, ProgramOrder
    <3>4. QED BY <3>2, <3>3 DEF Elems
  <2>2. \A c \in Cmds : c <= Last /\ status[c] < COSIM_FINISHED => c \in Elems(rob)
    <3>1. \A c \in Cmds : c <= Last - Len(rob) => status[c] >= COSIM_FINISHED
      BY DEF IInv, StatusByAge
    <3>2. \A c \in Cmds : c \in Int /\ status[c] \in Int
      BY Typed DEF Cmds
    <3>3. Last - Len(rob) \in Int
      BY DispatchedReceived
    <3>4. QED BY <2>1, <3>1, <3>2, <3>3
  <2>3. \A c \in Cmds : Running(c) => c \in Elems(rob)
    BY <2>2 DEF Running
  <2>4. /\ Elems(preload_cmds) \subseteq Cmds /\ Elems(mm_cmds) \subseteq Cmds
        /\ Elems(acc_cmds) \subseteq Cmds
    BY DEF Elems, IInv, TypeOK
  <2>5. NoDanglingCommand
    <3>1. \A u \in Units : Elems(queue[u]) \cup Elems(contlr[u]) \subseteq Elems(rob)
      BY <2>2, QueueMembers
    <3>2. Elems(preload_cmds) \cup Elems(mm_cmds) \cup Elems(acc_cmds) \subseteq Elems(rob)
      BY <2>3, <2>4 DEF TInv, ListsExact
    <3>3. fence_cmd # 0 => fence_cmd \in Elems(rob)
      <4>1. fence_cmd \in Cmds \cup {0}
        BY DEF IInv, TypeOK
      <4>2. QED BY <2>3, <4>1 DEF TInv, OthersExact
    <3>4. inflight \ early \subseteq Elems(rob)
      BY <2>3, Typed DEF TInv, OthersExact
    <3>5. ASSUME NEW d \in Cmds, parents[d] # {}
          PROVE  parents[d] \cup {d} \subseteq Elems(rob)
      <4>1. \A p \in parents[d] : p \in Cmds /\ Last - Len(rob) < p /\ p < d /\ d <= Last
        BY Typed DEF TInv, ParentsLive
      <4>2. Last - Len(rob) \in Int /\ Last \in Int /\ \A c \in Cmds : c \in Int
        BY DispatchedReceived DEF Cmds
      <4>3. \A p \in parents[d] : p <= Last /\ Last - Len(rob) < d
        BY <4>1, <4>2
      <4>4. QED BY <2>1, <3>5, <4>1, <4>3
    <3>6. QED BY <3>1, <3>2, <3>3, <3>4, <3>5 DEF NoDanglingCommand
  <2>6. MMTracked
    <3>1. \A c \in Cmds : c \in Elems(acc_cmds) <=> c \in Elems(mm_cmds) /\ ~cmds[c].stay
      BY DEF TInv, ListsExact
    <3>2. Elems(acc_cmds) = {c \in Elems(mm_cmds) : ~cmds[c].stay}
      BY <2>4, <3>1
    <3>3. QED BY <3>2 DEF MMTracked, TInv, ListsExact
  <2>7. QED BY <2>5, <2>6 DEF CommandsTracked, TInv
<1>2. QED BY Tracking, <1>1, PTL

\* No command is finished twice, started again or revived after its commit:
\* in every step of the controller, no status falls.
THEOREM StatusOnlyClimbs == Spec => StatusClimbs
<1> DEFINE Climbs == \A c \in Cmds : status'[c] >= status[c]
<1>1. IInv /\ TInv /\ [Next]_vars => Climbs
  <2> SUFFICES ASSUME IInv, TInv, [Next]_vars, NEW c \in Cmds PROVE status'[c] >= status[c]
    OBVIOUS
  <2>1. status[c] \in Int /\ Last \in Int /\ c \in Int
    BY Typed, DispatchedReceived DEF Cmds
  <2>2. ASSUME NEW S, NEW v \in Statuses, status' = SetStatus(S, v), c \in S => status[c] <= v
        PROVE  status'[c] >= status[c]
    BY <2>1, <2>2 DEF SetStatus
  <2>3. ASSUME NEW t \in Templates, receive(t) PROVE status'[c] >= status[c]
    <3>1. /\ Len(cmds) + 1 \in Cmds /\ Len(cmds) + 1 > Last
          /\ status' = [status EXCEPT ![Len(cmds) + 1] = COSIM_WAITING]
      BY <2>3, DispatchedReceived, SizeAssumption DEF receive, Cmds
    <3>2. status[Len(cmds) + 1] <= COSIM_WAITING
      BY <3>1 DEF IInv, StatusByAge
    <3>3. status'[c] = IF c = Len(cmds) + 1 THEN COSIM_WAITING ELSE status[c]
      BY <3>1 DEF IInv, TypeOK
    <3>4. QED BY <2>1, <3>2, <3>3
  <2>4. CASE NoReceive
    BY <2>1, <2>4 DEF NoReceive, cmdVars
  <2>5. ASSUME NEW done \in SUBSET inflight, NEW drained \in SUBSET inflight,
               DmaCycle(done, drained)
        PROVE  status'[c] >= status[c]
    <3>1. done \subseteq inflight \ early /\ status' = SetStatus(done, COSIM_FINISHED)
      BY <2>5 DEF DmaCycle, DMA!Cycle
    <3>2. c \in done => Running(c)
      BY <3>1 DEF TInv, OthersExact
    <3>3. QED BY <2>2, <3>1, <3>2 DEF Running, Statuses
  <2>6. CASE commit
    <3>1. PICK S : status' = SetStatus(S, COSIM_COMMITTED)
      BY <2>6 DEF commit
    <3>2. status[c] <= COSIM_COMMITTED
      BY Typed DEF Statuses
    <3>3. QED BY <2>2, <3>1, <3>2 DEF Statuses
  <2>7. CASE Complete
    <3>1. status' = SetStatus(PreloadDone \cup MMDone, COSIM_FINISHED)
      BY <2>7 DEF Complete
    <3>2. MMDone \subseteq Elems(mm_cmds)
      BY <2>7, CompleteMM
    <3>3. PreloadDone \subseteq Elems(preload_cmds)
      BY TailElems DEF PreloadDone, IInv, TypeOK, TInv, ListsExact
    <3>4. c \in PreloadDone \cup MMDone => Running(c)
      BY <3>2, <3>3 DEF TInv, ListsExact
    <3>5. QED BY <2>2, <3>1, <3>4 DEF Running, Statuses
  <2>8. CASE execute
    BY <2>1, <2>8, ExecuteStatus
  <2>9. CASE try_complete_fence
    <3>1. CASE fence_cmd # 0 /\ can_release_fence
      <4>1. status' = SetStatus({fence_cmd}, COSIM_FINISHED)
        BY <2>9, <3>1 DEF try_complete_fence
      <4>2. c = fence_cmd => Running(c)
        BY DEF TInv, OthersExact
      <4>3. QED BY <2>2, <4>1, <4>2 DEF Running, Statuses
    <3>2. CASE ~(fence_cmd # 0 /\ can_release_fence)
      BY <2>1, <2>9, <3>2 DEF try_complete_fence
    <3>3. QED BY <3>1, <3>2
  <2>10. CASE issue
    <3> DEFINE heads == {Head(queue[u]) : u \in {v \in Units : Issuing(v)}}
    <3>1. status' = SetStatus(heads, COSIM_ISSUED)
      BY <2>10 DEF issue
    <3>2. c \in heads => status[c] = COSIM_WAITING
      BY DEF Issuing, can_issue
    <3> HIDE DEF heads
    <3>3. QED BY <2>2, <3>1, <3>2 DEF Statuses
  <2>11. CASE dispatch
    <3>1. CASE inst_queue # <<>> /\ ~fence_active /\ can_dispatch(Head(inst_queue))
      <4> DEFINE d == Head(inst_queue)
      <4>1. status' = [status EXCEPT ![d] = COSIM_WAITING]
        BY <2>11, <3>1 DEF dispatch
      <4>2. inst_queue \in Seq(Cmds)
        BY DEF IInv, TypeOK
      <4>3. d = inst_queue[1] /\ d \in Cmds /\ 1 \in 1 .. Len(inst_queue)
        BY <3>1, <4>2
      <4>4. d = Last + 1
        BY <4>3 DEF IInv, ProgramOrder
      <4>5. status[d] <= COSIM_WAITING
        BY <2>1, <4>3, <4>4 DEF IInv, StatusByAge
      <4> HIDE DEF d
      <4>6. status'[c] = IF c = d THEN COSIM_WAITING ELSE status[c]
        BY <4>1, <4>3 DEF IInv, TypeOK
      <4>7. QED BY <2>1, <4>5, <4>6
    <3>2. CASE ~(inst_queue # <<>> /\ ~fence_active /\ can_dispatch(Head(inst_queue)))
      BY <2>1, <2>11, <3>2 DEF dispatch
    <3>3. QED BY <3>1, <3>2
  <2>12. ASSUME NEW flip \in BOOLEAN, NEW idle \in BOOLEAN, NEW pre \in BOOLEAN,
                NEW accd \in BOOLEAN, NEW comp \in BOOLEAN,
                ArrayCycle(flip, idle, pre, accd, comp)
         PROVE  status'[c] >= status[c]
    BY <2>1, <2>12 DEF ArrayCycle, cmdVars
  <2>13. CASE UNCHANGED vars
    BY <2>1, <2>13 DEF vars, cmdVars
  <2>14. QED BY <2>3, <2>4, <2>5, <2>6, <2>7, <2>8, <2>9, <2>10, <2>11, <2>12, <2>13 DEF Next
<1>2. QED BY Tracking, <1>1, PTL DEF Spec, StatusClimbs
=============================================================================
