-------------------------------- MODULE Backend --------------------------------
(***************************************************************************)
(* The CPU back end (src/core.cpp, src/window.cpp, src/lsu.cpp): rename,   *)
(* dispatch into the reorder buffer and the issue queues, out-of-order     *)
(* issue, execution with store-to-load forwarding, write back, and         *)
(* in-order retirement.  Calls to the accelerator (cosim functions) wait   *)
(* in a queue of their own until they are the oldest instruction.          *)
(*                                                                         *)
(* Core::run calls the stages one after another, youngest work last; pc    *)
(* walks through them in that order.  Instructions carry the numbers of    *)
(* globalDynID, which start at 0.  The functional-unit schedule of         *)
(* IssueUnit appears through its outcome, a set of scheduled               *)
(* instructions; L1 and the accelerator through their interfaces.          *)
(***************************************************************************)
EXTENDS Integers, Sequences, FiniteSets

CONSTANTS
    Templates,      \* static instructions: [uid, kind, addr, lat, src]
    MaxInsns,       \* bound: dynamic instructions in a behaviour
    Width,          \* windowSize: dispatch width
    RetireSize,     \* retireSize: rename and retire width
    RobSize, IssueQSize, LdqSize, StqSize,
    LoadUnits,      \* issue ports that hold a load unit
    L1LoadPorts, L1StorePorts

Kinds == {"op", "load", "store", "cosim", "fence"}

ASSUME TemplatesAssumption ==
    \A t \in Templates : t.kind \in Kinds /\ t.lat \in Nat /\ t.src \subseteq Nat

ASSUME SizeAssumption ==
    /\ MaxInsns \in Nat /\ Width \in Nat \ {0} /\ RetireSize \in Nat \ {0}
    /\ RobSize \in Nat \ {0} /\ IssueQSize \in Nat \ {0}
    /\ LdqSize \in Nat \ {0} /\ StqSize \in Nat \ {0}
    /\ LoadUnits \in Nat \ {0} /\ L1LoadPorts \in Nat \ {0} /\ L1StorePorts \in Nat \ {0}

\* DynOpStatus, in the order of the enum that the code's comparisons rely on.
INIT == 0
ALLOCATED == 1
READY == 2
ISSUED == 3
EXECUTING == 4
FINISHED == 5
COMMITED == 6
SLEEP == 7

Ids == 0 .. MaxInsns - 1

VARIABLES
    pc, k,          \* the stage that runs next; position of execute's loop
    prog,           \* instructions renamed so far; prog[i + 1] is number i
    status, deps,   \* DynamicOperation::status, deps
    cyc,            \* currentCycle, counted up to the latency
    sent,           \* the loads and stores whose sent flag is set
    forwardList,    \* for each store the loads that sleep on it
    cosimCanIssue,  \* the instructions whose cosimCanIssue flag is set
    insnQueue, instList,            \* renamed; Window::instList, the ROB
    issueQueue, cosimIssueQueue, inFlightInsn,
    LDQ, STQ,
    doneSeqNum,
    free_load_ports, free_store_ports,
    loading, responses,             \* loads L1 has accepted; LSUnit::responses
    sac, sac_room                   \* commands the accelerator has not committed

insnVars  == <<prog, deps>>
queueVars == <<insnQueue, instList, issueQueue, cosimIssueQueue, inFlightInsn>>
lsqVars   == <<LDQ, STQ, doneSeqNum>>
l1Vars    == <<free_load_ports, free_store_ports, loading, responses>>
sacVars   == <<sac, sac_room>>
vars == <<pc, k, insnVars, status, cyc, sent, forwardList, cosimCanIssue,
          queueVars, lsqVars, l1Vars, sacVars>>

Insns == 0 .. Len(prog) - 1

Kind(i) == prog[i + 1].kind
Addr(i) == prog[i + 1].addr
Lat(i)  == prog[i + 1].lat

isCosimFunc(i) == Kind(i) \in {"cosim", "fence"}
isMem(i) == Kind(i) \in {"load", "store"}

Elems(s) == {s[j] : j \in 1 .. Len(s)}

\* The length of the longest prefix of s all of whose elements are in S.
PrefixIn(s, S) ==
    CHOOSE n \in 0 .. Len(s) :
        /\ \A j \in 1 .. n : s[j] \in S
        /\ n < Len(s) => s[n + 1] \notin S

Drop(s, n) == SubSeq(s, n + 1, Len(s))

\* The elements of s that are in S, in their order.
Only(s, S) ==
    LET f[n \in 0 .. Len(s)] ==
            IF n = 0 THEN <<>>
            ELSE IF s[n] \in S THEN Append(f[n - 1], s[n]) ELSE f[n - 1]
    IN  f[Len(s)]

Least(a, b) == IF a < b THEN a ELSE b

SetStatus(S, v) == [i \in Ids |-> IF i \in S THEN v ELSE status[i]]

-----------------------------------------------------------------------------
Init ==
    /\ pc = "commit" /\ k = 1
    /\ prog = <<>>
    /\ status = [i \in Ids |-> INIT] /\ deps = [i \in Ids |-> {}]
    /\ cyc = [i \in Ids |-> 0]
    /\ sent = {} /\ forwardList = [i \in Ids |-> {}] /\ cosimCanIssue = {}
    /\ insnQueue = <<>> /\ instList = <<>>
    /\ issueQueue = <<>> /\ cosimIssueQueue = <<>> /\ inFlightInsn = <<>>
    /\ LDQ = <<>> /\ STQ = <<>> /\ doneSeqNum = 0
    /\ free_load_ports = L1LoadPorts /\ free_store_ports = L1StorePorts
    /\ loading = {} /\ responses = {}
    /\ sac = <<>> /\ sac_room = TRUE

(***************************************************************************)
(* Core::commit.  retireInstruction retires finished instructions from the *)
(* head of the ROB; when the next one is an accelerator call that has not  *)
(* been allowed to issue, it is allowed to now.  Then the load and store   *)
(* queues drop their retired and sent heads, and inFlightInsn everything   *)
(* that is retired and not a store still to be sent.                       *)
(***************************************************************************)
Retired_NoStatusTest == Least(Len(instList), RetireSize)

Retired == Least(PrefixIn(instList, {i \in Insns : status[i] = FINISHED}), RetireSize)

AllowCosim ==
    {i \in Elems(instList) :
        /\ Retired < Least(RetireSize, Len(instList))
        /\ i = instList[Retired + 1]
        /\ isCosimFunc(i) /\ status[i] # FINISHED}

\* LDSTQ::commitMemOps(doneSN), with the status st after retirement.
commitMemOps(q, st, doneSN) ==
    Drop(q, PrefixIn(q, {i \in Insns : st[i] = COMMITED /\ i \in sent /\ i <= doneSN}))

StillInFlight(i, st) == st[i] # COMMITED \/ (isMem(i) /\ i \notin sent)

commit ==
    /\ pc = "commit"
    /\ cosimCanIssue' = cosimCanIssue \cup AllowCosim
    /\ LET st == SetStatus({instList[j] : j \in 1 .. Retired}, COMMITED)
           doneSN == IF Retired = 0 THEN doneSeqNum ELSE instList[Retired]
       IN  /\ status' = st
           /\ doneSeqNum' = doneSN
           /\ LDQ' = commitMemOps(LDQ, st, doneSN)
           /\ STQ' = commitMemOps(STQ, st, doneSN)
           /\ inFlightInsn' = Only(inFlightInsn, {i \in Insns : StillInFlight(i, st)})
    /\ instList' = Drop(instList, Retired)
    /\ pc' = "stonne"
    /\ UNCHANGED <<k, insnVars, cyc, sent, forwardList, insnQueue, issueQueue,
                   cosimIssueQueue, l1Vars, sacVars>>

(***************************************************************************)
(* Stonne::cycle: the accelerator commits some of its oldest commands, in  *)
(* order, and set_dyn_inst_finished puts their instructions in FINISHED.   *)
(***************************************************************************)
stonne(n, room) ==
    /\ pc = "stonne"
    /\ status' = SetStatus({sac[j] : j \in 1 .. n}, FINISHED)
    /\ sac' = Drop(sac, n)
    /\ sac_room' = room
    /\ n = Len(sac) => room
    /\ pc' = "execute" /\ k' = 1
    /\ UNCHANGED <<insnVars, cyc, sent, forwardList, cosimCanIssue, queueVars,
                   lsqVars, l1Vars>>

(***************************************************************************)
(* Core::execute, one instruction of inFlightInsn at a time.               *)
(***************************************************************************)
OlderStores(i) == {s \in Elems(STQ) : Addr(s) = Addr(i) /\ s < i}

Youngest(S) == CHOOSE s \in S : \A r \in S : r <= s

forwardData_SkipsRetired(i) ==
    LET older == {s \in OlderStores(i) \ {0} : status[s] # COMMITED} IN
    IF older = {} THEN {} ELSE {Youngest(older)}

\* LSUnit::forwardData keeps the youngest in dynID, which starts at 0 and must
\* be exceeded: store 0 is never the answer.
forwardData(i) ==
    LET older == OlderStores(i) \ {0} IN
    IF older = {} THEN {} ELSE {Youngest(older)}

executeLoad(i) ==
    /\ Kind(i) = "load"
    /\ IF status[i] # ISSUED
       THEN UNCHANGED <<status, sent, forwardList, free_load_ports, loading>>
       ELSE IF forwardData(i) # {}
       THEN LET s == CHOOSE s \in forwardData(i) : TRUE IN
            /\ UNCHANGED <<free_load_ports, loading>>
            /\ IF status[s] >= READY
               THEN /\ status' = [status EXCEPT ![i] = FINISHED]
                    /\ sent' = sent \cup {i}
                    /\ UNCHANGED forwardList
               ELSE /\ status' = [status EXCEPT ![i] = SLEEP]
                    /\ forwardList' = [forwardList EXCEPT ![s] = @ \cup {i}]
                    /\ UNCHANGED sent
       ELSE IF free_load_ports > 0
       THEN /\ status' = [status EXCEPT ![i] = EXECUTING]
            /\ sent' = sent \cup {i}
            /\ free_load_ports' = free_load_ports - 1
            /\ loading' = loading \cup {i}
            /\ UNCHANGED forwardList
       ELSE UNCHANGED <<status, sent, forwardList, free_load_ports, loading>>
    /\ UNCHANGED free_store_ports

Woken_Never(i) == {}

\* doForwardData completes the loads that sleep on the store.
Woken(i) == forwardList[i]

\* A store that has retired is sent to L1 when there is a port.
executeStore(i) ==
    /\ Kind(i) = "store"
    /\ LET sends == status[i] = COMMITED /\ i \notin sent /\ free_store_ports > 0 IN
        /\ sent' = sent \cup Woken(i) \cup (IF sends THEN {i} ELSE {})
        /\ free_store_ports' = IF sends THEN free_store_ports - 1 ELSE free_store_ports
    /\ status' = [j \in Ids |->
                    IF j \in Woken(i) THEN FINISHED
                    ELSE IF j = i /\ status[i] = ISSUED THEN EXECUTING
                    ELSE status[j]]
    /\ forwardList' = [forwardList EXCEPT ![i] = {}]
    /\ UNCHANGED <<free_load_ports, loading>>

executeOther(i) ==
    /\ ~isMem(i)
    /\ status' = [status EXCEPT ![i] = IF @ = ISSUED THEN EXECUTING ELSE @]
    /\ UNCHANGED <<sent, forwardList, free_load_ports, free_store_ports, loading>>

FinishesAtOnce_FenceToo(i) == isCosimFunc(i)

\* "isCosimFunc && !isCosimFence" is finished as soon as it is executed.
FinishesAtOnce(i) == Kind(i) = "cosim"

execute ==
    /\ pc = "execute" /\ k <= Len(inFlightInsn)
    /\ LET i == inFlightInsn[k] IN
        IF FinishesAtOnce(i)
        THEN /\ status' = [status EXCEPT ![i] = FINISHED]
             /\ UNCHANGED <<cyc, sent, forwardList, free_load_ports, free_store_ports, loading>>
        ELSE IF status[i] = FINISHED
        THEN UNCHANGED <<status, cyc, sent, forwardList, free_load_ports, free_store_ports, loading>>
        ELSE /\ cyc' = [cyc EXCEPT ![i] = Least(@ + 1, Lat(i))]
             /\ executeLoad(i) \/ executeStore(i) \/ executeOther(i)
    /\ k' = k + 1
    /\ UNCHANGED <<pc, insnVars, cosimCanIssue, queueVars, lsqVars, responses, sacVars>>

(***************************************************************************)
(* Core::writeBack.  LSUnit::wb completes the loads L1 has answered; then  *)
(* operations and stores that have run for their latency are finished.     *)
(***************************************************************************)

Completing(i) ==
    /\ i \in Elems(inFlightInsn) /\ Kind(i) \in {"op", "store"}
    /\ status[i] = EXECUTING /\ cyc[i] >= Lat(i)

writeBack ==
    /\ pc = "execute" /\ k > Len(inFlightInsn)
    /\ status' = SetStatus(responses \cup {i \in Insns : Completing(i)}, FINISHED)
    /\ responses' = {}
    /\ pc' = "issue" /\ k' = 1
    /\ UNCHANGED <<insnVars, cyc, sent, forwardList, cosimCanIssue, queueVars,
                   lsqVars, free_load_ports, free_store_ports, loading, sacVars>>

(***************************************************************************)
(* Core::issue.  IssueUnit::issue scans the first n instructions of the    *)
(* issue queue (it stops when every port is taken), marks the ones whose   *)
(* producers are done READY and schedules the set S of them.  What has no  *)
(* latency is finished on the spot.  Then at most one accelerator call is  *)
(* handed over.                                                            *)
(***************************************************************************)
checkInsnReady(i) == \A d \in deps[i] : status[d] >= FINISHED

CosimIssuing ==
    /\ cosimIssueQueue # <<>>
    /\ Head(cosimIssueQueue) \in cosimCanIssue
    /\ checkInsnReady(Head(cosimIssueQueue))
    /\ sac_room

ReadyIn(n) == {issueQueue[j] : j \in {h \in 1 .. n : checkInsnReady(issueQueue[h])}}

\* A load needs a port with a load unit.
FitsUnits(S) == Cardinality({i \in S : Kind(i) = "load"}) <= LoadUnits

NoLatency(i) == Lat(i) = 0 /\ Kind(i) # "load"

issue(n, S) ==
    /\ pc = "issue"
    /\ S \subseteq ReadyIn(n)
    /\ FitsUnits(S)
    /\ LET cosim == IF CosimIssuing THEN <<Head(cosimIssueQueue)>> ELSE <<>> IN
        /\ status' = [i \in Ids |->
                        IF i \in S THEN (IF NoLatency(i) THEN FINISHED ELSE ISSUED)
                        ELSE IF i \in ReadyIn(n) THEN READY
                        ELSE IF i \in Elems(cosim) THEN ISSUED
                        ELSE status[i]]
        /\ issueQueue' = Only(issueQueue, Elems(issueQueue) \ S)
        /\ cosimIssueQueue' = Drop(cosimIssueQueue, Len(cosim))
        /\ inFlightInsn' = inFlightInsn \o Only(issueQueue, S) \o cosim
        /\ sac' = sac \o cosim
    /\ pc' = "dispatch"
    /\ UNCHANGED <<k, insnVars, cyc, sent, forwardList, cosimCanIssue, insnQueue,
                   instList, lsqVars, l1Vars, sac_room>>

(***************************************************************************)
(* Core::dispatch: in order, while the ROB, the issue queue and the load   *)
(* or store queue have room.                                               *)
(***************************************************************************)
FirstOf(n, K) == Only(SubSeq(insnQueue, 1, n), {i \in Insns : Kind(i) \in K})

CanDispatch_NoStqTest(n) ==
    /\ Len(instList) + n <= RobSize
    /\ Len(issueQueue) + Len(FirstOf(n, {"op", "load", "store"})) <= IssueQSize
    /\ Len(cosimIssueQueue) + Len(FirstOf(n, {"cosim", "fence"})) <= IssueQSize
    /\ Len(LDQ) + Len(FirstOf(n, {"load"})) <= LdqSize

CanDispatch(n) ==
    /\ Len(instList) + n <= RobSize
    /\ Len(issueQueue) + Len(FirstOf(n, {"op", "load", "store"})) <= IssueQSize
    /\ Len(cosimIssueQueue) + Len(FirstOf(n, {"cosim", "fence"})) <= IssueQSize
    /\ Len(LDQ) + Len(FirstOf(n, {"load"})) <= LdqSize
    /\ Len(STQ) + Len(FirstOf(n, {"store"})) <= StqSize

dispatch ==
    /\ pc = "dispatch"
    /\ \E n \in 0 .. Least(Width, Len(insnQueue)) :
        /\ CanDispatch(n)
        /\ n < Least(Width, Len(insnQueue)) => ~CanDispatch(n + 1)
        /\ status' = SetStatus({insnQueue[j] : j \in 1 .. n}, ALLOCATED)
        /\ instList' = instList \o SubSeq(insnQueue, 1, n)
        /\ issueQueue' = issueQueue \o FirstOf(n, {"op", "load", "store"})
        /\ cosimIssueQueue' = cosimIssueQueue \o FirstOf(n, {"cosim", "fence"})
        /\ LDQ' = LDQ \o FirstOf(n, {"load"})
        /\ STQ' = STQ \o FirstOf(n, {"store"})
        /\ insnQueue' = Drop(insnQueue, n)
    /\ pc' = "rename"
    /\ UNCHANGED <<k, insnVars, cyc, sent, forwardList, cosimCanIssue,
                   inFlightInsn, doneSeqNum, l1Vars, sacVars>>

(***************************************************************************)
(* Core::rename.  uidDynOpMap gives the latest instance of each static     *)
(* instruction; the new one is entered before its own operands are looked  *)
(* up.  The instructions come from the front end, one call per step.       *)
(***************************************************************************)
Instances(p, u) == {i \in 0 .. Len(p) - 1 : p[i + 1].uid = u}

Producers(p, t) ==
    {Youngest(Instances(p, u)) : u \in {v \in t.src : Instances(p, v) # {}}}

rename(t) ==
    /\ pc = "rename"
    /\ Len(prog) < MaxInsns
    /\ Len(insnQueue) = k - 1 /\ k <= RetireSize
    /\ prog' = Append(prog, t)
    /\ deps' = [deps EXCEPT ![Len(prog)] = Producers(prog', t)]
    /\ insnQueue' = Append(insnQueue, Len(prog))
    /\ k' = k + 1
    /\ UNCHANGED <<pc, status, cyc, sent, forwardList, cosimCanIssue, instList,
                   issueQueue, cosimIssueQueue, inFlightInsn, lsqVars, l1Vars, sacVars>>

(***************************************************************************)
(* The end of the cycle: L1 answers some of the loads it has accepted, and *)
(* its ports are free again.                                               *)
(***************************************************************************)
l1_process(R) ==
    /\ pc = "rename"
    /\ loading' = loading \ R
    /\ responses' = responses \cup R
    /\ free_load_ports' = L1LoadPorts /\ free_store_ports' = L1StorePorts
    /\ pc' = "commit" /\ k' = 1
    /\ UNCHANGED <<insnVars, status, cyc, sent, forwardList, cosimCanIssue,
                   queueVars, lsqVars, sacVars>>

-----------------------------------------------------------------------------
Next ==
    \/ commit
    \/ \E n \in 0 .. Len(sac) : \E room \in BOOLEAN : stonne(n, room)
    \/ execute
    \/ writeBack
    \/ \E n \in 0 .. Len(issueQueue) : \E S \in SUBSET Elems(issueQueue) : issue(n, S)
    \/ dispatch
    \/ \E t \in Templates : rename(t)
    \/ \E R \in SUBSET loading : l1_process(R)

Spec == Init /\ [][Next]_vars

(***************************************************************************)
(* main() runs the core for ever; L1 answers every load, the accelerator   *)
(* commits what it was given, and the oldest ready instruction finds its   *)
(* port and unit free again and again.                                     *)
(***************************************************************************)
IssueOldest ==
    \E S \in SUBSET Elems(issueQueue) :
        /\ ReadyIn(Len(issueQueue)) # {}
            => \E i \in S : \A j \in ReadyIn(Len(issueQueue)) : i <= j
        /\ issue(Len(issueQueue), S)

FairSpec ==
    /\ Spec /\ WF_vars(Next)
    /\ SF_vars(l1_process(loading))
    /\ SF_vars(stonne(Len(sac), TRUE))
    /\ SF_vars(IssueOldest)

-----------------------------------------------------------------------------
\* Types, and the capacities that canDispatch guards: ROB, both issue queues,
\* load and store queue.
TypeOK ==
    /\ pc \in {"commit", "stonne", "execute", "issue", "dispatch", "rename"} /\ k \in Nat \ {0}
    /\ prog \in Seq(Templates) /\ Len(prog) <= MaxInsns
    /\ status \in [Ids -> INIT .. SLEEP] /\ deps \in [Ids -> SUBSET Ids]
    /\ cyc \in [Ids -> Nat] /\ forwardList \in [Ids -> SUBSET Ids]
    /\ sent \subseteq Ids /\ cosimCanIssue \subseteq Ids
    /\ insnQueue \in Seq(Ids) /\ inFlightInsn \in Seq(Ids) /\ doneSeqNum \in Ids \cup {0}
    /\ instList \in Seq(Ids) /\ Len(instList) <= RobSize
    /\ issueQueue \in Seq(Ids) /\ Len(issueQueue) <= IssueQSize
    /\ cosimIssueQueue \in Seq(Ids) /\ Len(cosimIssueQueue) <= IssueQSize
    /\ LDQ \in Seq(Ids) /\ Len(LDQ) <= LdqSize
    /\ STQ \in Seq(Ids) /\ Len(STQ) <= StqSize
    /\ free_load_ports \in 0 .. L1LoadPorts /\ free_store_ports \in 0 .. L1StorePorts
    /\ loading \subseteq Ids /\ responses \subseteq Ids
    /\ sac \in Seq(Ids) /\ sac_room \in BOOLEAN

\* "if all dependent insns finish, set insn ready" (window.h): an issued
\* instruction's producers have all finished, and none still waits for data.
OperandsFinished ==
    \A i \in Insns : status[i] >= ISSUED => \A d \in deps[i] : status[d] \in {FINISHED, COMMITED}

\* Retirement is precise: what has left the ROB has done its work, a load has
\* its data, and nothing older is still in the ROB, in whatever order the
\* instructions were issued and finished.  (set_dyn_inst_finished may put an
\* accelerator call back to FINISHED after that.)
PreciseRetirement ==
    \A i \in Insns : status[i] >= ALLOCATED /\ i \notin Elems(instList) =>
        /\ status[i] = COMMITED \/ (isCosimFunc(i) /\ status[i] = FINISHED)
        /\ i \notin loading \cup responses
        /\ \A s \in Ids : i \notin forwardList[s]
        /\ \A j \in Elems(instList) : i < j

\* Accelerator calls are not speculative: one that has been handed over had
\* every older instruction retired, so the accelerator receives its commands
\* in program order (cosimCanIssue, set only at the head of the ROB).
CosimAtHead ==
    \A c \in Insns : isCosimFunc(c) /\ status[c] >= ISSUED =>
        /\ \A i \in 0 .. c - 1 : i \notin Elems(instList)
        /\ \A i \in 0 .. c - 1 : isCosimFunc(i) => i \notin Elems(cosimIssueQueue)

\* A retired fence means the accelerator has committed every older command,
\* although the calls themselves retire as soon as they are handed over.
FenceDrains ==
    \A f \in Insns : Kind(f) = "fence" /\ status[f] >= FINISHED =>
        \A j \in 1 .. Len(sac) : sac[j] > f

\* A load never reads memory while an older store to its address is still on
\* the way there: it is forwarded the store's data instead.  (The
\* store with number 0 is never found by the search and is left out.)
MemoryOrder ==
    \A i \in loading \cup responses : \A s \in 1 .. i - 1 :
        Kind(s) = "store" /\ Addr(s) = Addr(i) => s \in sent

\* A sleeping load is on the list of exactly one store, which is older, has
\* its address and is the youngest such store, and which will still be
\* executed and wake it; what is on a list sleeps (the assertion of
\* doForwardData).
SleepersHaveAWaker ==
    /\ \A s \in Ids : \A i \in forwardList[s] : status[i] = SLEEP
    /\ \A i \in Insns : status[i] = SLEEP =>
        \E s \in Elems(STQ) :
            /\ {r \in Ids : i \in forwardList[r]} = {s}
            /\ s < i /\ Addr(s) = Addr(i)
            /\ \A r \in s + 1 .. i - 1 : Kind(r) = "store" => Addr(r) # Addr(i)
            /\ s \in Elems(issueQueue) \cup Elems(inFlightInsn)

\* The assertions of Core::writeBack and LDSTQ::completeInstruction: no load
\* reaches write back merely issued, and an answered load is waiting for it.
WriteBackAsserts ==
    /\ pc = "execute" /\ k > Len(inFlightInsn) =>
        \A i \in Elems(inFlightInsn) :
            isCosimFunc(i) \/ status[i] \in {EXECUTING, SLEEP, FINISHED, COMMITED}
    /\ \A i \in loading \cup responses : status[i] = EXECUTING

\* A retired store stays in inFlightInsn, whose scan sends it to L1, and in the
\* store queue, where loads find it, until it is sent.
StoresReachMemory ==
    \A s \in Insns : Kind(s) = "store" /\ status[s] = COMMITED /\ s \notin sent =>
        s \in Elems(inFlightInsn) /\ s \in Elems(STQ)

\* A load gets the data of the youngest older store to its address, in whatever
\* order the two are issued, and every store gets to memory: forwarding, sleep
\* and wake-up, and the way of a retired store to L1.
LoadsSeeStores == MemoryOrder /\ SleepersHaveAWaker /\ StoresReachMemory

\* The accelerator is given its commands in program order and not before they
\* are certain, and a retired fence means it has done them.
AcceleratorInOrder == CosimAtHead /\ FenceDrains

\* No queue is overfilled and no assertion of the stages fails.
WithinLimits == TypeOK /\ WriteBackAsserts

\* How far an instruction has come; SLEEP, the largest value of the enum,
\* lies between ISSUED and FINISHED.
Progress(v) == IF v = SLEEP THEN EXECUTING ELSE v

\* No instruction of the CPU proper is ever set back.
NeverSetBack ==
    [][\A i \in Insns : isCosimFunc(i) \/ Progress(status'[i]) >= Progress(status[i])]_vars

\* Every instruction that is renamed leaves the ROB in the end and every store
\* gets to memory: again and again all of them have, and none is set back.
EventuallyRetired ==
    /\ NeverSetBack
    /\ []<>(\A i \in Insns : /\ status[i] >= FINISHED /\ i \notin Elems(instList)
                             /\ Kind(i) = "store" => i \in sent)
=============================================================================
