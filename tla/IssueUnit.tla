------------------------------- MODULE IssueUnit -------------------------------
(***************************************************************************)
(* IssueUnit (src/issue_unit.cpp): the choice of issue ports and           *)
(* functional units for the instructions of the issue queue, and the       *)
(* bookkeeping of busy ports (releaseCycle), busy units (fuUsage) and free *)
(* units per kind (fuAvalMap), through issue, execution and write back.    *)
(*                                                                         *)
(* The stages of Core::run follow in their order; IssueUnit::issue takes   *)
(* one step for each instruction of the queue.  When an instruction's      *)
(* operands are ready and when a finished one retires is decided in        *)
(* Backend: here any instruction may become ready and any finished one     *)
(* retire.  Load units are pipelined and never held, so that the sleep of  *)
(* loads does not matter here.                                             *)
(***************************************************************************)
EXTENDS Integers, Sequences, FiniteSets

CONSTANTS
    PortFUs,        \* portConfigs: for each port the kinds of its units, in order
    NotPipelined,   \* notPipelineFUs
    Templates,      \* InstConfig: [uops, fus, lat]; a uop is [stall, ports]
    NaiveModes,     \* the values of params->naive to consider
    IssueQSize,
    MaxOps          \* bound: instructions in a behaviour

Ports == 1 .. Len(PortFUs)
Units == {u \in Ports \X (1 .. 8) : u[2] <= Len(PortFUs[u[1]])}
FU(u) == PortFUs[u[1]][u[2]]
FUs == {FU(u) : u \in Units}
Ops == 1 .. MaxOps

Elems(s) == {s[j] : j \in 1 .. Len(s)}
First(S) == CHOOSE n \in S : \A m \in S : n <= m

\* A template names existing ports and kinds.  A unit that is not pipelined
\* needs at least one cycle, as in every shipped configuration.
ASSUME TemplatesAssumption ==
    /\ Len(PortFUs) \in Nat /\ MaxOps \in Nat
    /\ \A p \in Ports : Len(PortFUs[p]) \in 0 .. 8
    /\ \A t \in Templates :
        /\ Len(t.uops) \in Nat /\ Len(t.fus) \in Nat
        /\ \A j \in 1 .. Len(t.uops) :
              /\ Len(t.uops[j].ports) \in Nat /\ Elems(t.uops[j].ports) \subseteq Ports
              /\ t.uops[j].stall \in Nat \ {0}
        /\ \A a \in 1 .. Len(t.fus) : Len(t.fus[a]) \in Nat /\ Elems(t.fus[a]) \subseteq FUs
        /\ t.lat \in Nat
        /\ (\E a \in 1 .. Len(t.fus) : Elems(t.fus[a]) \cap NotPipelined # {}) => t.lat > 0

VARIABLES
    naive,          \* IssueUnit::naive, set once from the configuration
    stage, iter,    \* the stage that runs next; position of issue's iterator
    ops,            \* the instructions dispatched so far
    issueQueue,
    ready,          \* instructions canIssue has found ready
    state, cyc,     \* progress of each instruction; its currentCycle
    occupied,       \* the ports taken in this cycle, as often as they are pushed
    release,        \* releaseCycle of each port, counted from the current cycle
    fuUsage,        \* the busy units
    fuAvalMap,
    using,          \* for each instruction usingPorts and usingFuIDs as units
    claims          \* history: [op, port, left], the ports instructions were given

issueVars == <<naive, stage, iter, ops, issueQueue, ready, state, cyc, occupied, release,
               fuUsage, fuAvalMap, using, claims>>

IssueInit ==
    /\ naive \in NaiveModes
    /\ stage = "commit" /\ iter = 1
    /\ ops = <<>> /\ issueQueue = <<>> /\ ready = {}
    /\ state = [o \in Ops |-> "none"] /\ cyc = [o \in Ops |-> 0]
    /\ occupied = <<>> /\ release = [p \in Ports |-> 0]
    /\ fuUsage = {}
    /\ fuAvalMap = [f \in FUs |-> Cardinality({u \in Units : FU(u) = f})]
    /\ using = [o \in Ops |-> {}]
    /\ claims = {}

-----------------------------------------------------------------------------
\* sortFUs: scarce kinds first; std::sort leaves the order of equals open.
sortFUs(fus) ==
    {s \in [1 .. Len(fus) -> Elems(fus)] :
        /\ \A f \in Elems(fus) : Cardinality({n \in DOMAIN s : s[n] = f})
                                = Cardinality({n \in DOMAIN fus : fus[n] = f})
        /\ \A m, n \in DOMAIN s : m < n => fuAvalMap[s[m]] <= fuAvalMap[s[n]]}

\* getAvailablePort: the units of kind f that are free, on a port of ws that
\* the instruction allows and that is neither taken nor blocked.
AvailableUnits(f, t, ws, taken) ==
    {<<ws[j], i>> : j \in {j \in 1 .. Len(ws) :
                            /\ ws[j] \in UNION {Elems(t.uops[n].ports) : n \in 1 .. Len(t.uops)}
                            /\ ws[j] \notin taken
                            /\ naive \/ release[ws[j]] = 0}, i \in 1 .. 8}
        \cap {u \in Units \ fuUsage : FU(u) = f}

getAvailablePort(f, t, ws, taken) ==
    LET av == AvailableUnits(f, t, ws, taken)
        j  == First({j \in 1 .. Len(ws) : \E u \in av : u[1] = ws[j]})
    IN  <<ws[j], First({i \in 1 .. 8 : <<ws[j], i>> \in av})>>

\* The loop over the units of one alternative, one unit: try.units are avalIDs
\* and avalPorts, try.taken is tmpOccupied, try.ok is portAva.
TryUnit(try, f, t, ws) ==
    IF try.ok /\ AvailableUnits(f, t, ws, try.taken) # {}
    THEN LET u == getAvailablePort(f, t, ws, try.taken)
         IN  [ok    |-> TRUE,
              units |-> try.units \cup (IF f \in NotPipelined THEN {u} ELSE {}),
              taken |-> try.taken \cup {u[1]}]
    ELSE [try EXCEPT !.ok = FALSE]

\* One alternative: the outcome for an order s of its units.
TryAlternative(start, s, t, ws) ==
    LET f[n \in 0 .. Len(s)] ==
            IF n = 0 THEN {start} ELSE {TryUnit(try, s[n], t, ws) : try \in f[n - 1]}
    IN  CHOOSE try \in f[Len(s)] : TRUE

\* The loop over op->fus: the possible outcomes.  In the port model an
\* alternative starts with what the failed ones before it have left behind;
\* in the naive model afresh.
TryAll(t, ws, taken) ==
    LET none == [ok |-> FALSE, units |-> {}, taken |-> taken]
        After(try, fus) ==
            IF try.ok THEN {try}
            ELSE {TryAlternative([(IF naive THEN none ELSE try) EXCEPT !.ok = TRUE], s, t, ws) :
                    s \in sortFUs(fus)}
        g[a \in 0 .. Len(t.fus)] ==
            IF a = 0 THEN {none} ELSE UNION {After(try, t.fus[a]) : try \in g[a - 1]}
    IN  g[Len(t.fus)]

\* scheduleUops: the first free port for each uop in turn; all or nothing.
scheduleUops(t) ==
    LET w[n \in 0 .. Len(t.uops)] ==
            IF n = 0 THEN <<>>
            ELSE LET free == {j \in 1 .. Len(t.uops[n].ports) :
                                /\ t.uops[n].ports[j] \notin Elems(w[n - 1]) \cup Elems(occupied)
                                /\ release[t.uops[n].ports[j]] = 0}
                 IN  IF free = {} THEN w[n - 1]
                     ELSE Append(w[n - 1], t.uops[n].ports[First(free)])
    IN  IF Len(w[Len(t.uops)]) = Len(t.uops) THEN w[Len(t.uops)] ELSE <<>>

-----------------------------------------------------------------------------
\* occupyFU and the count of free units, for the units an instruction takes.
Taken(units) == [f \in FUs |-> fuAvalMap[f] - Cardinality({u \in units : FU(u) = f})]

\* freeFU: only units that are not pipelined are in the list.
Freed(units) ==
    [f \in FUs |-> fuAvalMap[f] + Cardinality({u \in units : FU(u) = f /\ f \in NotPipelined})]

\* doIssue after a successful schedule; pushed are the ports it appends to
\* occupied, held the ports the instruction is given with their stalls.
Issued(o, units, pushed, held) ==
    /\ state' = [state EXCEPT ![o] = IF ops[o].lat = 0 THEN "finished" ELSE "running"]
    /\ occupied' = occupied \o pushed
    /\ fuAvalMap' = Taken(units)
    /\ using' = [using EXCEPT ![o] = units]
    /\ fuUsage' = fuUsage \cup units
    /\ issueQueue' = SubSeq(issueQueue, 1, iter - 1) \o SubSeq(issueQueue, iter + 1, Len(issueQueue))
    /\ iter' = iter
    /\ claims' = claims \cup {[op |-> o, port |-> h[1], left |-> h[2]] : h \in held}

\* The iterator moves on; the instruction stays in the queue.
NotIssued(pushed) ==
    /\ occupied' = occupied \o pushed
    /\ iter' = iter + 1
    /\ UNCHANGED <<state, fuAvalMap, using, fuUsage, issueQueue, claims, release>>

\* schedulePortModel.  scheduleUops has already appended its ports when the
\* units turn out to be busy; on success they are appended a second time.
schedulePortModel(o) ==
    \E w \in {scheduleUops(ops[o])} : \E try \in TryAll(ops[o], w, {}) :
        \/ /\ w = <<>>
           /\ NotIssued(<<>>)
        \/ /\ w # <<>> /\ ~try.ok
           /\ NotIssued(w)
        \/ /\ w # <<>> /\ try.ok
           /\ Issued(o, try.units, w \o w,
                     {<<w[n], ops[o].uops[n].stall>> : n \in 1 .. Len(w)})
           /\ release' = [p \in Ports |->
                            IF p \in Elems(w)
                            THEN ops[o].uops[CHOOSE n \in 1 .. Len(w) : w[n] = p].stall
                            ELSE release[p]]

\* scheduleNaiveModel.  Only the ports of units that are not pipelined are
\* appended to occupied.
scheduleNaiveModel(o) ==
    \E try \in TryAll(ops[o], [p \in Ports |-> p], Elems(occupied)) :
        \/ /\ ~try.ok
           /\ NotIssued(<<>>)
        \/ /\ try.ok
           /\ LET pushed == CHOOSE s \in [1 .. Cardinality(try.units) -> Ports] :
                               Elems(s) = {u[1] : u \in try.units}
              IN  Issued(o, try.units, pushed,
                         {<<p, 1>> : p \in try.taken \ Elems(occupied)})
           /\ UNCHANGED release

\* IssueUnit::issue, one instruction.
issueOne ==
    /\ stage = "issue" /\ iter <= Len(issueQueue)
    /\ \/ /\ issueQueue[iter] \in ready
          /\ IF naive THEN scheduleNaiveModel(issueQueue[iter])
                      ELSE schedulePortModel(issueQueue[iter])
       \/ /\ issueQueue[iter] \notin ready
          /\ NotIssued(<<>>)
    /\ stage' = IF Len(occupied') = Len(PortFUs) THEN "dispatch" ELSE "issue"
    /\ UNCHANGED <<naive, ops, ready, cyc>>

issueEnd ==
    /\ stage = "issue" /\ iter > Len(issueQueue)
    /\ stage' = "dispatch"
    /\ UNCHANGED <<naive, iter, ops, issueQueue, ready, state, cyc, occupied, release,
                   fuUsage, fuAvalMap, using, claims>>

-----------------------------------------------------------------------------
\* Core::dispatch fills the queue; then the next cycle begins.  Instructions
\* become ready by what happens in the stages this module leaves out, so that
\* several dispatched in one cycle are no different here from the same ones
\* dispatched one by one and ready together later.
dispatch ==
    /\ stage = "dispatch"
    /\ \/ UNCHANGED <<ops, issueQueue, state>>
       \/ /\ Len(ops) < MaxOps /\ Len(issueQueue) < IssueQSize
          /\ \E t \in Templates : ops' = Append(ops, t)
          /\ issueQueue' = Append(issueQueue, Len(ops) + 1)
          /\ state' = [state EXCEPT ![Len(ops) + 1] = "queued"]
    /\ \E R \in SUBSET Elems(issueQueue') : ready' = ready \cup R
    /\ release' = [p \in Ports |-> IF release[p] = 0 THEN 0 ELSE release[p] - 1]
    /\ claims' = {[c EXCEPT !.left = c.left - 1] : c \in {c \in claims : c.left > 1}}
    /\ occupied' = <<>> /\ iter' = 1
    /\ stage' = "commit"
    /\ UNCHANGED <<naive, cyc, fuUsage, fuAvalMap, using>>

\* Core::commit retires finished instructions, Core::execute counts cycles.
commitExecute ==
    /\ stage = "commit"
    /\ \E R \in SUBSET {o \in Ops : state[o] = "finished"} :
          state' = [o \in Ops |-> IF o \in R THEN "retired" ELSE state[o]]
    /\ cyc' = [o \in Ops |-> IF state[o] = "running" THEN cyc[o] + 1 ELSE cyc[o]]
    /\ stage' = "writeBack"
    /\ UNCHANGED <<naive, iter, ops, issueQueue, ready, occupied, release, fuUsage, fuAvalMap, using, claims>>

Finishing == {o \in Ops : state[o] = "running" /\ cyc[o] >= ops[o].lat}

\* What is finished, in this cycle or before, gives up its units.
FreeingOps_OnlyOld == {o \in Ops : state[o] = "finished"}

FreeingOps == Finishing \cup {o \in Ops : state[o] = "finished"}

\* Core::writeBack clears the lists of the instruction (DynamicOperation::freeFU).
UsingAfter == [o \in Ops |-> IF o \in FreeingOps THEN {} ELSE using[o]]

writeBack ==
    /\ stage = "writeBack"
    /\ state' = [o \in Ops |-> IF o \in Finishing THEN "finished" ELSE state[o]]
    /\ LET units == UNION {using[o] : o \in FreeingOps}
       IN  /\ fuUsage' = fuUsage \ units
           /\ fuAvalMap' = Freed(units)
    /\ using' = UsingAfter
    /\ stage' = "issue"
    /\ UNCHANGED <<naive, iter, ops, issueQueue, ready, cyc, occupied, release, claims>>

IssueNext == issueOne \/ issueEnd \/ dispatch \/ commitExecute \/ writeBack

IssueSpec == IssueInit /\ [][IssueNext]_issueVars

\* Core::run is called in a loop.  The oldest instruction of the queue becomes
\* ready: what it waits for has left the queue and will finish.
IssueFairness ==
    /\ WF_issueVars(IssueNext)
    /\ SF_issueVars(dispatch /\ (issueQueue' # <<>> => issueQueue'[1] \in ready'))

FairIssueSpec == IssueSpec /\ IssueFairness

-----------------------------------------------------------------------------
\* The three records of the units agree through issue, failed alternatives,
\* execution and write back: a unit is busy exactly while one instruction in
\* execution holds it, nothing else holds it, and the count of free units by
\* which sortFUs ranks the kinds is their number.
UnitsAccountedFor ==
    /\ fuUsage = UNION {using[o] : o \in Ops}
    /\ \A o1, o2 \in Ops : o1 # o2 => using[o1] \cap using[o2] = {}
    /\ \A o \in Ops : using[o] # {} => state[o] = "running"
    /\ \A f \in FUs :
          fuAvalMap[f] = Cardinality({u \in Units : FU(u) = f})
                          - Cardinality({u \in fuUsage : FU(u) = f})

\* In the port model a port serves one instruction at a time: no two hold a
\* port in overlapping spans, neither two of one cycle (occupied) nor a later
\* one during the stall of an earlier one (releaseCycle).
OneInsnPerPort ==
    ~naive => \A c, d \in claims : c # d => c.port # d.port

\* Ports and units go to one instruction at a time and come back.
OneUserAtATime == UnitsAccountedFor /\ OneInsnPerPort

\* Every instruction that is dispatched is issued in the end: the search for
\* ports and units always comes back to the oldest instructions, and again and
\* again the queue runs empty.
EventuallyIssued == []<>(issueQueue = <<>>)
=============================================================================
