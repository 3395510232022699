----------------------------- MODULE CacheHierarchy -----------------------------
(***************************************************************************)
(* The memory hierarchy (src/mem/cache.cpp, FunctionalCache.cpp,           *)
(* DRAM.cpp): an instruction L1 and a data L1 above one L2, which the DMA  *)
(* engine also uses, above the memory interface.  Only presence and        *)
(* dirtiness of lines are kept, as in the code; there is no data.          *)
(*                                                                         *)
(* In a cycle the core, the instruction fetch unit and the DMA engine      *)
(* offer requests; then L1I, L1D and L2 run process() in this order, and   *)
(* then the memory interface.  pc names the component and the stage of its *)
(* process() that runs next.  A transaction of the code is one object that *)
(* stays with its owner while the first miss on its line also travels      *)
(* down; here both are occurrences of the same record.                     *)
(***************************************************************************)
EXTENDS Integers, Sequences, SequencesExt, FiniteSets, FunctionalCache

CONSTANTS
    Lines,          \* cache line numbers that requests use
    Requests,       \* requests made: [port, load, line]
    MaxRequests,    \* bound: requests in a behaviour
    Sets, Ways,     \* per cache: set_count and associativity
    Latency,        \* per cache: access latency
    MshrSize,       \* per cache: MSHR entries
    LoadPorts, StorePorts,  \* per cache: ports per cycle
    ReadPorts, WritePorts,  \* ports of the memory interface
    MayRefuse       \* the memory may refuse a transaction (DRAMSim2 does)

L1s == {"L1I", "L1D"}
Caches == L1s \cup {"L2"}

ASSUME RequestsAssumption ==
    /\ Lines \subseteq Nat
    /\ \A r \in Requests :
          /\ r.port \in {"L1I", "L1D", "DMA"} /\ r.load \in BOOLEAN /\ r.line \in Lines
          /\ r.port = "L1I" => r.load

ASSUME SizeAssumption ==
    /\ MaxRequests \in Nat /\ MayRefuse \in BOOLEAN
    /\ ReadPorts \in Nat \ {0} /\ WritePorts \in Nat \ {0}
    /\ \A size \in {Sets, Ways, Latency, MshrSize, LoadPorts, StorePorts} :
          size \in [Caches -> Nat \ {0}]

VARIABLES
    pc,             \* <<component, stage>>
    issued,         \* requests made so far
    waiting,        \* requests not yet answered (or, for L1 stores, deleted)
    inReq, inResp, outReq, outResp,     \* the four vectors of a Cache
    stalled,        \* stalledTransactions
    pq,             \* [t, hit, due, conflict]; due counts down
    mshr,           \* line -> opset, <<>> when the line has no entry
    evicts,         \* evictAddresses: [line, dirty]
    lru,            \* fc: set number -> set
    freeLd, freeSt, \* free_load_ports, free_store_ports
    dramReads,      \* outstanding_read_map
    dramWrites,     \* outstanding_write_map, its queue lengths
    freeRd, freeWr  \* free_read_ports, free_write_ports

ports == <<freeLd, freeSt>>
dram == <<dramReads, dramWrites, freeRd, freeWr>>
client == <<issued, waiting>>
vars == <<pc, client, inReq, inResp, outReq, outResp, stalled, pq, mshr, evicts,
          lru, ports, dram>>

\* hwID = -1 marks an eviction; nothing else about it is used.
EvictOf(line) == [id |-> 0, port |-> "evict", load |-> FALSE, line |-> line]

\* The n-th transaction, made for request r.
Transaction(n, r) == [id |-> n, port |-> r.port, load |-> r.load, line |-> r.line]

Owner(t) == IF t.port = "DMA" THEN "L2" ELSE t.port

SetOf(c, line) == line % Sets[c]

Init ==
    /\ pc = <<"CPU", "submit">>
    /\ issued = 0 /\ waiting = {}
    /\ inReq = [c \in Caches |-> <<>>]
    /\ inResp = inReq /\ outReq = inReq /\ outResp = inReq
    /\ stalled = inReq /\ pq = inReq /\ evicts = inReq
    /\ mshr = [c \in Caches |-> [l \in Lines |-> <<>>]]
    /\ lru = [c \in Caches |-> [s \in 0 .. Sets[c] - 1 |-> <<>>]]
    /\ freeLd = LoadPorts /\ freeSt = StorePorts
    /\ dramReads = [l \in Lines |-> <<>>] /\ dramWrites = [l \in Lines |-> 0]
    /\ freeRd = ReadPorts /\ freeWr = WritePorts

-----------------------------------------------------------------------------
(* Requests from above.                                                    *)

\* willAcceptTransaction, for the ports left
Accepts(ld, st, t) == IF t.load THEN ld > 0 ELSE st > 0

\* recvRequest's use of a port
LoadsLeft(ld, t) == IF t.load THEN ld - 1 ELSE ld
StoresLeft(st, t) == IF t.load THEN st ELSE st - 1

\* One instruction fetch is under way at a time (IFU::occupied).
FetchFree == \A t \in waiting : t.port # "L1I"

\* LSUnit::executeLoad/executeStore, IFU::IF0, DMAEngine::cycle
submit(r) ==
    LET t == Transaction(issued + 1, r)
        c == Owner(t)
    IN  /\ pc = <<"CPU", "submit">>
        /\ issued < MaxRequests
        /\ r.port = "L1I" => FetchFree
        /\ Accepts(freeLd[c], freeSt[c], t)
        /\ issued' = issued + 1
        /\ waiting' = waiting \cup {t}
        /\ inReq' = [inReq EXCEPT ![c] = Append(@, t)]
        /\ freeLd' = [freeLd EXCEPT ![c] = LoadsLeft(@, t)]
        /\ freeSt' = [freeSt EXCEPT ![c] = StoresLeft(@, t)]
        /\ UNCHANGED <<pc, inResp, outReq, outResp, stalled, pq, mshr, evicts, lru, dram>>

run ==
    /\ pc = <<"CPU", "submit">>
    /\ pc' = <<"L1I", "requests">>
    /\ UNCHANGED <<client, inReq, inResp, outReq, outResp, stalled, pq, mshr, evicts,
                   lru, ports, dram>>

-----------------------------------------------------------------------------
(* Cache::process, the part common to every level.                         *)

\* Whether it hits is settled here, when the request arrives, and not when its
\* latency is over.
Arrive(c, s, t) ==
    LET i == SetOf(c, t.line)
    IN  [sets |-> [s.sets EXCEPT ![i] = access(@, t.line, t.load)],
         pq |-> Append(s.pq, [t |-> t, hit |-> present(s.sets[i], t.line),
                              due |-> Latency[c] - 1, conflict |-> FALSE])]

ArriveEach(c, s, q) == FoldLeft(LAMBDA a, t : Arrive(c, a, t), s, q)

handleRequests(c) ==
    LET s == ArriveEach(c, [sets |-> lru[c], pq |-> pq[c]], inReq[c])
    IN  /\ pc = <<c, "requests">>
        /\ lru' = [lru EXCEPT ![c] = s.sets]
        /\ pq' = [pq EXCEPT ![c] = s.pq]
        /\ inReq' = [inReq EXCEPT ![c] = <<>>]
        /\ pc' = <<c, "stalled">>
        /\ UNCHANGED <<client, inResp, outReq, outResp, stalled, mshr, evicts, ports, dram>>

MshrUsed(m) == Cardinality({l \in Lines : m[l] # <<>>})

\* Mutant: nothing is done for a line that already has an entry.
enterMSHR_DropsLater(c, s, t) ==
    IF s.mshr[t.line] # <<>> THEN s
    ELSE IF MshrUsed(s.mshr) >= MshrSize[c] THEN [s EXCEPT !.stalled = Append(@, t)]
    ELSE [s EXCEPT !.mshr[t.line] = Append(@, t), !.out = Append(@, t)]

\* The first miss on a line takes an entry and goes down; later ones join it.
enterMSHR(c, s, t) ==
    IF s.mshr[t.line] = <<>> /\ MshrUsed(s.mshr) >= MshrSize[c]
    THEN [s EXCEPT !.stalled = Append(@, t)]
    ELSE [s EXCEPT !.mshr[t.line] = Append(@, t),
                   !.out = IF s.mshr[t.line] = <<>> THEN Append(@, t) ELSE @]

MissState(c, waitList) == [mshr |-> mshr[c], out |-> outReq[c], stalled |-> waitList]

EnterEach(c, s, q) == FoldLeft(LAMBDA a, t : enterMSHR(c, a, t), s, q)

EnterAll(c, s) ==
    /\ mshr' = [mshr EXCEPT ![c] = s.mshr]
    /\ outReq' = [outReq EXCEPT ![c] = s.out]
    /\ stalled' = [stalled EXCEPT ![c] = s.stalled]

retryStalled(c) ==
    /\ pc = <<c, "stalled">>
    /\ EnterAll(c, EnterEach(c, MissState(c, <<>>), stalled[c]))
    /\ pc' = <<c, "pq">>
    /\ UNCHANGED <<client, inReq, inResp, outResp, pq, evicts, lru, ports, dram>>

Due(c) == {i \in 1 .. Len(pq[c]) : pq[c][i].due = 0}

\* The loop over pq.  Among transactions due at the same time the heap's order
\* is unspecified.  An eviction that misses is dropped.
processPq(c) ==
    \E i \in Due(c) :
        LET e == pq[c][i] IN
        /\ pc = <<c, "pq">>
        /\ pq' = [pq EXCEPT ![c] = RemoveAt(@, i)]
        /\ outResp' = [outResp EXCEPT ![c] =
                           IF e.hit /\ e.t.port # "evict" THEN Append(@, e.t) ELSE @]
        /\ IF ~e.hit /\ e.t.port # "evict"
           THEN EnterAll(c, enterMSHR(c, MissState(c, stalled[c]), e.t))
           ELSE UNCHANGED <<mshr, outReq, stalled>>
        /\ UNCHANGED <<pc, client, inReq, inResp, evicts, lru, ports, dram>>

\* completeTransaction and updateMSHR: the line is filled with the dirtiness of
\* the transaction that went down, its victim is queued for eviction, and all
\* transactions of the MSHR entry are answered.
Fill(c, s, t) ==
    LET i == SetOf(c, t.line)
    IN  [sets |-> [s.sets EXCEPT ![i] = insert(@, t.line, t.load, Ways[c])],
         evicts |-> s.evicts \o [j \in 1 .. Len(Victims(s.sets[i], Ways[c])) |->
                        [line |-> Last(s.sets[i]).line, dirty |-> Last(s.sets[i]).dirty]],
         out |-> s.out \o s.mshr[t.line],
         mshr |-> [s.mshr EXCEPT ![t.line] = <<>>]]

FillEach(c, s, q) == FoldLeft(LAMBDA a, t : Fill(c, a, t), s, q)

handleResponses(c) ==
    LET s == FillEach(c, [sets |-> lru[c], evicts |-> evicts[c], out |-> outResp[c],
                          mshr |-> mshr[c]], inResp[c])
    IN  /\ pc = <<c, "pq">> /\ Due(c) = {}
        /\ lru' = [lru EXCEPT ![c] = s.sets]
        /\ evicts' = [evicts EXCEPT ![c] = s.evicts]
        /\ outResp' = [outResp EXCEPT ![c] = s.out]
        /\ mshr' = [mshr EXCEPT ![c] = s.mshr]
        /\ inResp' = [inResp EXCEPT ![c] = <<>>]
        /\ pc' = <<c, "respond">>
        /\ UNCHANGED <<client, inReq, outReq, stalled, pq, ports, dram>>

-----------------------------------------------------------------------------
(* L1Cache and L2Cache.                                                    *)

\* L1Cache::sendResponses: loads to the LSU or the IFU, stores are deleted.
sendResponsesL1(c) ==
    /\ c \in L1s /\ pc = <<c, "respond">>
    /\ waiting' = waiting \ ToSet(outResp[c])
    /\ outResp' = [outResp EXCEPT ![c] = <<>>]
    /\ pc' = <<c, "send">>
    /\ UNCHANGED <<issued, inReq, inResp, outReq, stalled, pq, mshr, evicts, lru, ports, dram>>

Answered(c, s, t) == IF t.port = c THEN Append(s, t) ELSE s

AnswerEach(c, s, q) == FoldLeft(LAMBDA a, t : Answered(c, a, t), s, q)

\* L2Cache::sendResponses: to the DMA engine or to the L1 the request came from.
sendResponsesL2 ==
    /\ pc = <<"L2", "respond">>
    /\ waiting' = waiting \ {t \in ToSet(outResp["L2"]) : t.port = "DMA"}
    /\ inResp' = [c \in Caches |-> AnswerEach(c, inResp[c], outResp["L2"])]
    /\ outResp' = [outResp EXCEPT !["L2"] = <<>>]
    /\ pc' = <<"L2", "send">>
    /\ UNCHANGED <<issued, inReq, outReq, stalled, pq, mshr, evicts, lru, ports, dram>>

\* Offered to L2, or kept in outcomingRequests for the next cycle.
Offer(s, t) ==
    IF Accepts(s.ld, s.st, t)
    THEN [s EXCEPT !.in = Append(@, t), !.ld = LoadsLeft(@, t), !.st = StoresLeft(@, t)]
    ELSE [s EXCEPT !.keep = Append(@, t)]

OfferEach(s, q) == FoldLeft(Offer, s, q)

WrittenBack(s, e) == IF e.dirty THEN Append(s, EvictOf(e.line)) ELSE s

WriteBackEach(s, q) == FoldLeft(WrittenBack, s, q)

WriteBacks(c) == WriteBackEach(<<>>, evicts[c])

Aged(q) == [i \in 1 .. Len(q) |-> [q[i] EXCEPT !.due = IF @ > 0 THEN @ - 1 ELSE 0]]

After(c) == CASE c = "L1I" -> <<"L1D", "requests">>
              [] c = "L1D" -> <<"L2", "requests">>
              [] c = "L2"  -> <<"DRAM", "update">>

\* L1Cache::sendRequests, misses first and then dirty victims, and the end of
\* L1Cache::process.
sendRequestsL1(c) ==
    LET s == OfferEach([in |-> inReq["L2"], ld |-> freeLd["L2"],
                        st |-> freeSt["L2"], keep |-> <<>>],
                       outReq[c] \o WriteBacks(c))
    IN  /\ c \in L1s /\ pc = <<c, "send">>
        /\ inReq' = [inReq EXCEPT !["L2"] = s.in]
        /\ outReq' = [outReq EXCEPT ![c] = s.keep]
        /\ evicts' = [evicts EXCEPT ![c] = <<>>]
        /\ freeLd' = [freeLd EXCEPT !["L2"] = s.ld, ![c] = LoadPorts[c]]
        /\ freeSt' = [freeSt EXCEPT !["L2"] = s.st, ![c] = StorePorts[c]]
        /\ pq' = [pq EXCEPT ![c] = Aged(@)]
        /\ pc' = After(c)
        /\ UNCHANGED <<client, inResp, outResp, stalled, mshr, lru, dram>>

\* DRAMSimInterface::addTransaction, after willAcceptTransaction has agreed.  A
\* store asks for a write port but takes a read port: its line is read.
SendDown(refused, s, t) ==
    IF t.port # "evict" /\ (IF t.load THEN s.rd > 0 ELSE s.wr > 0) /\ t.line \notin refused
    THEN [s EXCEPT !.rd = @ - 1, !.reads[t.line] = Append(@, t)]
    ELSE IF t.port = "evict" /\ s.wr > 0 /\ t.line \notin refused
    THEN [s EXCEPT !.wr = @ - 1, !.writes[t.line] = @ + 1]
    ELSE [s EXCEPT !.keep = Append(@, t)]

SendEach(refused, s, q) == FoldLeft(LAMBDA a, t : SendDown(refused, a, t), s, q)

\* checkEvictConflict
ConflictIn(q, line) == \E i \in 1 .. Len(q) : q[i].t.line = line

Flagged(q, line) ==
    [i \in 1 .. Len(q) |-> IF q[i].t.line = line THEN [q[i] EXCEPT !.conflict = TRUE] ELSE q[i]]

\* The L1s without the line.
Invalidated(f, line) ==
    [c \in Caches |-> IF c = "L2" THEN f[c]
                      ELSE [f[c] EXCEPT ![SetOf(c, line)] = invalidate(@, line)]]

\* A victim of L2 leaves the L1s too; it is written if it is dirty anywhere.
EvictDown(refused, s, e) ==
    LET dirty == \/ e.dirty
                 \/ \E c \in L1s : DirtyIn(s.lru[c][SetOf(c, e.line)], e.line)
                 \/ ConflictIn(s.pq, e.line)
    IN  IF s.wr = 0 \/ e.line \in refused
        THEN [s EXCEPT !.evicts = Append(@, e)]
        ELSE [s EXCEPT !.lru = Invalidated(@, e.line),
                       !.pq = Flagged(@, e.line),
                       !.wr = IF dirty THEN @ - 1 ELSE @,
                       !.writes[e.line] = IF dirty THEN @ + 1 ELSE @]

EvictEach(refused, s, q) == FoldLeft(LAMBDA a, e : EvictDown(refused, a, e), s, q)

\* L2Cache::sendRequests, and the end of L2Cache::process.
sendRequestsL2 ==
    /\ pc = <<"L2", "send">>
    /\ \E refused \in (IF MayRefuse THEN SUBSET Lines ELSE {{}}) :
        LET s0 == [rd |-> freeRd, wr |-> freeWr, reads |-> dramReads, writes |-> dramWrites,
                   keep |-> <<>>, evicts |-> <<>>, lru |-> lru, pq |-> pq["L2"]]
            s1 == SendEach(refused, s0, outReq["L2"])
            s2 == EvictEach(refused, s1, evicts["L2"])
        IN  /\ dramReads' = s2.reads /\ dramWrites' = s2.writes
            /\ freeRd' = s2.rd /\ freeWr' = s2.wr
            /\ outReq' = [outReq EXCEPT !["L2"] = s2.keep]
            /\ evicts' = [evicts EXCEPT !["L2"] = s2.evicts]
            /\ lru' = s2.lru
            /\ pq' = [pq EXCEPT !["L2"] = Aged(s2.pq)]
    /\ freeLd' = [freeLd EXCEPT !["L2"] = LoadPorts["L2"]]
    /\ freeSt' = [freeSt EXCEPT !["L2"] = StorePorts["L2"]]
    /\ pc' = After("L2")
    /\ UNCHANGED <<client, inReq, inResp, outResp, stalled, mshr>>

-----------------------------------------------------------------------------
(* DRAMSimInterface.  When a transaction completes is up to the memory.    *)

read_complete(l) ==
    /\ pc = <<"DRAM", "update">>
    /\ dramReads[l] # <<>>
    /\ inResp' = [inResp EXCEPT !["L2"] = @ \o dramReads[l]]
    /\ dramReads' = [dramReads EXCEPT ![l] = <<>>]
    /\ UNCHANGED <<pc, client, inReq, outReq, outResp, stalled, pq, mshr, evicts, lru, ports,
                   dramWrites, freeRd, freeWr>>

write_complete(l) ==
    /\ pc = <<"DRAM", "update">>
    /\ dramWrites[l] > 0
    /\ dramWrites' = [dramWrites EXCEPT ![l] = @ - 1]
    /\ UNCHANGED <<pc, client, inReq, inResp, outReq, outResp, stalled, pq, mshr, evicts, lru,
                   ports, dramReads, freeRd, freeWr>>

process ==
    /\ pc = <<"DRAM", "update">>
    /\ freeRd' = ReadPorts /\ freeWr' = WritePorts
    /\ pc' = <<"CPU", "submit">>
    /\ UNCHANGED <<client, inReq, inResp, outReq, outResp, stalled, pq, mshr, evicts, lru, ports,
                   dramReads, dramWrites>>

CacheProcess(c) ==
    \/ handleRequests(c) \/ retryStalled(c) \/ processPq(c) \/ handleResponses(c)

Next ==
    \/ \E r \in Requests : submit(r)
    \/ run
    \/ \E c \in Caches : CacheProcess(c)
    \/ \E c \in L1s : sendResponsesL1(c) \/ sendRequestsL1(c)
    \/ sendResponsesL2 \/ sendRequestsL2
    \/ \E l \in Lines : read_complete(l) \/ write_complete(l)
    \/ process

Spec == Init /\ [][Next]_vars

\* The simulation goes on, and the memory serves every read.
FairSpec == Spec /\ WF_vars(Next) /\ \A l \in Lines : SF_vars(read_complete(l))

-----------------------------------------------------------------------------
(* Properties.                                                             *)

\* The transactions made so far, and those that cache c sees.
Made == {Transaction(n, r) : n \in 1 .. issued, r \in Requests}
SeenBy(c) == {t \in Made : c = "L2" \/ t.port = c}

\* Types, and the limits of the hardware that the code asserts or keeps by a
\* test: ports never go negative (recvRequest's assertions), an MSHR never has
\* more entries than it was built with, a set never more lines than ways.
TypeOK ==
    /\ issued \in 0 .. MaxRequests
    /\ waiting \subseteq Made
    /\ \A c \in Caches :
          /\ LET seen == SeenBy(c) IN
                /\ ToSet(inReq[c]) \cup ToSet(outReq[c])
                      \subseteq seen \cup {EvictOf(l) : l \in Lines}
                /\ ToSet(stalled[c]) \cup ToSet(inResp[c]) \cup ToSet(outResp[c]) \subseteq seen
                /\ \A l \in Lines : \A t \in ToSet(mshr[c][l]) : t \in seen /\ t.line = l
          /\ freeLd[c] \in 0 .. LoadPorts[c] /\ freeSt[c] \in 0 .. StorePorts[c]
          /\ MshrUsed(mshr[c]) <= MshrSize[c]
          /\ \A s \in 0 .. Sets[c] - 1 : Len(lru[c][s]) <= Ways[c]
    /\ \A l \in Lines : \A t \in ToSet(dramReads[l]) : t \in Made /\ t.line = l
    /\ freeWr \in 0 .. WritePorts

Times(t, seq) == Cardinality({i \in 1 .. Len(seq) : seq[i] = t})

Piped(q) == [i \in 1 .. Len(q) |-> q[i].t]

\* How often a cache holds t on behalf of the level above.
Held(c, t) ==
    Times(t, inReq[c]) + Times(t, Piped(pq[c])) + Times(t, stalled[c]) + Times(t, outResp[c])
        + Times(t, mshr[c][t.line])

\* Every request that was accepted and not answered is held by its cache exactly
\* once, and a cache answers nothing else: no access is lost, and none is
\* answered twice, whatever merges in an MSHR, stalls on a full one or waits in
\* the pipeline.
AnsweredExactlyOnce ==
    \A t \in Made : Held(Owner(t), t) = IF t \in waiting THEN 1 ELSE 0

\* How often c has asked the level below for t and not yet received it.
AskedBelow(c, t) ==
    Times(t, outReq[c]) + Times(t, inResp[c])
        + IF c = "L2" THEN Times(t, dramReads[t.line]) ELSE Held("L2", t)

\* t is the miss that its line's MSHR entry was made for.
Leads(m, t) == m[t.line] # <<>> /\ Head(m[t.line]) = t

\* A line has an MSHR entry exactly while one fill of it is under way below, and
\* that fill is the entry's first transaction.  So every response finds its
\* entry (the assertions of handleResponses and updateMSHR), and every entry
\* gets a response.
OneFillPerEntry ==
    \A c \in Caches : \A t \in SeenBy(c) :
        AskedBelow(c, t) = IF Leads(mshr[c], t) THEN 1 ELSE 0

\* A line is in at most one entry of its set, addr_map leads to it, and it is
\* not being fetched again while it is there.  Holds when a request's hit or
\* miss is acted on in the cycle in which it was decided (latency 1).
OneCopyPerCache ==
    \A c \in Caches : \A l \in Lines :
        LET set == lru[c][SetOf(c, l)]
            copies == {i \in 1 .. Len(set) : set[i].line = l}
        IN  /\ Cardinality(copies) <= 1
            /\ \A i \in copies : set[i].mapped
            /\ mshr[c][l] # <<>> => copies = {}

\* Requests and lines are kept through merging, stalls, evictions and
\* invalidations: within the limits of the hardware, each answered once, each
\* miss filled once, and no line twice in a cache.
RequestsKept ==
    /\ TypeOK /\ AnsweredExactlyOnce /\ OneFillPerEntry
    /\ (\A c \in Caches : Latency[c] = 1) => OneCopyPerCache

\* Every accepted request is eventually answered: again and again none waits.
EveryRequestAnswered == []<>(waiting = {})
=============================================================================
