-------------------------------- MODULE FrontEnd --------------------------------
(***************************************************************************)
(* The front end of the core: fetch, decode and rename's intake (Core::    *)
(* fetch, decode, the flush part of Core::run in src/core.cpp) and the     *)
(* instruction fetch unit (src/ifu.cpp).  preprocess() delivers basic      *)
(* blocks; fetch cuts them into groups that lie in one cache line each,    *)
(* and a group enters fetchBuffer when the instruction cache has answered  *)
(* for it, or at once when its line is the last one fetched.               *)
(*                                                                         *)
(* Instructions are numbered in the order of preprocess (dynID).  The      *)
(* blocks preprocess may deliver, and when the back end takes and retires  *)
(* instructions, are left open.                                            *)
(***************************************************************************)
EXTENDS Integers, Sequences

CONSTANTS
    BlockShapes,    \* what preprocess may deliver: [first, len, mispredict]
    MaxOps,         \* bound: dynamic instructions
    NInst,          \* instructions in a line of L1I, l1i_CLSize / 4
    FetchWidth,     \* windowSize
    DecodeWidth,    \* retireSize
    FlushPenalty

ASSUME FrontEndAssumption ==
    /\ NInst \in Nat \ {0} /\ FetchWidth \in Nat \ {0} /\ DecodeWidth \in Nat \ {0}
    /\ FlushPenalty \in Nat /\ MaxOps \in Nat
    /\ \A s \in BlockShapes : s.first \in Nat /\ s.len \in Nat \ {0} /\ s.mispredict \in BOOLEAN

VARIABLES
    pc,             \* the stage of Core::run that comes next
    next,           \* globalDynID
    ops,            \* dynID + 1 -> [uid, mispredict]
    FTQ,            \* dynIDs of the first instructions of groups not yet requested
    fetchCount,     \* sizes of the groups that processedOps holds
    processedOps, fetchBuffer, to_decode, to_rename, insnQueue,
    lastOp,         \* last instruction of the last block, -1 for nullptr
    flushStall, flushStallCycle,
    stalledHead,    \* FTQ[0]->flushStall
    last_fetch_cache_line,
    occupied, request, responses,   \* the IFU; its request in L1I, -1 for none
    retired         \* instructions below this number are retired

fetchVars == <<FTQ, fetchCount, processedOps, fetchBuffer, lastOp, last_fetch_cache_line,
               stalledHead, next, ops, flushStall, flushStallCycle>>
ifuVars == <<occupied, request, responses>>
pipeVars == <<to_decode, to_rename, insnQueue, retired>>
vars == <<pc, fetchVars, ifuVars, pipeVars>>

Init ==
    /\ pc = "commit" /\ next = 0 /\ ops = <<>>
    /\ FTQ = <<>> /\ fetchCount = <<>> /\ processedOps = <<>> /\ fetchBuffer = <<>>
    /\ to_decode = <<>> /\ to_rename = <<>> /\ insnQueue = <<>>
    /\ lastOp = -1
    /\ flushStall = FALSE /\ flushStallCycle = 0 /\ stalledHead = FALSE
    /\ last_fetch_cache_line = 0
    /\ occupied = FALSE /\ request = -1 /\ responses = <<>>
    /\ retired = 0

\* get_cache_line_addr
Line(uid) == (uid \div NInst) * NInst
LineOf(id) == Line(ops[id + 1].uid)

\* Its place in the line.
InLine(uid) == uid % NInst

Moved(from, n) == SubSeq(from, 1, n)
Left(from, n) == SubSeq(from, n + 1, Len(from))
Least(a, b) == IF a < b THEN a ELSE b

-----------------------------------------------------------------------------
(* The back end, as far as the front end sees it, and rename and decode.   *)

\* Every instruction that has left insnQueue may retire, in order.
Dispatched == IF insnQueue # <<>> THEN Head(insnQueue)
              ELSE IF to_rename # <<>> THEN Head(to_rename)
              ELSE IF to_decode # <<>> THEN Head(to_decode)
              ELSE IF fetchBuffer # <<>> THEN Head(fetchBuffer)
              ELSE IF processedOps # <<>> THEN Head(processedOps)
              ELSE next

commit(n) ==
    /\ pc = "commit"
    /\ n \in (IF flushStall THEN {retired} ELSE retired .. Dispatched)
    /\ retired' = n
    /\ pc' = "dispatch"
    /\ UNCHANGED <<fetchVars, ifuVars, to_decode, to_rename, insnQueue>>

dispatch(n) ==
    /\ pc = "dispatch"
    /\ n \in (IF flushStall THEN {0} ELSE 0 .. Len(insnQueue))
    /\ insnQueue' = Left(insnQueue, n)
    /\ pc' = "rename"
    /\ UNCHANGED <<fetchVars, ifuVars, to_decode, to_rename, retired>>

\* Core::rename takes in instructions when insnQueue is empty; Core::decode when
\* to_rename is.
rename ==
    LET n == IF flushStall \/ insnQueue # <<>> THEN 0 ELSE Least(DecodeWidth, Len(to_rename))
    IN  /\ pc = "rename"
        /\ insnQueue' = insnQueue \o Moved(to_rename, n)
        /\ to_rename' = Left(to_rename, n)
        /\ pc' = "decode"
        /\ UNCHANGED <<fetchVars, ifuVars, to_decode, retired>>

\* Mutant: decode does not wait for rename, and replaces what it had.
decode_Replaces ==
    LET n == IF flushStall THEN 0 ELSE Least(DecodeWidth, Len(to_decode))
    IN  /\ pc = "decode"
        /\ to_rename' = Moved(to_decode, n)
        /\ to_decode' = Left(to_decode, n)
        /\ pc' = "fetch"
        /\ UNCHANGED <<fetchVars, ifuVars, insnQueue, retired>>

decode ==
    LET n == IF flushStall \/ to_rename # <<>> THEN 0 ELSE Least(DecodeWidth, Len(to_decode))
    IN  /\ pc = "decode"
        /\ to_rename' = to_rename \o Moved(to_decode, n)
        /\ to_decode' = Left(to_decode, n)
        /\ pc' = "fetch"
        /\ UNCHANGED <<fetchVars, ifuVars, insnQueue, retired>>

-----------------------------------------------------------------------------
(* Core::fetch.                                                            *)

\* The instructions of block s before its g-th group: a group begins with the
\* block and with every cache line after that.
Before(s, g) == IF g = 1 THEN 0 ELSE (g - 1) * NInst - InLine(s.first)

\* Sizes of the groups of block s: each ends with its cache line or the block.
Groups(s) ==
    [g \in 1 .. 1 + ((InLine(s.first) + s.len - 1) \div NInst) |->
        Least(Before(s, g + 1), s.len) - Before(s, g)]

shouldFetch == Len(fetchBuffer) <= FetchWidth

Mispredicted == lastOp # -1 /\ ops[lastOp + 1].mispredict

\* The status of lastOp is at most FINISHED.
Undecided == Mispredicted /\ lastOp >= retired

\* The first half of fetch: IFU::IF1, which takes the answer of L1I, and
\* preprocess() with the split into groups.  shouldFetch and notWaiting are
\* read before either.
Take(f) ==
    IF responses = <<>> THEN f
    ELSE LET n == Least(Head(fetchCount), Len(processedOps))
         IN  [f EXCEPT !.count = Tail(@), !.processed = Left(@, n),
                       !.buffer = @ \o Moved(processedOps, n)]

AddBlock(f, s) ==
    [f EXCEPT !.ftq = @ \o [g \in 1 .. Len(Groups(s)) |-> next + Before(s, g)],
              !.count = @ \o Groups(s),
              !.processed = @ \o [i \in 1 .. s.len |-> next + i - 1]]

BlockOps(s) == [i \in 1 .. s.len |-> [uid |-> s.first + i - 1,
                                      mispredict |-> s.mispredict /\ i = s.len]]

\* The second half: what is done about the first group of FTQ.
CanFake(f, newOps, busy) ==
    LET h == Head(f.ftq) IN
    /\ h # 0 /\ Line(newOps[h + 1].uid) = last_fetch_cache_line
    /\ ~busy /\ ~newOps[h + 1].mispredict

\* Mutant: the size of the group stays in fetchCount.
FakeIF_KeepsCount(f) ==
    LET n == Least(Head(f.count), Len(f.processed))
    IN  [ftq |-> Tail(f.ftq), count |-> f.count, processed |-> Left(f.processed, n),
         buffer |-> f.buffer \o Moved(f.processed, n)]

FakeIF(f) ==
    LET n == Least(Head(f.count), Len(f.processed))
    IN  [ftq |-> Tail(f.ftq), count |-> Tail(f.count), processed |-> Left(f.processed, n),
         buffer |-> f.buffer \o Moved(f.processed, n)]

ToDecode(f) == Least(FetchWidth, Len(f.buffer))

\* fetch with the groups f after its first half; stall when the branch that held
\* it back has just been decided.
Deliver(f, newOps, stall) ==
    LET busy == occupied /\ responses = <<>>
        flush == f.ftq # <<>> /\ stall /\ FlushPenalty > 0
        go == f.ftq # <<>> /\ ~flush /\ ~stalledHead
        fake == go /\ CanFake(f, newOps, busy)
        ask == go /\ ~fake /\ shouldFetch
        send == ask /\ ~busy
        g == IF fake THEN FakeIF(f) ELSE f
        n == ToDecode(g)
    IN  /\ stalledHead' = (stalledHead \/ flush)
        /\ flushStall' = flush
        /\ flushStallCycle' = IF flush THEN FlushPenalty ELSE flushStallCycle
        /\ last_fetch_cache_line' =
              IF ask THEN Line(newOps[Head(f.ftq) + 1].uid) ELSE last_fetch_cache_line
        /\ FTQ' = IF send THEN Tail(g.ftq) ELSE g.ftq
        /\ request' = IF send THEN Head(g.ftq) ELSE request
        /\ occupied' = (send \/ busy)
        /\ fetchCount' = g.count /\ processedOps' = g.processed
        /\ to_decode' = Moved(g.buffer, n) /\ fetchBuffer' = Left(g.buffer, n)
        /\ responses' = <<>>

Taken == Take([ftq |-> FTQ, count |-> fetchCount, processed |-> processedOps,
               buffer |-> fetchBuffer])

\* lastOp is set to nullptr when its branch is decided.
LastAfter == IF Mispredicted /\ ~Undecided THEN -1 ELSE lastOp

fetchStalled ==
    /\ pc = "fetch" /\ (flushStall \/ to_decode # <<>>)
    /\ pc' = "end"
    /\ UNCHANGED <<fetchVars, ifuVars, pipeVars>>

\* The program (or the bound) has come to its end: preprocess delivers nothing.
Exhausted == \A s \in BlockShapes : next + s.len > MaxOps

fetchOnly ==
    /\ pc = "fetch" /\ ~flushStall /\ to_decode = <<>>
    /\ ~(shouldFetch /\ FTQ = <<>> /\ ~Undecided) \/ Exhausted
    /\ Deliver(Taken, ops, Mispredicted /\ ~Undecided)
    /\ lastOp' = LastAfter
    /\ pc' = "end"
    /\ UNCHANGED <<next, ops, to_rename, insnQueue, retired>>

fetchBlock(s) ==
    /\ pc = "fetch" /\ ~flushStall /\ to_decode = <<>>
    /\ shouldFetch /\ FTQ = <<>> /\ ~Undecided
    /\ next + s.len <= MaxOps
    /\ Deliver(AddBlock(Taken, s), ops \o BlockOps(s), Mispredicted /\ ~Undecided)
    /\ ops' = ops \o BlockOps(s) /\ next' = next + s.len
    /\ lastOp' = next + s.len - 1
    /\ pc' = "end"
    /\ UNCHANGED <<to_rename, insnQueue, retired>>

-----------------------------------------------------------------------------
\* The rest of Core::run: the flush bubble, and L1I, which may answer.
endRun(answer) ==
    /\ pc = "end"
    /\ flushStallCycle' = IF flushStall /\ flushStallCycle > 0 THEN flushStallCycle - 1
                          ELSE flushStallCycle
    /\ flushStall' = FALSE
    /\ stalledHead' = (stalledHead /\ ~flushStall)
    /\ answer => request # -1
    /\ responses' = IF answer THEN Append(responses, request) ELSE responses
    /\ request' = IF answer THEN -1 ELSE request
    /\ pc' = "commit"
    /\ UNCHANGED <<FTQ, fetchCount, processedOps, fetchBuffer, lastOp, last_fetch_cache_line,
                   next, ops, occupied, pipeVars>>

Next ==
    \/ \E n \in 0 .. MaxOps : commit(n) \/ dispatch(n)
    \/ rename \/ decode
    \/ fetchStalled \/ fetchOnly \/ \E s \in BlockShapes : fetchBlock(s)
    \/ \E answer \in BOOLEAN : endRun(answer)

Spec == Init /\ [][Next]_vars

\* The cycles go on, L1I answers, and the back end takes and retires.
FairSpec ==
    /\ Spec /\ WF_vars(Next)
    /\ SF_vars(endRun(TRUE))
    /\ SF_vars(insnQueue # <<>> /\ dispatch(Len(insnQueue)))
    /\ SF_vars(retired < Dispatched /\ commit(Dispatched))

-----------------------------------------------------------------------------
(* Properties.                                                             *)

\* First instructions of the groups in processedOps: the one L1I is asked for or
\* has answered, then FTQ.
GroupStarts == (IF request # -1 THEN <<request>> ELSE responses) \o FTQ

\* The three queues fetch keeps in step: the groups that FTQ (with the request
\* under way) and fetchCount describe begin with the oldest instruction of
\* processedOps, follow one another without a gap up to the youngest, are not
\* empty, and lie in one line each.  These are the assertions of IF1 and fakeIF
\* ("processedOps.front()->getUID() == uid"), with no group taken short and at
\* most one request under way.
GroupsInStep ==
    LET N == Len(fetchCount) IN
    /\ occupied = (request # -1 \/ responses # <<>>)
    /\ Len(responses) <= 1 /\ (request # -1 => responses = <<>>)
    /\ Len(GroupStarts) = N /\ (N = 0 <=> processedOps = <<>>)
    /\ N > 0 => GroupStarts[1] = Head(processedOps)
    /\ \A g \in 1 .. N :
          /\ fetchCount[g] > 0
          /\ GroupStarts[g] + fetchCount[g] = IF g < N THEN GroupStarts[g + 1] ELSE next
          /\ LineOf(GroupStarts[g] + fetchCount[g] - 1) = LineOf(GroupStarts[g])

\* No instruction is lost, doubled or overtaken between preprocess and the back
\* end: what the queues hold, from the oldest to the youngest, are consecutive
\* instructions up to the last one delivered.
InProgramOrder ==
    LET held == insnQueue \o to_rename \o to_decode \o fetchBuffer \o processedOps
    IN  held = [i \in 1 .. Len(held) |-> next - Len(held) + i - 1]

\* "If branch is mispredicted, we should not fetch new instructions until the
\* branch decision is made": until it is retired it stays the youngest.
BranchHoldsFetch ==
    \A i \in 1 .. Len(ops) : ops[i].mispredict /\ i - 1 >= retired => i = next

\* Fetch delivers the program: in order, group by group, and not past a
\* mispredicted branch that has not retired.
FetchInOrder == GroupsInStep /\ InProgramOrder /\ BranchHoldsFetch

\* Every instruction preprocess delivers gets to the back end: again and again
\* all of them have.
EventuallyDispatched == []<>(Dispatched = next)
=============================================================================
