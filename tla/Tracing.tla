------------------------------- MODULE Tracing -------------------------------
(***************************************************************************)
(* How a trace comes about (src/llvm).  The program's blocks are numbered  *)
(* (renameBBs) and split around calls (splitbb); then it is compiled       *)
(* twice: with the profiler (profile, profile_helper), which counts the    *)
(* blocks of every chunk of the execution, and with the tracer             *)
(* (instrumentPass, log_helper), which records what the simulator cannot   *)
(* compute: addresses, conditions, arguments of accelerator calls.  An     *)
(* end-to-end trace records everything; one for SimPoint records one       *)
(* chunk, and the number of every block entered in it.                     *)
(*                                                                         *)
(* Both compiled programs run the same path; here they run side by side.   *)
(* A record is [type, val, by]; by is the place that wrote it and is not   *)
(* in the file.  Buffering of records does not show.                       *)
(***************************************************************************)
EXTENDS Integers, Sequences, FiniteSets

CONSTANTS
    Source,         \* block -> sequence of [kind, to], before any pass
    Entry,          \* main's entry block
    Chunk,          \* tgt_threshold: instructions in a chunk
    Intervals,      \* the chunks that may be asked for (tgt_interval)
    Limits,         \* bound: records after which the traced run is cut off (it is, too,
                    \* in the second chunk after the one asked for)
    MaxDepth,       \* bound: nesting of calls
    NumberedFirst   \* renameBBs runs before splitbb

None == "none"

Kinds == {"op", "phi", "mem", "br", "switch", "call", "cosim", "ret"}

Terminators == {"br", "switch", "ret"}

ASSUME ProgramAssumption ==
    /\ Entry \in DOMAIN Source /\ None \notin DOMAIN Source /\ NumberedFirst \in BOOLEAN
    /\ \A b \in DOMAIN Source :
          Source[b] \in Seq([kind : Kinds, to : Seq(DOMAIN Source)]) /\ Source[b] # <<>>
    /\ \A b \in DOMAIN Source : \A i \in DOMAIN Source[b] :
          LET insn == Source[b][i] IN
          /\ insn.kind \in {"br", "switch"} => insn.to # <<>>
          /\ insn.kind \in Terminators <=> i = Len(Source[b])
          \* splitbb leaves a switch in the block of the call before it
          /\ insn.kind = "switch" /\ i > 1 => Source[b][i - 1].kind # "call"

ASSUME BoundAssumption ==
    Chunk \in Nat \ {0} /\ Intervals \subseteq Nat /\ Limits \subseteq Nat /\ MaxDepth \in Nat

-----------------------------------------------------------------------------
(* The passes that change the blocks.  The k-th piece of block b is        *)
(* <<b, k>>, an LLVM block named b with k times ".split" after it.         *)

\* A call of a function with a body, or through a pointer.
Splits(insn) == insn.kind = "call" /\ insn.to # <<>>

\* split_bb: a piece begins at such a call and after it, unless what follows
\* is a terminator other than a conditional branch.
PieceStarts(b) ==
    LET calls == {i \in DOMAIN Source[b] : Splits(Source[b][i])}
    IN  {1} \cup calls \cup
        {i \in DOMAIN Source[b] : /\ i - 1 \in calls
                                  /\ \/ Source[b][i].kind \notin Terminators
                                     \/ Source[b][i].kind = "br" /\ Len(Source[b][i].to) > 1}

Pieces == UNION {{<<b, k>> : k \in 0 .. Cardinality(PieceStarts(b)) - 1} : b \in DOMAIN Source}

NthStart(b, k) ==
    CHOOSE i \in PieceStarts(b) : Cardinality({j \in PieceStarts(b) : j < i}) = k

Retarget(insn) == [insn EXCEPT !.to = [k \in DOMAIN @ |-> <<@[k], 0>>]]

SplitProgram ==
    [p \in Pieces |->
        LET b == p[1]
            k == p[2]
            from == NthStart(b, k)
            whole == [i \in DOMAIN Source[b] |-> Retarget(Source[b][i])]
        IN  IF <<b, k + 1>> \in Pieces
            THEN SubSeq(whole, from, NthStart(b, k + 1) - 1)
                     \o <<[kind |-> "br", to |-> <<<<b, k + 1>>>>]>>
            ELSE SubSeq(whole, from, Len(whole))]

WholeProgram ==
    [p \in {<<b, 0>> : b \in DOMAIN Source} |->
        [i \in DOMAIN Source[p[1]] |-> Retarget(Source[p[1]][i])]]

\* The block the simulator finds under a number: stoi stops at ".split", and the
\* pieces of a block numbered before it was split have one number.
Numbered(p) == IF NumberedFirst THEN <<p[1], 0>> ELSE p

-----------------------------------------------------------------------------
VARIABLES
    simpoint, tgt_interval, limit,  \* options of the passes, and the bound
    Insns,          \* the program after the passes
    running,        \* the traced program has not ended
    at, frames,     \* the instruction it executes next, and where its calls return to
    flag, TotalInstCount, T_chunk,  \* the globals of instrumentPass (T_chunk: T)
    example,        \* the trace file
    start_bb,       \* the block in start_bb.txt
    insn_count, interval,           \* of the profiler
    bb_count,       \* blocks it has counted in the chunk asked for
    entered,        \* blocks entered while the tracer recorded
    open            \* [from, to]: blocks under way when the chunk began and ended

tracerVars   == <<at, frames, flag, TotalInstCount, T_chunk, example, start_bb>>
profilerVars == <<insn_count, interval, bb_count, entered, open>>
traceVars    == <<simpoint, tgt_interval, limit, Insns, running, tracerVars, profilerVars>>

\* The passes of a flow: an end-to-end trace is made without splitbb.
Compiled == IF simpoint THEN SplitProgram ELSE WholeProgram

Nowhere == <<None, 0>>
Halted  == <<Nowhere, 0>>

NoBlocks == [p \in Pieces |-> 0]

TraceInit ==
    /\ simpoint \in BOOLEAN /\ Insns = Compiled
    /\ tgt_interval \in IF simpoint THEN Intervals ELSE {0}
    /\ limit \in Limits
    /\ running = TRUE /\ at = <<<<Entry, 0>>, 1>> /\ frames = <<>>
    /\ flag = ~simpoint /\ TotalInstCount = 0 /\ T_chunk = 0
    /\ example = <<>> /\ start_bb = Nowhere
    /\ insn_count = 0 /\ interval = 0 /\ bb_count = NoBlocks
    /\ entered = NoBlocks /\ open = [from |-> NoBlocks, to |-> NoBlocks]

Executed == Insns[at[1]][at[2]]

Entering == simpoint /\ at[2] = 1
Leaving  == simpoint /\ at[2] = Len(Insns[at[1]])

Record(type, val, by) == [type |-> type, val |-> val, by |-> by]

-----------------------------------------------------------------------------
(* What instrumentPass adds to a block.                                    *)

\* update_dump_status at the entry: the number of the block, or 4294967295
\* when the chunk is over.
NameRecord ==
    IF Entering /\ flag
    THEN <<Record("name", IF T_chunk = tgt_interval THEN Numbered(at[1]) ELSE Nowhere, at[1])>>
    ELSE <<>>

Recording == IF Entering THEN T_chunk = tgt_interval ELSE flag

update_dump_status ==
    /\ flag' = Recording
    /\ start_bb' = IF Recording /\ ~flag THEN at[1] ELSE start_bb
    /\ entered' = IF Entering /\ Recording THEN [entered EXCEPT ![at[1]] = @ + 1] ELSE entered

\* The blocks the program is in the middle of: those of its callers.
OpenBlocks == [p \in DOMAIN bb_count |-> Cardinality({i \in DOMAIN frames : frames[i][1] = p})]

\* update_insncount_interval before the terminator.
update_insncount_interval ==
    LET count == TotalInstCount + Len(Insns[at[1]])
    IN  IF Leaving /\ count >= Chunk
        THEN /\ TotalInstCount' = 0 /\ T_chunk' = T_chunk + 1
             /\ open' = [from |-> IF T_chunk + 1 = tgt_interval THEN OpenBlocks ELSE open.from,
                         to |-> IF T_chunk = tgt_interval THEN OpenBlocks ELSE open.to]
        ELSE /\ TotalInstCount' = IF Leaving THEN count ELSE TotalInstCount
             /\ UNCHANGED <<T_chunk, open>>

\* Mutant: the profiler closes a chunk one instruction late.
ChunkFull_Over(count) == count > Chunk

ChunkFull(count) == count >= Chunk

\* The same place in the program compiled with the profiler.
profile_interface ==
    LET count == insn_count + Len(Insns[at[1]])
    IN  IF Leaving
        THEN /\ insn_count' = IF ChunkFull(count) THEN 0 ELSE count
             /\ interval' = IF ChunkFull(count) THEN interval + 1 ELSE interval
             /\ bb_count' = IF interval = tgt_interval
                            THEN [bb_count EXCEPT ![at[1]] = @ + 1] ELSE bb_count
        ELSE UNCHANGED <<insn_count, interval, bb_count>>

\* One instruction: its records (log_helper_dump_data) and where it leads.
Execute(records, next, stack) ==
    /\ running /\ Len(example) < limit /\ T_chunk <= tgt_interval + 1
    /\ update_dump_status /\ update_insncount_interval /\ profile_interface
    /\ example' = example \o NameRecord \o (IF Recording THEN records ELSE <<>>)
    /\ at' = next /\ frames' = stack
    /\ UNCHANGED <<simpoint, tgt_interval, limit, Insns, running>>

After(place) == <<place[1], place[2] + 1>>

\* Loads and stores record their address, accelerator calls their arguments.
\* A call of a function without a body records nothing.
runOn ==
    /\ at # Halted
    /\ Executed.kind \in {"op", "phi", "mem", "cosim"} \/ (Executed.kind = "call" /\ Executed.to = <<>>)
    /\ Execute(CASE Executed.kind = "mem" -> <<Record("addr", at, at)>>
                 [] Executed.kind = "cosim" -> <<Record("args", at, at)>>
                 [] OTHER -> <<>>,
               After(at), frames)

runBranch(k) ==
    /\ at # Halted /\ Executed.kind \in {"br", "switch"} /\ k \in DOMAIN Executed.to
    /\ Execute(IF Executed.kind = "switch" \/ Len(Executed.to) > 1
               THEN <<Record("cond", k, at)>> ELSE <<>>,
               <<Executed.to[k], 1>>, frames)

\* Calls through a pointer "are only supported in running with simpoint".
runCall(k) ==
    /\ at # Halted /\ Executed.kind = "call" /\ k \in DOMAIN Executed.to
    /\ Len(Executed.to) > 1 => simpoint
    /\ Len(frames) < MaxDepth
    /\ Execute(<<>>, <<Executed.to[k], 1>>, <<After(at)>> \o frames)

runRet ==
    /\ at # Halted /\ Executed.kind = "ret"
    /\ Execute(<<>>, IF frames = <<>> THEN Halted ELSE Head(frames),
               IF frames = <<>> THEN <<>> ELSE Tail(frames))

TraceNext == runOn \/ runRet \/ \E k \in 1 .. 3 : runBranch(k) \/ runCall(k)

-----------------------------------------------------------------------------
\* The chunk that is simulated is the one SimPoint chose from the profile, though
\* the two are cut out by different code in different runs: once both are past
\* it, the blocks profiled are those traced, but for the blocks that were
\* under way when the chunk began (counted at their end, not traced) and when
\* it ended (traced, not counted).
ProfiledChunk ==
    simpoint /\ running /\ T_chunk > tgt_interval /\ interval > tgt_interval /\ ~flag =>
        \A p \in DOMAIN bb_count : bb_count[p] + open.to[p] = entered[p] + open.from[p]
=============================================================================
