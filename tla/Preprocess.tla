------------------------------- MODULE Preprocess -------------------------------
(***************************************************************************)
(* How the core walks the program along the recorded trace                 *)
(* (Core::preprocess in src/core.cpp, Hardware::fetchTargetBB and          *)
(* scheduleBB in src/hardware.cpp, SIM::Task in src/task/task.cpp): each   *)
(* call takes instructions from the current block, or from the rest of a   *)
(* block a call returns to, up to the next transfer of control.            *)
(* Conditions, addresses and, for a SimPoint chunk, block names are read   *)
(* from the trace that the actions of Tracing have written.                *)
(*                                                                         *)
(* The trace is a text file that ends with a newline: eof() shows only     *)
(* after a read that found nothing and gave a default value.  Invoke is    *)
(* left out: the flow lowers invokes to calls, and                         *)
(* InvokeDynamicOperation::getCalledFunc, which every path of one calls,   *)
(* is assert(0).                                                           *)
(***************************************************************************)
EXTENDS Tracing

VARIABLES
    pc,             \* "trace" while the traced program runs, then "call" between calls of
                    \* preprocess and "walk" inside its loop
    buffer,         \* what is left of fetchOpBuffer: <<block, index>>
    targetBB, previousBB, fetchForRet, newBBScheduled, abnormalExit,
    returnStack,    \* top first: [ops, prevBB]; RetOps and prevBBStack
    eof,            \* of the trace file
    misread         \* a word was read by another instruction than the one it is about

readerVars == <<pc, buffer, targetBB, previousBB, fetchForRet, newBBScheduled, abnormalExit,
                returnStack, eof, misread>>
walkVars   == <<traceVars, readerVars>>

WalkInit ==
    /\ TraceInit
    /\ pc = "trace" /\ buffer = Halted
    /\ targetBB = Nowhere /\ previousBB = Nowhere
    /\ fetchForRet = FALSE /\ newBBScheduled = FALSE /\ abnormalExit = FALSE
    /\ returnStack = <<>> /\ eof = FALSE /\ misread = FALSE

record == pc = "trace" /\ TraceNext /\ UNCHANGED readerVars

\* The traced program ends, or is cut off; main of the simulator starts at the
\* block named in start_bb.txt, or at main's entry.  What the writer and the
\* profiler hold is gone.
finish ==
    /\ pc = "trace" /\ (at = Halted \/ Len(example) >= limit \/ T_chunk > tgt_interval + 1)
    /\ pc' = "call" /\ running' = FALSE
    /\ targetBB' = IF ~simpoint THEN <<Entry, 0>>
                   ELSE IF start_bb = Nowhere THEN Nowhere ELSE Numbered(start_bb)
    /\ misread' = (simpoint /\ targetBB' # start_bb)
    /\ at' = Halted /\ frames' = <<>> /\ flag' = FALSE /\ TotalInstCount' = 0 /\ T_chunk' = 0
    /\ start_bb' = Nowhere /\ tgt_interval' = 0 /\ limit' = 0
    /\ insn_count' = 0 /\ interval' = 0 /\ bb_count' = NoBlocks /\ entered' = NoBlocks
    /\ open' = [from |-> NoBlocks, to |-> NoBlocks]
    /\ UNCHANGED <<simpoint, Insns, example, buffer, previousBB, fetchForRet, newBBScheduled,
                   abnormalExit, returnStack, eof>>

-----------------------------------------------------------------------------
(* Reading.                                                                *)

Insn == Insns[buffer[1]][buffer[2]]

\* The n-th word from here; without one, the default is the name 4294967295 and
\* the condition false.
TraceWord(n) == IF n <= Len(example) THEN example[n] ELSE Record("none", Nowhere, Nowhere)

Read(n) ==
    /\ example' = SubSeq(example, n + 1, Len(example))
    /\ eof' = (eof \/ Len(example) < n)

Wrong(n, type, by) == n <= Len(example) /\ (TraceWord(n).type # type \/ TraceWord(n).by # by)

TheRestOfTracing == UNCHANGED <<simpoint, tgt_interval, limit, Insns, running, at, frames, flag,
                                TotalInstCount, T_chunk, start_bb, profilerVars>>

\* Mutant: a call returns to itself.
Rest_Again(place) == place

\* What follows an instruction in its block.
Rest(place) == <<place[1], place[2] + 1>>

-----------------------------------------------------------------------------
(* The beginning of preprocess: where the next instructions come from.     *)

\* A SimPoint chunk that began inside a call: the return goes where the trace says.
ByName == simpoint /\ fetchForRet /\ returnStack = <<>> /\ ~eof

Resume ==
    IF fetchForRet
    THEN IF returnStack # <<>> THEN returnStack[1].ops
         ELSE IF ByName /\ TraceWord(1).val # Nowhere THEN <<TraceWord(1).val, 1>> ELSE Halted
    ELSE IF targetBB = Nowhere THEN Halted ELSE <<targetBB, 1>>

start ==
    /\ pc = "call" /\ ~misread
    /\ Resume # Halted \/ fetchForRet      \* otherwise nothing changes
    /\ LET popped == fetchForRet /\ returnStack # <<>> IN
        /\ returnStack' = IF popped THEN Tail(returnStack) ELSE returnStack
        /\ previousBB' = IF popped THEN returnStack[1].prevBB ELSE previousBB
    /\ fetchForRet' = FALSE /\ newBBScheduled' = FALSE
    /\ targetBB' = IF abnormalExit \/ (ByName /\ Resume = Halted) THEN Nowhere
                   ELSE IF ByName THEN Resume[1] ELSE targetBB
    /\ IF ByName THEN Read(1) ELSE UNCHANGED <<example, eof>>
    /\ misread' = (ByName /\ Resume # Halted /\ Wrong(1, "name", Resume[1]))
    /\ IF abnormalExit \/ Resume = Halted
       THEN pc' = "call" /\ buffer' = Halted
       ELSE pc' = "walk" /\ buffer' = Resume
    /\ UNCHANGED abnormalExit
    /\ TheRestOfTracing

-----------------------------------------------------------------------------
(* The loop, by the kind of the instruction.                               *)

Walking == pc = "walk" /\ ~misread

\* "if (!newBBScheduled || abnormalExit) targetBB = nullptr", then return.
EndCall(scheduled, exit, target) ==
    /\ pc' = "call" /\ buffer' = Halted
    /\ newBBScheduled' = scheduled /\ abnormalExit' = exit
    /\ targetBB' = IF ~scheduled \/ exit THEN Nowhere ELSE target

Conditional == Insn.kind = "switch" \/ (Insn.kind = "br" /\ Len(Insn.to) > 1)

\* An instruction that would read a trace that is known to be at its end.
traceEnds ==
    /\ Walking /\ eof /\ (Insn.kind = "mem" \/ Conditional)
    /\ EndCall(newBBScheduled, TRUE, targetBB)
    /\ UNCHANGED <<previousBB, fetchForRet, returnStack, example, eof, misread>>
    /\ TheRestOfTracing

plain ==
    LET reads == Insn.kind = "mem" IN
    /\ Walking /\ (Insn.kind \in {"op", "phi"} \/ (reads /\ ~eof))
    /\ IF reads THEN Read(1) ELSE UNCHANGED <<example, eof>>
    /\ misread' = (reads /\ Wrong(1, "addr", buffer))
    /\ buffer' = <<buffer[1], buffer[2] + 1>>
    /\ UNCHANGED <<pc, targetBB, previousBB, fetchForRet, newBBScheduled, abnormalExit, returnStack>>
    /\ TheRestOfTracing

\* getDestValue of br and switch: the successor for the condition in the trace.
getDestValue ==
    Insn.to[IF ~Conditional THEN 1
            ELSE IF TraceWord(1).type = "cond" THEN TraceWord(1).val ELSE Len(Insn.to)]

\* Hardware::fetchTargetBB: nowhere at the end of the trace or of the chunk.
fetchTargetBB(ended, name) ==
    IF ended \/ (simpoint /\ TraceWord(name).val = Nowhere) THEN Nowhere ELSE getDestValue

\* br and switch.  The block is looked up only if the trace goes on; the name in
\* the trace is only compared with the mark of the end of the chunk.
branch ==
    LET n == IF Conditional THEN 1 ELSE 0
        ended == eof \/ Len(example) < n
        name == n + 1
        target == fetchTargetBB(ended, name)
    IN  /\ Walking /\ Insn.kind \in {"br", "switch"} /\ (Conditional => ~eof)
        /\ Read(IF ended \/ ~simpoint THEN n ELSE name)
        /\ misread' = \/ n = 1 /\ Wrong(1, "cond", buffer)
                      \/ simpoint /\ ~ended /\ Wrong(name, "name", getDestValue)
        /\ previousBB' = targetBB
        /\ EndCall(Insn.kind = "switch" \/ target # Nowhere, FALSE, target)
        /\ UNCHANGED <<fetchForRet, returnStack>>
        /\ TheRestOfTracing

\* A call through a pointer goes where the name in the trace says; one of a
\* function with a body reads its name for the mark only.
ReadsName == ~eof /\ simpoint /\ Insn.kind = "call" /\ Insn.to # <<>>

Callee ==
    IF eof \/ Insn.to = <<>> \/ (ReadsName /\ TraceWord(1).val = Nowhere) THEN Nowhere
    ELSE IF Len(Insn.to) > 1 THEN TraceWord(1).val ELSE Insn.to[1]

\* The block the name in the trace is taken for.
NamedBlock == IF Callee = Nowhere THEN TraceWord(1).by ELSE Callee

\* A call of a function that is not simulated, one after the end of the trace or
\* of the chunk, or one of the accelerator, whose arguments are in the trace (with
\* none left the assertions of Task::parse_int and parse_addr stop the program).
callOut ==
    LET args == Insn.kind = "cosim" IN
    /\ Walking /\ Insn.kind \in {"call", "cosim"} /\ Callee = Nowhere
    /\ args => example # <<>>
    /\ IF args \/ ReadsName THEN Read(1) ELSE UNCHANGED <<example, eof>>
    /\ misread' = \/ args /\ Wrong(1, "args", buffer)
                  \/ ReadsName /\ Wrong(1, "name", NamedBlock)
    /\ previousBB' = targetBB /\ targetBB' = Nowhere
    /\ buffer' = <<buffer[1], buffer[2] + 1>>
    /\ UNCHANGED <<pc, fetchForRet, newBBScheduled, abnormalExit, returnStack>>
    /\ TheRestOfTracing

callIn ==
    /\ Walking /\ Insn.kind = "call" /\ Callee # Nowhere
    /\ IF ReadsName THEN Read(1) ELSE UNCHANGED <<example, eof>>
    /\ misread' = (ReadsName /\ Wrong(1, "name", NamedBlock))
    /\ previousBB' = targetBB
    /\ returnStack' = <<[ops |-> Rest(buffer), prevBB |-> targetBB]>> \o returnStack
    /\ EndCall(TRUE, FALSE, Callee)
    /\ UNCHANGED fetchForRet
    /\ TheRestOfTracing

ret ==
    /\ Walking /\ Insn.kind = "ret"
    /\ fetchForRet' = TRUE
    /\ EndCall(newBBScheduled, FALSE, targetBB)
    /\ UNCHANGED <<previousBB, returnStack, example, eof, misread>>
    /\ TheRestOfTracing

WalkNext == record \/ finish \/ start \/ traceEnds \/ plain \/ branch \/ callOut \/ callIn \/ ret

WalkSpec == WalkInit /\ [][WalkNext]_walkVars

-----------------------------------------------------------------------------
(* Properties.                                                             *)

\* Every word of the trace is read by the instruction that wrote it, the chunk is
\* entered at the block its trace begins in, and a block found by its number is
\* the block that had written the number.  (Two programs decide what is in the
\* trace, and nothing in it says what a word is.)
ReadByItsWriter == ~misread

\* When the walk stops nothing of the trace is left: no instruction of the
\* traced run that touched memory or the accelerator is missing in the simulation.
AllRead == pc = "call" /\ ~fetchForRet /\ Resume = Halted => example = <<>>

\* The instructions handed to the pipeline are those the traced program executed,
\* in its order, from the place where the trace begins to its last record.  A ret,
\* a call or a branch taken up at the wrong place, or not at all, breaks it only
\* some blocks later.
FollowsProgram == ReadByItsWriter /\ AllRead
=============================================================================
