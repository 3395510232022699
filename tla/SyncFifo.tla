------------------------------ MODULE SyncFifo ------------------------------
(***************************************************************************)
(* The fifos of the meshes (SyncFifo in include/SA/Fifo.h).  A cell pushes *)
(* at most one package a cycle and pops once in the same cycle, so the     *)
(* queue in front is empty between cycles and what remains is the delay    *)
(* line behind it.  A slot is a set: {} for nullptr, {p} for a package.    *)
(***************************************************************************)
EXTENDS Integers, Sequences

\* SyncFifo(capacity, cnt): a line of cnt - 1 empty slots.
DelayLine(cnt) == [i \in 1 .. cnt - 1 |-> {}]

\* What pop returns in the cycle in which in was pushed.
Popped(line, in) == IF line = <<>> THEN in ELSE line[Len(line)]

\* The line after that pop.
Shifted(line, in) ==
    IF line = <<>> THEN <<>> ELSE <<in>> \o SubSeq(line, 1, Len(line) - 1)
=============================================================================
