------------------------------- MODULE MCBackend -------------------------------
(***************************************************************************)
(* Small instances of the CPU back end: programs over a few static         *)
(* instructions with one data address.                                     *)
(***************************************************************************)
EXTENDS Backend

Insn(uid, kind, addr, lat, src) ==
    [uid |-> uid, kind |-> kind, addr |-> addr, lat |-> lat, src |-> src]

\* A slow producer, a store that needs it, a load of the stored word and a
\* consumer of the load.
MemProgram ==
    {Insn(1, "op", 0, 2, {}), Insn(2, "store", 0, 1, {1}),
     Insn(3, "load", 0, 1, {}), Insn(4, "op", 0, 0, {3})}

\* Accelerator calls and fences among operations and stores.
CosimProgram ==
    {Insn(1, "op", 0, 1, {}), Insn(5, "cosim", 0, 0, {1}), Insn(6, "fence", 0, 0, {}),
     Insn(2, "store", 0, 0, {1})}

\* One of each kind.
MixedProgram ==
    {Insn(1, "op", 0, 1, {}), Insn(2, "store", 0, 1, {1}), Insn(3, "load", 0, 1, {}),
     Insn(5, "cosim", 0, 0, {}), Insn(6, "fence", 0, 0, {})}

\* The program is chosen at the start; its instructions come in any order.
CONSTANT Programs
VARIABLE program

AllInsns == UNION Programs

MCInit == Init /\ program \in Programs
MCNext == Next /\ Elems(prog') \subseteq program /\ UNCHANGED program

MCSpec == MCInit /\ [][MCNext]_<<vars, program>>

\* The fairness of FairSpec.
MCFairSpec ==
    /\ MCSpec /\ WF_vars(MCNext)
    /\ SF_vars(l1_process(loading) /\ UNCHANGED program)
    /\ SF_vars(stonne(Len(sac), TRUE) /\ UNCHANGED program)
    /\ SF_vars(IssueOldest /\ UNCHANGED program)

SafetyPrograms == {MemProgram, CosimProgram}
MixedPrograms == {MixedProgram}
MemPrograms == {MemProgram}
=============================================================================
