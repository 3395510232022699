------------------------------- MODULE MCUnits -------------------------------
(***************************************************************************)
(* The parts of the core and of the memory system that are checked on      *)
(* their own.  They share no state: a behaviour runs one of them, the      *)
(* others stay in one initial state.                                       *)
(***************************************************************************)
EXTENDS IssueUnit, MCTrace, Tage, AddressSplit, SimpleDRAM, DRAMSim, MultiChannel, Statistics

-----------------------------------------------------------------------------
(* Issue: three ports. *)
Uop(stall, ports) == [stall |-> stall, ports |-> ports]

ThreePorts == <<<<"ALU", "DIV">>, <<"DIV", "MUL">>, <<"ALU">>>>

\* One uop on any of two ports.
Alu == [uops |-> <<Uop(1, <<1, 3>>)>>, fus |-> <<<<"ALU">>>>, lat |-> 0]
Div == [uops |-> <<Uop(1, <<1, 2>>)>>, fus |-> <<<<"DIV">>>>, lat |-> 2]
\* Two uops, the second of which blocks its port, and one unit.
Wide == [uops |-> <<Uop(1, <<1, 3>>), Uop(2, <<1, 2>>)>>, fus |-> <<<<"ALU">>>>, lat |-> 1]
\* Alternatives: a divider with a multiplier, or a divider with an ALU.
Either == [uops |-> <<Uop(1, <<1, 2>>), Uop(1, <<2, 3>>)>>,
           fus |-> <<<<"DIV", "MUL">>, <<"DIV", "ALU">>>>, lat |-> 1]

AllTemplates == {Alu, Div, Wide, Either}

-----------------------------------------------------------------------------
(* Branch prediction: programs that repeat a sequence of branches. *)
TageTable(sets, bits, hist, tag) == [nSets |-> sets, idxBits |-> bits, histLen |-> hist, tagBits |-> tag]

ThreeTables == <<TageTable(2, 1, 1, 2), TageTable(4, 2, 3, 3), TageTable(2, 1, 5, 3)>>

Repeats(predictor, branches) == [type |-> predictor, branches |-> branches]

RepeatedBranches ==
    {Repeats(p, <<<<1, TRUE>>, <<2, FALSE>>>>) : p \in {"onebit", "twobit"}}
    \cup {Repeats("gshare", b) : b \in {<<<<1, TRUE>>, <<1, FALSE>>>>,
                                        <<<<1, TRUE>>, <<1, FALSE>>, <<2, TRUE>>>>}}
    \cup {Repeats("tage", b) : b \in {<<<<1, TRUE>>>>, <<<<1, FALSE>>>>,
                                      <<<<1, FALSE>>, <<1, TRUE>>>>, <<<<1, FALSE>>, <<2, TRUE>>>>,
                                      <<<<1, FALSE>>, <<1, TRUE>>, <<1, TRUE>>>>,
                                      <<<<1, TRUE>>, <<1, FALSE>>, <<1, FALSE>>, <<1, FALSE>>>>}}

-----------------------------------------------------------------------------
(* DRAMSim2: the order of the delays is that of a DDR3 part, each small. *)
ShortTiming == [CL |-> 3, BL2 |-> 2, tRCD |-> 3, tRP |-> 2, tRAS |-> 4, tRC |-> 6, tRRD |-> 2,
                tCCD |-> 2, tRTP |-> 2, tWTR |-> 1, tWR |-> 2, tRTRS |-> 1, tRFC |-> 5,
                tFAW |-> 8, tCKE |-> 2, tXP |-> 2, tCMD |-> 1]

Rd(r, b, row) == [rank |-> r, bank |-> b, row |-> row, write |-> FALSE]
Wr(r, b, row) == [rank |-> r, bank |-> b, row |-> row, write |-> TRUE]

ShortBursts == {<<Wr(0, 0, 0), Rd(0, 0, 0), Wr(0, 0, 0)>>,    \* one row, more often than allowed
                <<Rd(0, 0, 0), Wr(0, 0, 1), Rd(0, 0, 0)>>,    \* a row conflict
                <<Rd(0, 0, 0), Rd(1, 0, 0)>>,                 \* two ranks on the data bus
                <<Wr(0, 1, 0), Rd(1, 1, 1)>>}

Scheme(p, q, o) == [page |-> p, queue |-> q, order |-> o]

FourSchemes == {Scheme("OpenPage", "PerRank", "RankThenBank"),
                Scheme("OpenPage", "PerRankPerBank", "BankThenRank"),
                Scheme("ClosePage", "PerRank", "BankThenRank"),
                Scheme("ClosePage", "PerRankPerBank", "RankThenBank")}

-----------------------------------------------------------------------------
(* Above the channels: one and two channels, one, two and four ranks, rows  *)
(* of one and of two transactions; memory and processor equally fast, and   *)
(* either of them faster.                                                   *)
Geometry(chans, banks, rows, cols, megs) ==
    [chans |-> chans, banks |-> banks, rows |-> rows, cols |-> cols, megs |-> megs]

SmallMemories == {Geometry(1, 2, 2, 4, 16), Geometry(1, 2, 4, 2, 64), Geometry(2, 2, 2, 2, 64),
                  Geometry(2, 1, 2, 4, 32), Geometry(4, 2, 1, 2, 16)}

Speed(d, c) == [dram |-> d, cpu |-> c]

ClockRatios == {Speed(7, 0), Speed(3, 8), Speed(8, 3), Speed(2, 4), Speed(5, 1)}

-----------------------------------------------------------------------------
VARIABLE part       \* the part that runs

unitVars == <<part, issueVars, walkVars, tageVars, splitVars, queueVars, dramVars, channelVars, statVars>>

MCInit ==
    /\ part \in {"issue", "walk", "tage", "split", "queue", "dram", "channels", "stats"}
    /\ IssueInit /\ (part # "issue" => naive)
    /\ WalkInit /\ (part # "walk" => ~simpoint /\ limit = CHOOSE n \in Limits : TRUE)
    /\ TageInit /\ (part # "tage" => program = CHOOSE p \in RepeatedBranches : TRUE)
    /\ SplitInit /\ (part # "split" => address = 0 /\ logLine = 1 /\ logSets = 0 /\ UBShift = 0)
    /\ QueueInit
    /\ DRAMInit /\ (part # "dram" => ini = CHOOSE o \in FourSchemes : TRUE)
    /\ ChannelInit /\ (part # "channels" => physicalAddress = 0 /\ scheme = 1
                                             /\ geometry = CHOOSE g \in SmallMemories : TRUE)
    /\ StatInit
    \* Addresses and clocks do not meet: not every pair of them.
    /\ (physicalAddress # 0 \/ part # "channels") => clock = CHOOSE c \in {setCPUClockSpeed(s) : s \in Speeds} : TRUE

OthersThanIssue == UNCHANGED <<part, walkVars, tageVars, splitVars, queueVars, dramVars, channelVars, statVars>>
OthersThanTage  == UNCHANGED <<part, issueVars, walkVars, splitVars, queueVars, dramVars, channelVars, statVars>>

issuePart == part = "issue" /\ IssueNext /\ OthersThanIssue
walkPart  == part = "walk" /\ WalkNext /\ UNCHANGED <<part, issueVars, tageVars, splitVars, queueVars, dramVars, channelVars, statVars>>
tagePart  == part = "tage" /\ TageNext /\ OthersThanTage
queuePart == part = "queue" /\ QueueNext /\ UNCHANGED <<part, issueVars, walkVars, tageVars, splitVars, dramVars, channelVars, statVars>>
dramPart  == part = "dram" /\ DRAMNext /\ UNCHANGED <<part, issueVars, walkVars, tageVars, splitVars, queueVars, channelVars, statVars>>
channelPart == /\ part = "channels" /\ update_channels
               /\ UNCHANGED <<part, issueVars, walkVars, tageVars, splitVars, queueVars, dramVars, statVars>>
statPart == /\ part = "stats" /\ StatNext
            /\ UNCHANGED <<part, issueVars, walkVars, tageVars, splitVars, queueVars, dramVars, channelVars>>

\* The walk ends with the trace; an accelerator call then finds no arguments (an assertion).
\* A run that calls through a pointer has no end-to-end trace.
walkOver == \/ misread
            \/ pc = "trace" /\ at # Halted /\ Len(Executed.to) > 1 /\ Executed.kind = "call" /\ ~simpoint
            \/ pc = "call" /\ ~fetchForRet /\ Resume = Halted
            \/ pc = "walk" /\ Insn.kind = "cosim" /\ example = <<>>

\* The split of addresses has no steps; the count of cycles ends at its bound.
ended == /\ part = "split" \/ (part = "walk" /\ walkOver)
                          \/ (part = "stats" /\ count.cycles = MaxCycles)
         /\ UNCHANGED unitVars

MCNext == issuePart \/ walkPart \/ tagePart \/ queuePart \/ dramPart \/ channelPart \/ statPart \/ ended

\* The fairness of FairIssueSpec and DRAMSpec.
MCSpec ==
    /\ MCInit /\ [][MCNext]_unitVars
    /\ WF_unitVars(issuePart)
    /\ SF_unitVars(/\ part = "issue" /\ OthersThanIssue
                   /\ dispatch /\ (issueQueue' # <<>> => issueQueue'[1] \in ready'))
    /\ []<>(part # "dram") \/ []<><<update>>_dramVars
=============================================================================
