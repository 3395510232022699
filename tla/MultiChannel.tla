----------------------------- MODULE MultiChannel -----------------------------
(***************************************************************************)
(* DRAMSim2 above its channels (MultiChannelMemorySystem): which channel,  *)
(* rank, bank, row and column an address belongs to (addressMapping), for  *)
(* every mapping scheme and geometry, and how often the channels are       *)
(* updated when the processor has another clock (ClockDomainCrosser).      *)
(* DRAMSim is one channel.                                                 *)
(***************************************************************************)
EXTENDS Integers, Sequences

CONSTANTS
    BusBytes,       \* JEDEC_DATA_BUS_BITS / 8
    BL,             \* burst length
    Geometries,     \* [chans, banks, rows, cols, megs]: the ini files and megsOfMemory
    Speeds          \* [dram, cpu]: the clock frequencies; cpu = 0 asks for 1:1

ASSUME MultiChannelAssumption ==
    /\ BusBytes \in Nat \ {0} /\ BL \in Nat \ {0}
    /\ \A g \in Geometries : \A f \in DOMAIN g : g[f] \in Nat \ {0}
    /\ \A s \in Speeds : s.dram \in Nat \ {0} /\ s.cpu \in Nat

VARIABLES
    geometry, scheme,   \* the configuration
    physicalAddress,    \* an address of the memory
    clock,              \* clock1, clock2 of the crosser
    counter,            \* counter1, counter2
    cpuCycles, updates  \* of processor and memory, since they were last in step

channelVars == <<geometry, scheme, physicalAddress, clock, counter, cpuCycles, updates>>

-----------------------------------------------------------------------------
(* Geometry.                                                               *)

dramsim_log2(v) == CHOOSE k \in 0 .. v : 2 ^ k >= v /\ (k = 0 \/ 2 ^ (k - 1) < v)

TRANSACTION_SIZE == BusBytes * BL
COL_LOW_BIT_WIDTH == dramsim_log2(TRANSACTION_SIZE) - dramsim_log2(BusBytes)

StoragePerRank(g) == g.banks * g.rows * g.cols * BusBytes

\* MemorySystem::MemorySystem: as many ranks as the memory needs, at least one.
\* (A megabyte is one byte here.)
NUM_RANKS_Of(g) ==
    LET ranks == (g.megs \div g.chans) \div StoragePerRank(g) IN IF ranks = 0 THEN 1 ELSE ranks

Storage(g) == g.chans * NUM_RANKS_Of(g) * StoragePerRank(g)

colHighBitWidth == dramsim_log2(geometry.cols) - COL_LOW_BIT_WIDTH

Width(field) ==
    CASE field = "chan" -> dramsim_log2(geometry.chans)
      [] field = "rank" -> dramsim_log2(NUM_RANKS_Of(geometry))
      [] field = "bank" -> dramsim_log2(geometry.banks)
      [] field = "row"  -> dramsim_log2(geometry.rows)
      [] field = "col"  -> colHighBitWidth

\* The fields of an address from the lowest bit up, scheme by scheme.
Fields == <<
    <<"bank", "col", "row", "rank", "chan">>,
    <<"rank", "bank", "col", "row", "chan">>,
    <<"row", "col", "bank", "rank", "chan">>,
    <<"col", "row", "bank", "rank", "chan">>,
    <<"bank", "rank", "col", "row", "chan">>,
    <<"col", "rank", "bank", "row", "chan">>,
    <<"chan", "bank", "rank", "col", "row">>>>

\* Each field is cut off the low end of what the fields before it have left.
addressMapping(a) ==
    LET order == Fields[scheme]
        left[i \in 1 .. 5] == IF i = 1 THEN a \div TRANSACTION_SIZE
                              ELSE left[i - 1] \div 2 ^ Width(order[i - 1])
    IN  [f \in {"chan", "rank", "bank", "row", "col"} |->
            LET i == CHOOSE i \in 1 .. 5 : order[i] = f IN left[i] % 2 ^ Width(f)]

\* The single channel is a short cut, taken before the address is mapped.
findChannelNumber(a) == IF geometry.chans = 1 THEN 0 ELSE addressMapping(a).chan

-----------------------------------------------------------------------------
(* Clocks.                                                                 *)

setCPUClockSpeed(s) == <<s.dram, IF s.cpu = 0 THEN s.dram ELSE s.cpu>>

ChannelInit ==
    /\ geometry \in Geometries /\ scheme \in DOMAIN Fields
    /\ physicalAddress \in 0 .. Storage(geometry) - 1
    /\ clock \in {setCPUClockSpeed(s) : s \in Speeds}
    /\ counter = <<0, 0>> /\ cpuCycles = 0 /\ updates = 0

\* How often the loop runs to bring counter2 up to counter1.
Callbacks(c1, c2) == IF c2 >= c1 THEN 0 ELSE (c1 - c2 + clock[2] - 1) \div clock[2]

\* Mutant: what the memory is ahead is forgotten.
Leftover_Forgotten(c) == IF c[1] <= c[2] THEN <<0, 0>> ELSE c

\* The counters start again only when they meet.
Leftover(c) == IF c[1] = c[2] THEN <<0, 0>> ELSE c

\* ClockDomainCrosser::update in every processor cycle; each callback is
\* actual_update, which updates every channel once.
update_channels ==
    LET c1 == counter[1] + clock[1]
        n  == IF clock[1] = clock[2] THEN 1 ELSE Callbacks(c1, counter[2])
    IN  /\ counter' = IF clock[1] = clock[2] THEN counter
                      ELSE Leftover(<<c1, counter[2] + n * clock[2]>>)
        /\ LET again == (cpuCycles + 1) * clock[1] = (updates + n) * clock[2] IN
            /\ cpuCycles'  = IF again THEN 0 ELSE cpuCycles + 1
            /\ updates' = IF again THEN 0 ELSE updates + n
        /\ UNCHANGED <<geometry, scheme, physicalAddress, clock>>

ChannelSpec == ChannelInit /\ [][update_channels]_channelVars

-----------------------------------------------------------------------------
\* Every place exists, findChannelNumber agrees with the mapping the channel's
\* controller uses, and two addresses share a place exactly when they are of
\* one transaction, in every scheme, with and without bits for channel and
\* rank: no two lines of the memory are confused.
MappingExact ==
    LET p == addressMapping(physicalAddress) IN
    /\ p.chan < geometry.chans /\ p.rank < NUM_RANKS_Of(geometry)
    /\ p.bank < geometry.banks /\ p.row < geometry.rows
    /\ (p.col + 1) * 2 ^ COL_LOW_BIT_WIDTH <= geometry.cols
    /\ findChannelNumber(physicalAddress) = p.chan
    /\ \A a \in 0 .. physicalAddress :
         addressMapping(a) = p <=>
             a \div TRANSACTION_SIZE = physicalAddress \div TRANSACTION_SIZE

\* After any number of processor cycles the memory is less than one of its
\* cycles ahead of the same time on its own clock, and never behind.
ClocksInStep ==
    /\ updates * clock[2] >= cpuCycles * clock[1]
    /\ (updates - 1) * clock[2] < cpuCycles * clock[1]

\* Addresses and clocks of the memory above its channels.
ChannelsInStep == MappingExact /\ ClocksInStep
=============================================================================
