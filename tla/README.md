# CoSim: TLA+ specifications

CoSim simulates, instruction by instruction, an out-of-order CPU core that
drives a systolic-array accelerator in the style of Gemmini. A network or a C
program is compiled, instrumented and run to record a trace; the simulator
walks the program along that trace through models of the core, the caches, the
memory and the array. This directory holds TLA+ models of these parts, the TLC
configurations that check them, and TLAPS proofs.

Paths without a directory in front (`SA/...`, `mem/...`, `core.cpp`) are below
`src/sim/src/` or `src/sim/include/`.

## 1. Inventory

The simulator is one thread. `main()` calls `core->run()` and
`memInterface->process()` in a loop. `Core::run` (`core.cpp`) executes one
cycle: commit, one cycle of the accelerator (`Stonne::cycle`), execute, write
back, issue, dispatch, rename, decode, fetch, the end of a flush, then
`process()` of L1I, L1D and L2. "Concurrency" is therefore the interleaving of
simulated units within and across cycles. What is hard is that a command or an
instruction is in several queues at once, that results come back after a varying
number of cycles and in any order, and that the stages run against the flow of
the instructions, so that state written by one is read by another one cycle
later or earlier than a reader expects. Around the simulator the difficulty is
another one: several programs must agree on something that is written nowhere
(the order of the words of a trace, the rows of the scratchpad a tile uses, the
layout of a tensor).

| component | source | state | operations |
|---|---|---|---|
| Command | `SA/Command.*` | status ladder, row ranges, parents and children | `set_params`, `overlap`, `is_ready`, `set_done` |
| Systolic-array controller | `SA/SAController.*` | instruction queue, three queues, three controllers, ROB, lists of executing commands, fence, unit flags, DMA counters | `receive`, `commit`, `execute`, `try_complete_fence`, `issue`, `dispatch` |
| Meshes | `SA/WSMesh*`, `SA/OSMesh*`, `SA/Multiplier*`, `SA/WSAccumulationBuffer.*` | FIFOs between cells, double-buffered weights and sums, flip waves, pending multiplies | preload, multiply, flip, `cycle` of each network |
| Flexible STONNE array | `SA/SDMemory.*`, `SA/DSNetwork.*`, `SA/MS*`, `SA/AS*`, `SA/FE*`, `SA/Compiler*`, `SA/Bus*`, `SA/Lookup*` | counters of the walk over a layer, FIFOs, adder modes and links, accumulators | `cycle` of memory, distribution, multipliers, reduction, bus; signal generation |
| DMA engine | `mem/DMAEngine.*` | requests, split bursts, sliding window, bus schedule | `submit`, `cycle`, `recvResponse`, `take_completed` |
| Back end | `core.cpp`, `window.cpp`, `lsu.cpp`, `task/dyn_insn.*` | ROB, issue queue, accelerator-call queue, in-flight list, load and store queue, forwarding lists | `commit`, `execute`, `writeBack`, `issue`, `dispatch`, `rename` |
| Issue unit | `issue_unit.*`, `port.h` | release cycles of ports, busy units, free units per kind | `issue`, `schedulePortModel`, `scheduleNaiveModel`, `occupyFU`, `freeFU` |
| Front end | `core.cpp`, `ifu.cpp` | FTQ, group sizes, fetch buffer, decode and rename buffers, the one request to L1I | `fetch`, `IF0`, `IF1`, `fakeIF`, `decode`, the flush in `run` |
| Branch predictors | `branch_predictor.*`, `tage/` | counters, tagged tables, global and folded histories, the last lookup | `predict`, `update` |
| Program walk | `core.cpp`, `hardware.cpp`, `task/task.cpp` | current block, return stack, position in the trace | `preprocess`, `fetchTargetBB`, `scheduleBB` |
| Caches | `mem/cache.*`, `mem/FunctionalCache.*` | request and response vectors, pipeline, MSHR, LRU sets, victims | `process`, `handleRequests`, `handleResponses`, `enterMSHR`, `sendRequests`, `sendResponses`, `invalidate` |
| Memory interface | `mem/DRAM.*`, `mem/SimpleDRAM.*` | outstanding reads and writes, ports, epoch counter | `addTransaction`, `read_complete`, `write_complete`, `process` |
| DRAMSim2 | `src/sim/DRAMSim2/` | transaction queue, command queues, two bank tables, buses, refresh counters, clock counters | `addTransaction`, `update` |
| Statistics | `core.cpp`, `statistc.cpp`, `window.cpp` | 64-bit counters | counting in each stage, `printStats`, `printForMcpat` |
| LLVM passes and trace runtime | `src/llvm/` | blocks and their numbers; `flag`, `T`, `TotalInstCount`; the profiler's counts | `renameBBs`, `splitbb`, `instrumentPass`, `profile`, their runtimes |
| MLIR passes and runtime | `src/mlir/lib/`, `src/gemmini_interface/mlir_gemmini_runtime.cpp` | the operations of a module, declared callees, memrefs | rewriting of `linalg.matmul` and `linalg.conv_2d_nchw_fchw`, the runtime's copies and calls |
| Gemmini interface | `src/gemmini_interface/include/gemmini.h` | tile sizes, addresses in scratchpad and accumulator | `tiled_matmul_auto`, `tiled_conv_auto`, `tiled_conv_dw_auto` and what they call |

How they interact: the MLIR runtime calls the Gemmini interface, whose macros
end in calls the LLVM tracer records; the simulator's program walk reads them
back and feeds the front end, which feeds `rename`. The back end hands
accelerator calls to the controller (`Core::cosim_issue`,
`SAController::receive`), and the controller's commit writes back into the CPU
instruction (`set_dyn_inst_finished`). The controller starts preloads and
multiplies in a mesh and polls its signals; it submits transfers to the DMA
engine and polls its completions; the engine sends bursts into L2 and gets
answers by a callback. The load/store unit and the fetch unit use L1D and L1I;
these share L2, which uses the memory interface, behind which is `SimpleDRAM` or
DRAMSim2.

What makes each part correct:

* Controller: scratchpad hazards between load, store and execute commands are
  respected although the three units run at their own speed; a fence separates
  what is before it from what is after it; nothing refers to a command that
  commit has deleted; every command commits.
* Meshes and flexible array: what is counted or written for an operation is the
  sum of exactly its own products, though operations overlap in the array; no
  FIFO or adder waits for something that never comes.
* DMA engine: no burst is lost or counted twice; every transfer is reported
  once; a transfer is not taken for finished while bursts are on the way, but
  for writes, which the code reports early on purpose.
* Back end: precise retirement, memory order, no load sleeps for ever, every
  store reaches L1, accelerator calls are not speculative, a fence drains.
* Issue unit: a port or a unit is never given twice, and is never lost.
* Front end, program walk and tracer: the instructions handed to the back end
  are the ones the traced program executed, in order, without gap or
  repetition, and the chunk traced is the chunk profiled.
* Predictors: a branch trains the entries it was predicted with.
* Caches: every request is answered once, every miss is filled once.
* DRAMSim2: no command reaches a device before its timing allows it, in spite
  of reordering; every transaction ends; clocks of different speed stay in step.
* Gemmini interface and MLIR: the commands, tiles and calls compute the
  operation they stand for.

`PROJECT.json` lists the hazards of this code line by line, with the properties
that would catch each of them.

## 2. Modules

| module | models | composes |
|---|---|---|
| `Command` | `Command`: ranges, statuses, `overlap` | |
| `SAController` | `SAController::cycle`, stage by stage | `Command`, `DMAInterface` |
| `DMAInterface` | abstract: what the DMA engine promises the controller | |
| `DMAEngine` | the engine, with L2 and in fallback mode | implements `DMAInterface` |
| `ArraySignals` | abstract: what the controller may assume of the array | |
| `WSMesh` | the weight-stationary array, cell by cell | `SyncFifo`; implements `ArraySignals` |
| `OSMesh` | the output-stationary array, cell by cell | `SyncFifo` |
| `SyncFifo` | the delay lines between cells | |
| `AdderTree` | the networks ART, ART_ACC and FEN, their compilers and the bus | |
| `FlexibleArray` | memory controller, distribution and multipliers of a convolution layer | |
| `GemminiParams` | sizes and arithmetic of `gemmini_params.h` and `gemmini.h` | |
| `TiledMatmul` | `tiled_matmul_auto`, its tiles and their commands, both dataflows | `GemminiParams`, `Command` |
| `TiledConv` | `tiled_conv_auto`, `tiled_conv_dw_auto`, `tiled_conv_downsample` | `GemminiParams` |
| `MLIRBridge` | the two MLIR passes and the runtime | |
| `Tracing` | renaming, splitting, tracing and profiling of a program | |
| `Preprocess` | `Core::preprocess` along the trace | `Tracing` |
| `FrontEnd` | `Core::fetch`, `decode`, `IFU`, the flush | |
| `Tage` | one-bit, two-bit, gshare and TAGE predictors and their use by the core | |
| `Backend` | `Core::commit` to `Core::rename`, `Window`, `LSUnit`, `LDSTQ` | |
| `IssueUnit` | the choice of ports and units, in both models | |
| `Statistics` | counters and report | |
| `FunctionalCache` | one LRU set: `access`, `insert`, `invalidate` | |
| `CacheHierarchy` | L1I, L1D, L2 and `DRAMSimInterface` as `main()` connects them | `FunctionalCache` |
| `AddressSplit` | tag, set and offset of an address on W-bit words | |
| `SimpleDRAM` | the built-in memory | |
| `DRAMSim` | one channel of DRAMSim2 | |
| `MultiChannel` | address mapping, choice of channel, clock domains | |
| `SAControllerProofs`, `SAControllerTracking` | theorems | `SAController` with `Command` |
| `DMAEngineProofs` | theorems, with the refinement of `DMAInterface` | `DMAEngine` |
| `FrontEndProofs`, `BackendProofs`, `IssueUnitProofs` | theorems | `FrontEnd`, `Backend`, `IssueUnit` |
| `CacheProofs` | theorems | `CacheHierarchy` |
| `UnitsProofs` | theorems | `SimpleDRAM`, `Tracing`, `Statistics`, `MultiChannel` |
| `MC*` | small instances for TLC | |

Conventions. Variables and actions keep the names of the source. Because the
simulator is one thread that calls its stages in a fixed order, a module has a
variable `pc` that names the stage that runs next; one action is one stage, or
one iteration of a stage's loop where the iterations depend on one another
(`execute` in `Backend`, `issueOne` in `IssueUnit`). A pass of code that nothing
interrupts and that is long (`MemorySystem::update`, `cycle` of a mesh) is one
action composed of functions, one for each part of the pass. What lies outside a
module is a nondeterministic choice: `Backend` takes any set of ready
instructions that fits the load units as the outcome of the schedule, `FrontEnd`
any prediction outcome and any retirement, `SAController` any change of the
array's signals that the array can make. Absolute cycle numbers are kept as
distances from the current cycle, so that state spaces are finite. Values of
data do not exist in the simulator (it is trace driven); where it matters which
value is used, a model has the *name* of the datum: a partial sum is the set of
the products in it, a word of memory is where it came from, and "computes the
right result" is that the right names come together, each once.

Correspondence, where it is not the name:

* `SAController`: commands are numbered in program order; `parents[d]` is the
  set of older overlapping commands found by `ROB::build_data_dep`, children are
  its inverse. `preloaded`, `accumulated`, `computed`, `flipped`, `mem_idle` are
  the methods of the array that `execute` calls. `acc_cmds` is the accumulation
  buffer's own list. `inflight`, `early`, `reads` are the variables of
  `DMAInterface`.
* `DMAEngine`: a request is named by its command. `in_memory[c]` counts the
  bursts inside L2. `l2` says whether `connectL2` was called; it never changes.
* `WSMesh`, `OSMesh`: a cell pushes and pops at most once a cycle and the code
  visits cells against the direction of the data, so all cells step at once and
  a `SyncFifo` is its delay line.
* `AdderTree`, `FlexibleArray`: receivers run before senders, so a connection is
  the tail of its receiver's FIFO. `Lates` and `Delays` say which multipliers or
  sums may be slow.
* `Backend`: instruction numbers are `globalDynID` and start at 0, which
  matters in `forwardData`. `loading` are the loads L1 has accepted, `sac` the
  accelerator commands not yet committed. The status values keep the order of
  the enum `DynOpStatus`, with `SLEEP` last, because the code compares them.
* `IssueUnit`: `claims` is history, the ports instructions were given and for
  how long; `using` stands for `usingPorts` with `usingFuIDs`.
* `CacheHierarchy`: a transaction is a record; one that waits in an MSHR entry
  and also travels down is two occurrences of it, where the code has one object.
  `due` counts the latency down. Each loop over a vector is a fold with a name of
  its own (`ArriveEach` to `EvictEach`), which the proofs refer to.
* `DRAMSim`: the two tables of bank states are both there, the controller's
  (`bank`) and the one of each rank (`rank[r].bank`); an `ERROR` that exits adds
  a name to `errors`.
* `FrontEnd`: an instruction is its `dynID`; a group is a stretch of
  `processedOps` whose size is in `fetchCount`. The code finds the groups of a
  block by walking it; `Groups` says in closed form how the lines cut a stretch.
* `Tracing`, `Preprocess`: the traced program, the profiled program and then the
  simulator run on the same `Source`. A record of the trace has a field `by`
  that is not in the file, the instruction that wrote it; `misread` is set when
  another one reads it.

## 3. Runs

| run | instance | shows |
|---|---|---|
| `sac` | both dataflows, 3 commands out of 5 (WS) or 6 (OS) kinds, ROB of 2, unit queues of 1 or 2, 1 DMA command per direction | `TypeOK` (with the assertions of `insert_command`), `DependenceOrder`, `UnitOrder`, `FenceBarrier`, `CommandsTracked`, `EventuallyCommitted` |
| `dma` | two transfers of 0, 1 or 3 bursts, window of 2, bus slower than memory, with and without L2 | `TransfersAccountedFor`, `InterfaceSpec` (refinement of `DMAInterface`), `EveryTransferEnds` |
| `backend` | every program of up to 4 instructions from a slow producer, a store, a load of the same word and its consumer, or from operations, stores, accelerator calls and fences | `WithinLimits`, `PreciseRetirement`, `LoadsSeeStores`, `AcceleratorInOrder` |
| `backend_live` | every program of up to 3 instructions of all five kinds | `EventuallyRetired` (and stored) |
| `backend_sleep` | as `backend` | `OperandsFinished` is violated (section 6) |
| `cache` | three lines, two-way L2, one-way L1s, latency 1, data, fetch and DMA requests, a memory that may refuse | `RequestsKept` |
| `cache_live` | two lines in one-way caches, latency 2 in L1D and L2, one MSHR entry each | `EveryRequestAnswered` |
| `front` | blocks of one to three lines that start at or inside a line, with and without a mispredicted branch, 6 instructions | `FetchInOrder`, `EventuallyDispatched` |
| `units` | eight parts, see below | `OneUserAtATime`, `FollowsProgram`, `ProfiledChunk`, `TrainsOnItsOwnPast`, `SplitIsExact`, `ServedInTime`, `ProtocolKept`, `ChannelsInStep`, `ReportConsistent`, `EventuallyIssued`, `EveryTransactionDone` |
| `array` | seven parts, see below | `ExactProducts`, `ExactSums`, `TreeSumsExact`, `LayerExact`, `TilingCorrect`, `ConvExact`, `NetworkComputed`, `SignalsSpec` (refinement of `ArraySignals`), `OutputArrayQuiesces`, `TreeDrains`, `LayerFinishes` |
| `tiles_bias` | products with a bias, of 1 and of 3 block rows, both dataflows | `BiasLoadedFirst` is violated (section 6) |
| `trace_numbers` | the program of `units`, blocks numbered before they are split | `ReadByItsWriter` is violated (section 6) |

`units` and `array` each host several parts that share no state. The variable
`part` says which one a behaviour runs; the others stay in one initial state,
and a part that ends stutters. The state spaces therefore add up and do not
multiply, and each part's properties mean what they mean in its own module.

Parts of `units`:

* `issue`: three ports, dividers that are not pipelined, instructions with two
  uops and with alternative units, 3 instructions, both models.
* `walk`: a program with a loop, calls in calls, a call through a pointer, an
  accelerator call and an external call, a switch, and two calls in one block.
  It is traced end to end or for chunk 0, 1 or 2 of 6 instructions, cut off
  after 4 to 17 records, and the walk runs along whatever was recorded.
* `tage`: repeated patterns of one to four branches, three tagged tables whose
  histories are longer and shorter than the pattern, two branches in flight.
* `split`: every address and geometry on 6-bit words.
* `queue`: `SimpleDRAM` with 2 transactions per epoch of 4 cycles.
* `dram`: two ranks of two banks, open and close page, both queue structures and
  orders, a refresh every 40 cycles, and four bursts of two or three accesses
  that arrive at any time: one row used more often than allowed, a row conflict,
  reads of two ranks, a write and a read of two ranks. At a period below 40 the
  short device timings leave too little time for a refresh to drain a queue
  (`RefreshKept` fails at 30); real devices have a ratio far above that.
* `channels`: five geometries of one to four channels and one to four ranks,
  every address and all mapping schemes; five pairs of clocks.
* `stats`: three classes of instructions, a ROB of 3, 4 cycles.

Parts of `array`:

* `ws`, `os`: 3 by 3 cells; tiles of `Dim - 1` and `Dim` rows and 1 and `Dim`
  columns; 3 multiplies with 2 preloads (WS) or 4 with 1 (OS), so that a preload,
  a running and a draining multiply overlap, with flips and with stays. The
  fourth is needed because a flip cannot come first (section 5).
* `tree`: 16 multipliers, two bus lines, plans of one or more tiles in each of
  the three networks, uniform and uneven neurons, with and without folding, and
  multipliers that lag.
* `flex`: 8 multipliers and two read ports; layers with groups, several filters,
  channels and images, stride 2, folding, forwarding between neighbours.
* `matmul`: `DIM` of 2 and a scratchpad of 48 rows, sizes around multiples of
  the block and of the tile, both dataflows, with and without bias, some of the
  matrices parts of wider ones. `TilesExact` asks that the right products and
  the right bias leave for each block of C, once; it takes the DRAM addresses of
  C and D as the code computes them (`PlaceOfC`, `PlaceOfD`), which are not where
  the blocks belong (section 6). Of output stationary calls it asks about those
  of `OneTile`.
* `conv`: 6 by 6 images, stride 1 and 2, padding 0 to 2, dilated input and
  kernel, rotated weights, depthwise, downsampling.
* `network`: short networks of products and convolutions whose buffers have
  strides and offsets and feed one another.

Bounds. `MaxCmds`, `MaxInsns`, `MaxOps`, `MaxRequests`, `MaxPending`, `MaxPerCycle`,
`MaxDepth`, `Limits`, `Bursts`, `Waves`, `MaxPreload`, `MaxMul`, `MaxLoad`,
`MaxProd`, `InFlight` and `MaxCycles` bound the length of a behaviour; all other
constants are parameters of the hardware or inputs. They are chosen so that each
limit is met and exceeded: more commands than ROB entries, more bursts than the
window, more stores than store-queue entries, more misses than MSHR entries,
more lines than ways, a block longer than the fetch width, a history longer than
a table's, a matrix larger than the scratchpad. A violation of an order property
needs two instructions or commands that conflict and one more that changes the
timing; the runs have at least three. `MaxDepth` of 2 has a call in a call, and
a second call in a block after the first has returned.

Fairness, and what in the code justifies it. In every module `WF_vars(Next)` or
`[]<><<Next>>_vars`: `main()` runs the core and the memory in a loop. Beyond
that:

* `SAController`: again and again a cycle comes in which all DMA transfers and
  all array operations under way are over. Transfers end by `EveryTransferEnds`
  of `DMAEngine`, array operations by `SignalsSpec` of `WSMesh` and
  `OutputArrayQuiesces` of `OSMesh` (for the programs section 5 admits).
* `DMAEngine`: L2 answers every burst and has a free port for a waiting one
  again and again (`EveryRequestAnswered`; ports are reset each cycle).
* `Backend`: L1 answers, the accelerator commits (`EventuallyCommitted`), the
  oldest ready instruction finds its port and unit (`EventuallyIssued`).
* `IssueUnit`: the oldest instruction of the queue becomes ready, since what it
  waits for has left the queue.
* `CacheHierarchy`: the memory serves every outstanding read (`ServedInTime` for
  the built-in one, `EveryTransactionDone` for DRAMSim2).
* `FrontEnd`: L1I answers, the back end takes and retires.
* `AdderTree`, `FlexibleArray`: a slow multiplier or sum (`lag`, `late`) is not
  slow for ever. The meshes and DRAMSim2 need only that their cycles go on.

The strong forms are needed because the choices are made anew each cycle: weak
fairness would be met by an interface that is merely disabled in the wrong
moments. Each assumption of one module is a liveness property of another; the
circle is not closed by a composed run (section 7).

Liveness properties are stated as `[]<>` of "all are done", where the number
done never falls back.

Deadlock is checked in every run that must pass: where a part really ends (a
trace, a layer, a product, the bound on cycles) the host has an explicit
stuttering step `ended` with the condition of the end.

## 4. Proofs

`SAControllerProofs` proves, for every set of commands, every capacity and both
dataflows:

* `TypeCorrect`: `Spec => []TypeOK`. `TypeOK` includes that no queue, controller
  or ROB exceeds its capacity: the assertion of `BaseQueue::insert_command`.
* `DependencesRespected`: `Spec => []DependenceOrder`: a command that has been
  issued to its controller has every older overlapping command finished.

`DependenceOrder` is not inductive. That `issue` waits long enough rests on the
parents `dispatch` computed; that these are all the commands that matter rests
on the ROB holding every unfinished older command, in program order; that a
finished parent stays finished rests on nothing ever reporting a command that
has not started. The inductive invariant `IInv` therefore joins `TypeOK` and
`DependenceOrder` with

* `ProgramOrder`: instruction queue and ROB are consecutive stretches of the
  program;
* `StatusByAge`: nothing is beyond `WAITING` before it is dispatched, everything
  has finished once it has left the ROB;
* `QueuesHold`, `ContlrsHold`, `UnitFifo`: each queue and controller holds
  commands of its unit in program order with the status of that stage;
* `ReportedStarted`: whatever the array, the DMA engine or a fence will report
  has been started;
* `ParentsBuilt`: every older overlapping unfinished command is a parent.

There is one lemma per action of `Next`, and two that several of them share:
finishing commands that have started (`FinishStarted`) disturbs nothing.

The last section of `SAControllerProofs` proves `OverlapIsHazard`: for ranges of any size, `overlap()`
holds exactly between commands that touch a common cell of the scratchpad or the
accumulator which one of them writes (pairs of EXE commands aside, which the
array orders). It rests on `RangeOverlapIsIntersection`, that the code's
comparison of half-open ranges is intersection. Together with
`DependencesRespected` this says that no scratchpad hazard is violated, whatever
the program.

`SAControllerTracking` proves the rest of what run `sac` checks as invariants,
for the same generality: `UnitsInOrder` (`UnitOrder`), `FencesHold`
(`FenceBarrier`), `AllCommandsTracked` (`CommandsTracked`) and `StatusOnlyClimbs`,
the action property in `EventuallyCommitted`. `IInv` says that what is in a list
has the state the list stands for; these properties also need the converse.
`TInv` adds it: every waiting, issued and executing command is in the list of its
state (`QueuesExact`, `ListsExact`, `OthersExact`), an unfinished fence is the
last command dispatched (`FenceLast`), what a finished fence waited for stays
finished (`FenceDone`), and parents are in the ROB (`ParentsLive`). `Tracking` is
`Spec => [](IInv /\ TInv)`.

`DMAEngineProofs`, for any finite set of commands, any sizes, window, latency and
bus delay, with and without L2: `EngineCorrect` (`TransfersAccountedFor`) and
`EngineRefines` (`InterfaceSpec`), which discharges the promise the controller's
proofs rest on. The invariant `DInv` adds to the books themselves that a burst
waits only for a request in flight, that a request is in flight exactly while a
burst of it is missing, how often the controller has been told of a command, and
that the queue of 0-byte transfers holds only such. Counting bursts in queues
needs an induction on the length of a sequence.

`BackendProofs`, for every program, every width and every queue size:

* `RetirementIsPrecise` (`PreciseRetirement`), `LoadsAreOrdered`
  (`LoadsSeeStores`), `AcceleratorIsOrdered` (`AcceleratorInOrder`), and
  `NothingSetBack`, the action property in `EventuallyRetired`;
* `LimitsKept` (`WithinLimits`), when there are at least as many load ports of L1
  as load units. Every shipped configuration is like that (one unit and two
  ports, or up to two and eight). The hypothesis is needed: with two units and
  one port a load that finds no port is still merely issued when write back
  comes, and the assertion of `Core::writeBack` fails, which TLC shows with
  `LoadUnits = 2` and `L1LoadPorts = 1`. The invariant `PortsSuffice` says that a
  port is left for every load that is issued and not yet sent.

The invariant `BInv` (`BackendInvariant`) says where each instruction is:
`insnQueue` and the ROB are consecutive stretches of the program
(`ProgramOrder`); an instruction's place in them bounds its status
(`StatusByAge`); its status says in which of the issue queues, `inFlightInsn`,
the store queue and the accelerator's list it is. The hard part is `Sleepers`: a
sleeping load is on exactly one forward list, that of the youngest older store to
its address, which is still in the store queue and has not been sent, so that
the store's pass through `execute` will wake it. It has to survive stores that
issue, finish, retire and leave the store queue in any order.

`IssueUnitProofs` proves `PortsAndUnits` (`OneUserAtATime`) for every
configuration of ports and units, every set of templates and both models. The
two searches are functions defined by recursion; `TryAllStays` and `ScheduleIs`
say what they can return: free units of the kinds asked for, also with what
failed alternatives leave behind, and different ports that nothing blocks. The
invariant `UInv` adds that the queue holds each waiting instruction once, and that
a port's `releaseCycle` is what is left of the stall of the instruction that
holds it (`ClaimsBlock`).

`FrontEndProofs` proves `FetchesInOrder` (`FetchInOrder`) for every size of cache
line, width, queue limit and penalty and every sequence of basic blocks. The
invariant `FInv` names the places where one queue ends and the next begins
(`Run`), says that the groups which `FTQ` and `fetchCount` describe tile
`processedOps`, each within one line (`Tiled`), and that a mispredicted branch
that has not retired is `lastOp` and the youngest instruction (`BranchIsLast`).
The hard step is `AddBlock`: the groups of a block, cut at the lines, continue the
tiling, whatever was left over from the block before.

`CacheProofs` proves `CacheKeepsRequests` (`RequestsKept`) for every number and
sequence of requests, every geometry, latency, number of ports and MSHR entries,
and whatever the memory refuses.

* `CacheInvariant` is `Spec => []CInv`: the types, `AnsweredExactlyOnce` and
  `OneFillPerEntry`, which together are inductive. The argument counts. For a
  transaction `u` and a cache, `Held` is how often the cache has it for the level
  above, `Own` and `Below` how often it has asked for it; every step moves an
  occurrence from one term to another, and a response empties an MSHR entry while
  it is the only fill of it (`RepliesLead`). A step is a loop, a fold over a
  vector: one lemma for each loop (`ArriveLoop`, ...) turns what a round keeps into
  what the loop keeps, by induction on the number of rounds (`LoopCarries`).
* `OneCopyPerCache` is proved for each cache of latency 1 by itself (`OneCopy`).
  It is not inductive: a cache must also have no request in the pipeline that was
  taken for a miss and has since been filled. With latency 1 the pipeline is
  empty when a fill or an invalidation comes, and a request stalls only on a
  full MSHR and not on a line that has an entry, so nothing decided goes stale.

`UnitsProofs` is about four small parts that `MCUnits` checks.

* `TransactionsServed` (`ServedInTime`), for every latency, bandwidth, clock,
  epoch length and rate of arrival. The invariant `QInv` counts: while a ready
  transaction waits, the slots of every epoch are used up (`SlotsUsed`), so for
  every whole epoch it has waited, `max_req_per_epoch` transactions have left
  before it (`EpochsCounted`).
* `ChunkProfiled` (`ProfiledChunk`), for every program, calls to any depth, every
  chunk size and every chunk asked for. `BlocksCounted` in `TraceInv` is the
  balance while the chunk is recorded: the blocks entered, and those that were
  under way when it began, are the blocks counted at their end and those under
  way now, in the current block (`Mid`) or in a caller's (`Opened`). Most of the
  proof is that the blocks `splitbb` makes are well formed (`SplitIs`), so that an
  execution stays inside the program.
* `ReportAddsUp` (`ReportConsistent`), for every mix of instructions, every width
  and any number of cycles. `SInv` says that what was dispatched fits the slots,
  that a stall on memory is not a cycle with an empty buffer, and that
  `insnCountMap` adds up to `totalCommit`. The report's sums are folds over sets;
  `SumExists` and `SumIs` show what such a fold is, `SumOfUnion` that classes which
  do not meet add up.
* `ChannelClocks` (`ClocksInStep`), for every pair of frequencies. The two counters
  are multiples of the clocks (`ClockInv`), also over the moments where they meet
  and start again; `RoundsUp` is the division in `Callbacks`.

Assumptions of the proofs: the `ASSUME`s of the modules (types of commands,
templates and sizes; a unit that is not pipelined takes at least one cycle; a
block of the program is not empty and ends in its only terminator, as in LLVM),
which TLC evaluates in the runs; `LoadUnits <= L1LoadPorts` in `LimitsKept`, as
stated in the theorem; and the models' views of their surroundings (section 2).
TLC has checked every inductive invariant on the instances of the runs (with
`AddsUp` as the sum it stands for).

Induction. The library's induction theorems take an operator as a parameter,
which the provers cannot instantiate. Where a proof needs induction, it is over a
set of numbers (`InductiveSet`, `UpFromZero`: a set of naturals with 0 and the
successors of its members is `Nat`), which follows from well-foundedness. That is
enough for counters, for short recursive functions (`Only` in `Backend`, the
searches of `IssueUnit`), whose tables are shown to exist first, and for the folds
of `CacheHierarchy`, which are such functions below their definitions. `SelectSeq`
is opaque to the provers; `Backend` and `SAController` therefore state what they
select in other terms.

Only model-checked: liveness, which is out of this prover's reach; the refinement
of `ArraySignals`; and the properties of the modules without a proof module.
Among these `TreeSumsExact`, `LayerExact`, `TilingCorrect`, `ConvExact` and
`NetworkComputed` compare loops and recursive walks with what they should
compute, an induction over data whose invariant is the whole walk, and
`ExactProducts` and `ExactSums` say the same of the two meshes; `Tage` and
`AddressSplit` use `Bitwise`, which proofs cannot reach. `MappingExact` (the other
half of `ChannelsInStep`) needs sizes that are powers of two and the laws of the
exponent, which the provers do not know. `ProtocolKept` depends on the delays of
the device and is false for some values of `Timing` (a command that takes no time
on the bus never arrives); for the delays checked, TLC covers every cycle of the
bursts. `FollowsProgram` relates two runs of the program, one of
them read back from the trace of the other; its invariant would be the whole
correspondence.

## 5. What is not modelled

* `invoke`: the flow lowers it, and `getCalledFunc` of it is `assert(0)`.
* `LLCache` (never instantiated by `main()`), the prefetcher (`#if 0`), the class
  `PREDICTOR` of `tage/tage.cpp` and `configureSparseSignals` (no callers).
* The sparse memory controllers and sparse signals of the flexible array, and
  `main_stonne.cpp`, STONNE's own front end. The simulator itself drives the two
  meshes only.
* Pooling, transposed layouts, normalisation and residual addition of
  `gemmini.h`: on the accelerator their code is commented out, empty or exits.
  The macros of `gemmini.h` (1-406) are largely commented out as well; a command
  is modelled by the call that is left. `src/gemmini-rocc-tests/` holds Gemmini's
  own header and programs for real hardware.
* Reading of configurations, of the LLVM module and of DRAMSim2's .ini files;
  the printout of the statistics, `bad_speculation` (section 6), DRAMSim2's
  energy and bandwidth figures and its trace-driven front end; vendored readers
  (`cpptoml.h`).
* A composition of core, controller, DMA engine and caches in one run. It has not
  been attempted: the state spaces of the parts multiply. The interfaces are specifications of their own instead (`DMAInterface`,
  `ArraySignals`). One consequence is that the end of the simulation
  (`core.cpp` 1705) is not checked, see section 6.

Assumptions about configurations and inputs. The first three are true of all
configurations that are shipped; the others are needed by the code, and nothing
tests them:

* port counts of the caches are positive (-1, "unlimited", would trip an
  assertion of `recvRequest`); a unit that is not pipelined takes at least one
  cycle (else it could retire before it is freed); the memory interface has 128
  ports of each kind (a store's fill asks for a write port and takes a read port,
  `mem/DRAM.cpp` 48, which the model keeps);
* `WSMesh`: a tile has at least `Dim - 1` rows (a shorter one lets the next flip
  overtake it), CONFIG only changes a limit behind a fence;
* `OSMesh`: `T_K` is at least the number of rows, a flip follows exactly one
  preload, and a preload comes only when the cells do not stay, that is after a
  multiply that does not stay: cells begin with `stay` true
  (`SA/MultiplierOS.h` 77) and a flip does not change it. `ExactSums` and
  `OutputArrayQuiesces` speak of such programs only. `gemmini.h` gives no others:
  its OS code has multiplies with and without stay, and no preload or flip;
* `FlexibleArray`: stride 2 only with one output at a time, not several images
  and several groups at a time (`SA/SDMemory.cpp` 563), a group count that the
  tile divides;
* `AdderTree`: neurons of one multiplier do not fold several at once;
* `TiledConv`: kernels are not cut (`KernelWhole`), and input and kernel are not
  dilated together (test at `gemmini.h` 1816);
* `MultiChannel`: powers of two; `DRAM.cpp` 117 multiplies MHz by a million in an
  `int`, which overflows above 2147 (the default is 2100);
* `Tracing`: no switch follows a call of a function with a body in its block
  (`split_bb.cpp` 85-97 does not split there).

## 6. Where the code and its comments disagree

Three disagreements are kept as runs that TLC must refute:

* `backend_sleep`: "if all dependent insns finish, set insn ready"
  (`include/window.h` 65). `checkInsnReady` tests `status >= FINISHED`, and
  `SLEEP`, the state of a load that waits for a store's data, is the largest
  value of the enum (`include/task/dyn_insn.h` 33): consumers of a sleeping load
  are issued before its data is there.
* `tiles_bias`: "MM vs LOAD_ACC, load D into accbuf before MM writes to accbuf"
  (`SA/Command.cpp` 164). `sp_tiled_matmul_os` and `sp_tiled_matmul_ws` move the
  bias to addresses from `1 << 31` on and multiply into addresses from `3 << 30`
  on (`gemmini.h` 418-419, which TLC's trace runs through, and 577-578): the bit that means "accumulate" keeps the two ranges apart, `overlap`
  never finds them to meet, and nothing orders the two commands.
* `trace_numbers`: `README.md` 161 and 169-170 and `compile_simpoint.sh` 4-6 number
  the blocks first and split them afterwards. All pieces of a block then have
  one number (`instrumentPass.cpp` 191 reads it with `stoi`, which stops at
  ".split"), and the walk goes on in the first piece. Run `units` checks the
  other order, in which every piece has a number of its own.

Others met while modelling. The models keep what the code does:

* `src/lsu.cpp` 197: the search for the youngest older store starts with
  `dynID = 0` and asks for a larger one, so the store with number 0 never
  forwards ("perfect data fwd", line 77). `MemoryOrder` leaves that store out.
* `src/core.cpp` 723: `uidDynOpMap` is set to the instruction itself before its
  operands are looked up, against the comment at 722 ("last insnance (dynop) of
  static insn"): a phi that takes its own previous value depends on itself.
* `src/mem/DMAEngine.cpp` 120: `pending_zero_done` is looked at only with L2,
  against lines 49-50 ("independent of cache-injection vs fallback mode"): in
  fallback mode a transfer of 0 bytes never ends. `EveryTransferEnds` excludes
  that case.
* `src/mem/cache.cpp` 369: hit or miss is decided when a request arrives, not at
  its due cycle as the comment at 5-8 says; with latency 2 or more a line may be
  fetched and inserted a second time. `OneCopyPerCache` is therefore checked at
  latency 1 only.
* `src/mem/cache.cpp` 390-392: an eviction of L1 that misses in L2 is ignored as
  one that "checkEvictConflist" flagged; it also happens when two fills of one
  L2 cycle fall in the same set, and the write-back is lost.
* `src/mem/cache.cpp` 628: a store that joined a load's MSHR entry leaves its
  line clean, although "caches are write-back ones" (`src/mem/DRAM.cpp` 47).
* `src/core.cpp` 1162: after a call has returned, `targetBB` is `nullptr`, and a
  second call of the block saves no "corresponding previous BB of return"
  (`include/core.h` 183).
* `src/core.cpp` 900: `last_fetch_cache_line` is set before `IF0`, which sends
  nothing while a request is under way; the group is then delivered without a
  request to L1I.
* `src/issue_unit.cpp` 277: "each cycle a port can execute a dynop"
  (`include/issue_unit.h` 27), but the naive model gives a port to any number of
  pipelined instructions. `OneInsnPerPort` speaks of the port model only, the
  one all shipped configurations use.
* `src/issue_unit.cpp` 150: ports are appended to `occupied` before units are
  looked for, so an instruction that finds its unit busy still takes the port
  from the others for the cycle; at 207 they are appended a second time, so the
  loop of `issue` can end with ports free.
* `core.cpp` 1686-1695: "insert bubble for flush", "flush the entire cycle".
  `flushStall` is set by fetch, the last stage, and cleared at the end of the
  same `run()`: no stage is held, and a penalty of 12 cycles costs one fetch.
  The report still counts the penalty as bad speculation, which can exceed 1.
* `core.cpp` 1705: the list of empty queues that ends the simulation lacks
  `cosimIssueQueue`, FTQ and transfers in flight.
* `SA/Command.cpp` 118 ("TODO: MAX_BLOCK_LEN"): a move of several blocks records
  the rows of one.
* `SA/SAController.cpp` 355-372: `compute_finish` is not reset, so a multiply that
  stays, after a gap in which the array is idle, is reported at once. A flip
  "cannot work with stay" (`SA/MultiplierOS.h` 153), which nothing tests, and
  cells stay from the start (77) until a `MatrixMultiply` ends it: a preload and
  a flip as the first operations find `stay` true at the activation limit, the
  counter is reset and `prop` not turned (`SA/MultiplierOS.cpp` 427-431, 474-478),
  the sums never leave the cells and the accumulation buffer waits for ever; a
  later multiply that does not stay sends them merged with its own, and they are
  counted for the flip. Without its guard `~Staying`, `os_preload` shows both:
  TLC then finds `ExactSums` and `OutputArrayQuiesces` violated.
* `SA/MultiplierWS.cpp` 430 deletes the weight package that 439 reads.
* `SA/ASNetwork.cpp` 172-175 gives one port to two switches for 4 bus lines and 8
  multipliers; `FENetwork` has no `resetSignals`.
* `SA/SDMemory.cpp` 691: the loop compares with `write_fifo->size()` while it pops.
* `gemmini.h` 552 (OS), 742 (WS) and 952 (the tile): the offset of a block of C is
  multiplied by `sizeof_C` and then added to an `elem_t *`, which counts elements
  already, and `elem_t` is `float` (`gemmini_params.h` 18). In bytes that is 4
  times the offset: every move out but that of the first block of C goes astray,
  the further blocks of one move lie right behind its first, blocks can lie over
  rows of others and beyond the end of C. The moves out that are commented out
  have "(int8_t*)C + (i*C_row_stride + jj) * DIM * sizeof_C" (770-771), as has the
  copy of the header in `src/gemmini-rocc-tests/`, where `elem_t` is `int8_t`. D
  is displaced in the same way by 597 (WS) and 949 (the tile, both dataflows),
  against the comment in 948, "pre = &(((acc_t*)D)[bias_row * stride_D + j0 *
  tile_J * DIM])", and not by 431 (OS): a bias that OS reads for several tiles is
  right in the first one only. A, B and the convolutions are not affected.
  `TiledMatmul` computes these addresses as the code does; no property says that
  blocks of C and D are where they belong.
* `gemmini.h`: the inner OS loop reads B as [k][j] where the offset of the outer
  one is for [j][k] (450 against 970); results of LAYERNORM
  and SOFTMAX are never moved out (739); `tiled_conv_downsample` loses the last
  column of an odd image (3146-3150); `tiled_conv_dw` has no `cosim_fence`;
  `tiled_resadd` and `tiled_global_average` do nothing on WS (3472-3492,
  3636-3650).
* MLIR: the matmul runtime ignores the memref's offset, the one of convolutions
  honours it; a callee of another type is called although the warning says "will
  not rewrite" (`GemminiMatmulPass.cpp` 35-39); `linalg.matmul` adds to its output,
  the call overwrites it. `NetworkComputed` asks for what imported networks have
  (`AsImported`): zeroed outputs, the element type of the runtime, no offset. It
  takes the result of a call for the product, so it says nothing of the DRAM
  addresses `gemmini.h` computes within one.
* DRAMSim2: a `needRefresh` that is not served is overwritten by the next rank's;
  a rank overwrites the read it is still sending. `RefreshKept` and `OneDriver`
  show that neither happens with the timings checked.
* Tracer: the mark for the end of a chunk, 4294967295, is also what a read past
  the end of the trace yields (`task/task.cpp` 18); the profiler names the first
  block to *end* in a chunk and the tracer the first one *entered*, so that they
  differ in the blocks under way at a chunk's ends (`ProfiledChunk` says how);
  `readCosimArgs` aborts at the end of a trace.

## 7. Plan

Done: every component of section 1 has a module; the accelerator's control path
and its meshes, the CPU pipeline from the traced program to retirement, the
memory hierarchy down to the DRAM devices, and the way of a network to the
accelerator's commands. Proved for all values of the constants: what the runs
check as invariants of `SAController`, `DMAEngine`, `FrontEnd`, `Backend`,
`IssueUnit`, `CacheHierarchy`, `SimpleDRAM`, `Tracing` and `Statistics`, the clocks
of `MultiChannel`, and the refinement of `DMAInterface`.

Left, should the work go on: a composed run that closes the circle of fairness
assumptions (section 3), and `FollowsProgram` for every program, for which
`UnitsProofs` has the part about the traced program.

`Tage`, `AddressSplit`, `TiledConv`, `AdderTree` and `FlexibleArray` stay with TLC,
for the reasons of section 4.
