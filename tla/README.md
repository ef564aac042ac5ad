# veripy in TLA+

veripy is a Python hardware description language. A design is a Python class; the same
source is simulated, in Python or through a C model it generates and loads, and lowered
to Verilog. This directory holds specifications of its parts, the TLC configurations that
check them on small instances, and proofs, checked by TLAPS, of what matters most.

| module | what it is | models |
|---|---|---|
| `SimEngine` | the event loop that drives every test bench | `backend_csim.py` `CySimEngine`, `sim.py`, `verify.py` |
| `EventSim` | abstract: what a discrete-event simulator promises | |
| `MCSimEngine`, `SimEngineProofs` | small test benches; theorems | |
| `CompiledEval` | `veripy_eval`, the C function of a flattened design, and the static analysis behind it | `backend_csim.py` `emit_c` |
| `MCCompiledEval`, `CompiledEvalProofs` | small designs; theorems | |
| `AsyncFifo` | the FIFO between two clocks | `cdc.py` `AsyncFIFO` |
| `BoundedFifo` | abstract: a FIFO | |
| `AsyncFifoProofs` | theorems | |
| `SvaSequences` | what temporal sequences mean, and what they are compiled to | `sva.py`, `backend_csim.py` `_seq_to_steps` |
| `SvaMonitor` | the run-time monitor of a temporal assertion | `backend_csim.py` `_emit_pending_fsm` |
| `MCSvaMonitor`, `SvaMonitorProofs` | families of properties; theorems | |
| `MCCsim` | `MCSimEngine`, `MCCompiledEval` and `MCSvaMonitor` side by side, in one run | |
| `Ir` | expressions and statements, what they read and write, what the C made of them computes | `ir.py`, `flatten.py`, `backend_csim.py` `_expr`, `_emit_stmt` |
| `PythonSim` | a module simulated in Python | `signal.py`, `module.py` `_settle_comb` |
| `TopoSort` | the order of the combinational statements: edges, and Kahn's algorithm | `flatten.py` `topo_sort_comb` |
| `CombPasses` | what the later passes decide from reads and writes: wires to inline, constants, live signals, what a round of settling makes final | `backend_csim.py` `_inline_cont_assigns`, `dce.py`, `module.py` `_settle_comb` |
| `CombProofs` | theorems about `TopoSort` and `CombPasses` | |
| `Lowering`, `Passes`, `Hier` | from the source to the flat C model, and to the hierarchical one | `lower.py`, `flatten.py`, `dce.py`, `backend_csim.py` |
| `Toolchain` | one module on its way through these passes | `compile_model`, `compile_model_hier` |
| `TestBenches` | a test bench, rewritten for the event loop and lowered to C | `tb_compiler.py`, `lower.py` `_TBLowerer`, `emit_tb_c` |
| `TestRuns` | worker processes, seeds, compiled libraries | `parallel_runner.py`, caches of `backend_csim.py` |
| `TestRunsProofs` | theorems | |
| `SocBus` | address map, interconnect, register banks, drivers | `soc.py`, `axi4lite.py`, `csr.py` |
| `SocBusProofs` | theorems about `SocBus` and `GdbStub` | |
| `MCToolchain` | families of modules, benches, maps and test files | |
| `IpBlocks`, `IpBench` | the blocks of `ip.py`; a bench for each | `ip.py` |
| `Axi4` | memories behind a crossbar, and a manager | `axi4.py` |
| `Cpu` | a pipelined processor and its instruction set | `src/examples/cpu_v1.py` |
| `Spi` | SPI controller, peripheral and driver | `src/examples/spi_controller.py`, `spi_driver.py` |
| `Pipelines` | pipelines as simulated and as emitted | `module.py` `_Pipeline`, `_NamedStage` |
| `GdbStub` | the debugger's server thread over the memory of a SoC | `gdb_stub.py`, `soc_sim.py` |
| `HardwareProofs` | theorems about `IpBench`, `Axi4`, `Pipelines`, `Spi` and `Cpu` | |
| `MCHardware` | a bench for `AsyncFifo` and for each of the last six models | |

`PROJECT.json` maps every definition to the lines it models and lists components, runs,
mutants, findings, hazards and theorems. A name marked *mutant* in a module is a slip a
programmer could make in the definition after it; it is used nowhere in the specification
and exists to show that a property of a run can fail.

## 1. The system

**Front end.** `decorator.py`, `signal.py`, `parameter.py`, `lower.py` and `rewriter.py`
turn classes and their `@comb`, `@posedge` methods into IR (`ir.py`). `import_verilog.py`
reads Verilog instead. State: the syntax trees; no concurrency.

**Passes.** `flatten_ir` inlines sub-modules, `topo_sort_comb` splits combinational blocks
into statements and orders them, `_inline_cont_assigns` substitutes wires, `dce.py` folds
constants and removes what nobody reads. State: the list of blocks, the map from a signal
to its writer, in-degrees. Correct when every statement comes after what it reads, a cycle
is an error and nothing else is, and no pass changes what a signal means.

**Compiled model.** `emit_c` writes a struct of ports, registers and memories, functions
`veripy_eval`, `veripy_eval_comb`, `veripy_eval_seq`, setters and getters. State: the
struct, the last value of each clock, one dirty bit per signal, C locals, the arrays of
the temporal monitors, the failure flag. Correct when each call leaves the circuit at rest
and every register with what a Verilog simulator would give it. `emit_c_hier` writes the
same with one function per module. `compile_model` keeps compiled libraries in a cache on
disk that several processes share.

**Event loop.** `CySimEngine.run` resumes Python generators from a heap of sleeping blocks
and a list of waiting ones, interleaves the toggles of a clock, and evaluates the model
after each. Blocks call back into it: `finish`, `run_cycles`, `fork`, `fork_any`. Correct
when no generator is lost, nobody is left waiting for what has happened, the device sees
the right edges and the run ends when it should. `tb_compiler.py` and `emit_tb_c` compile
a bench to C instead; `Module._settle_comb` and `context.py` simulate a module in Python.

**Libraries of hardware.** `cdc.py` (synchronizer, asynchronous FIFO), `ip.py` (FIFOs,
arbiters, credits, DMA, interrupts), `axi4.py` and `axi4lite.py` (subordinates, crossbar),
the pipeline builder in `module.py`. State: registers. Correct when nothing is lost,
duplicated or starved under any handshake of the two sides.

**Test infrastructure.** `parallel_runner.py` runs test files in worker processes and keeps
seeds and a baseline; `gdb_stub.py` serves a debugger over a socket from a thread of its
own; `soc_sim.py` and `firmware_test.py` run programs on a modelled SoC.

**Output.** Verilog, SVA, wgpu shaders, FPGA projects, lint, drawings: text in, text out.

How they meet: the bench calls setters of the model and yields to the engine; the engine
toggles the clock pin and calls `veripy_eval`; `veripy_eval` detects the edge, runs the
blocks the passes have ordered, and looks at the assertions; the runner starts many such
processes that share the compile cache. Within a process there is one thread (the GDB
server excepted), so the interleavings that matter are of generators inside a scan, of
clocks inside a call, of clock domains in hardware, and of processes at the cache.

### Behaviours that are hard

* A generator resumed in the middle of a scan changes the list that is being scanned, puts
  events in front of the horizon of the loop above it, and may end or fork others.
* Deadlines are only looked at when something else happens; a block that swallows its
  `TimeoutError` is gone.
* After a clock edge only part of the combinational logic runs again, chosen by an analysis
  at compile time and dirty bits at run time; locals do not survive between two functions.
* Edge groups of one call run one after the other but must look simultaneous.
* Two unrelated clocks sample each other's pointers at arbitrary moments.
* A monitor has a fixed number of places for attempts in flight and removes them by moving
  others about.
* Handshakes, flushes and stalls in the hardware libraries; a cache file two compilers
  write; a debugger command that runs while it is stopped.

`PROJECT.json` lists forty hazards of these kinds at their lines with the properties that
watch them, or the reason why none does. Section 5 names what is known to go wrong outside
the inputs of the runs.

## 2. The modules and the code

### SimEngine

`mode` is the program counter of `run()`: *top* the test of the outer loop, *fast* the inner
clock loop, *check* inside `_check_waiting`, *run* inside a generator, *settle* the
evaluation after a resumed block. `queue` is the heap, `waiting` the list, `horizon` the local
`next_gen_t`, `clkVal`, `clkNext` the clock state `run()` copies on entry, `pin`, `prev`,
`edges` what the model has seen of the clock. A block is any program: it chooses at each
resumption to yield a delay, an until with or without a timeout, or a fork, to return,
raise, finish the run or call `run_cycles`. The list is a set ordered by stamps, `cursor` is
the stamp the scan has passed: appending during the scan, being visited in the same scan and
being kept at its end all come out as in the loop over the live Python list. The device is
one output any evaluation may change. `EventSim` is the ideal simulator: time never goes
back or passes a sleeper, one process runs at a time, none is lost.

*Properties.* `OneHome`: a block is in exactly one place. `StopsWhenDue`: the run ends for
the two legal reasons only and the counter is exact. `WaitersServed`: nobody is left
waiting for an output that is high or past a deadline. `EdgesOnSchedule`: cycles of the
design and simulated time agree, also when a toggle falls on an event. `ClockNotBehind`: no
block runs ahead of the clock. `RunTerminates`, and `IsEventSim`, the refinement.

### CompiledEval

A design is a constant: combinational blocks in sorted order, each with what it reads and writes and
a function, sequential blocks with their edges, the order of the edge groups. The static analysis
(`Merges`, `Group`, `Affected`, `Promoted`, `Tracked`) is a set of operators on the design, as in
`emit_c`; the three C functions are one action per block: `EvalComb`, then per edge group
`EnterGroup`, `RunSeqBlock`, `LeaveGroup`, then `Resettle` or `LeaveSettled` per block. Where
`_emit_stmts_batched` takes the statements of a merged group together, a block runs with those of
its `Batch`: one-bit assignments that follow each other are read first and write their word (`Word`)
once (`Emitted`), so that the second sees the bit from before the first; a statement of any other
kind ends the batch. `val` holds struct and locals, and `ZeroLocals` is what happens to locals when
a function starts. A block may assign on some paths only (`fn` gives a partial function), so
defaults, overrides and enabled registers are there. `ideal` and `seen` record what Verilog asks
for.

*Properties.* `OutputsSettled`: after a call, values of the struct are those of a circuit at
rest. `NonBlocking`: after a call every register and memory holds what its block computed
from the values before the edge.

### AsyncFifo

All registers of the two sides, Gray codes as sets of bit numbers, both clocks free. An
instant at which both rise has three outcomes, one per back end: Verilog samples before
either side moves, C runs one side first, Python the other. The writer and reader are
arbitrary. The environment resets both sides together and releases each after both have had
an edge, as the test benches do. `BoundedFifo` is the abstract FIFO.

*Properties.* `FlagsAreSafe`: flags err on the safe side. `OneBitCrosses`: one bit changes at
a time where codes cross. `FlagsCatchUp`: a flag that is high for no reason falls. `IsFifo`:
refinement of a FIFO of the same capacity.

### SvaSequences and SvaMonitor

A sequence is built by the operators of `sva.py` and carries two things: the flat `steps` of
`_seq_to_steps`, and `due`, which expression the notation asks for how many edges later.
The monitor knows only steps; the properties speak only of `due` and of the trace. The loop
over the array is modelled one turn at a time, since `CheckAndRemove` moves the last attempt
into the place it frees and looks at that place again.

*Properties.* `NoFailureUnseen`: between two edges the flag is up if an attempt was not met
since it was cleared. `NoFalseAlarm`: it is up only then. A sequence with neither antecedent
nor first match begins no attempt (the comment at `backend_csim.py:602`), and after an
attempt has failed the rest of it may raise the flag again; both are in the definitions.

### Ir, PythonSim, TopoSort, CombPasses, Lowering, Passes, Hier, Toolchain

A module of `Toolchain` is its Python source as a tree: ports, combinational and clocked blocks,
state machines, sub-modules. One action is one pass of `compile_model`: `Lower`
(`lower_module`), `Flatten` (`flatten_ir`), `Sort` or `Refuse` (`topo_sort_comb`; `TopoSort` has
its edges and Kahn's algorithm, level by level and without recursion), `Inline`
(`_inline_cont_assigns`), `Propagate` (`const_propagate`), `Eliminate` (`dead_code_eliminate`).
`Passes` has what they do to trees and `CombPasses` what they decide, from the names a block
reads and writes alone, so that it can be proved about. `Hierarchical` takes the lowered modules
to `emit_c_hier`. `PythonSim` runs the same source as `Module` does: `_settle_comb` runs the
blocks of a module, its sub-modules in their order and its blocks again; assignments to signals
wait for `_apply_nba`. `Ir` says what the emitted C computes, words of 64 values standing for
those of 2^64, and `Hier` what the functions of `emit_c_hier` do: units in their order, dirty
bits, one struct per instance. Expressions and statements are records; how they are printed is
left out.

*Properties.* `MeaningKept`: from sorting on, one evaluation of the model gives the outputs and
next registers that the Python simulation of the source settles to, whatever its wires held.
`LoopsReported`: a module is refused exactly when a signal feeds itself. `NodesAreLawful`: the
nodes of the sort meet what it presupposes (a name is written in one block, a local variable
read there only and not written again below), also when instances of one module bring the same
locals together. `SettleReaches`: one call of `_settle_comb` leaves every signal final whose
logic goes into the sub-modules and back once. `HierCatchesUp`: the hierarchical model may be
behind by some calls of `eval`, but with its inputs held it is at what the module means after as
many calls as there are signals, and so when a call changes nothing; before an edge, in its
registers at the edge, and after it. That one call is enough where no instance depends on itself,
as the code says of itself, is `SinglePassSuffices`, and is violated.

### TestBenches

A bench is one initial block over the statements a bench has, a clock block, the numbers its
closure knows, and a small compiled model. `RewriteBench` is `_GeneratorRewriter`, `LowerBench`
is `_TBLowerer`, `EmitBench` is `emit_tb_c`; `PyRun` runs a bench as the event loop does,
`RunBench` as the emitted `run_bench` does, with its own `_step` for the clock. Where the
text is more than its tree the model has the text: `_tb_expr` writes no parentheses round
`&&` and `||`, so `Text` gives the operands as C groups them.

*Property.* `BenchesAgree`: the model has the same values after every rising edge in all
three forms, and the same assertion fails.

### TestRuns

`run_parallel` gives files to worker processes; each worker runs the tests of a file one after the
other, looks for the libraries of a test in its memory and then in the directory all share, writes
the C source, lets the compiler write the library in place, loads it. Processes are killed, runs
interrupted, sources edited between runs; the file of seeds is written at the end of a run that is
complete, a seed for each file that ran. A run is asked for a directory and takes the files found
there in their order (`Paths`). What a test finds depends on the text in its library and on the
seed. The key of the flat cache in memory has the parameters, that of the hierarchical one only the
class. That the compiler writes in place is an assumption about it.

*Properties.* `VerdictsSound`: caches never change a verdict; only a file whose first
build met another process, or a killed one, may fail for that. `ReplaysAgree`: a run without
`--seed` gives the files of the last complete run the verdicts they had then, also when other
runs were interrupted in between and when only some of those files run. A complete run of some
files forgets the seeds of the others, so that "the last complete run" may not be the one that
failed (section 5).

### SocBus

`Build` sorts the regions (the place of a region is the number of those before it, plus one)
and refuses overlaps (`soc.py`), an access goes through the
interconnect to the bank of registers that `axi4lite.py` generates, and threads use the
driver classes `csr.py` generates: `set_` reads, changes the bits of a field and writes, in
separate accesses, between which other threads and the hardware write.

*Properties.* `AddressesDecoded`: a map is refused only when a region begins inside
another; otherwise no address leads to a region it is not in, and every address of a region
that ends before the last address leads to it. A region that reaches the last address is in
the maps of the run: the decoder, which compares with an end cut off to the width of an address,
selects it never or for some of its addresses, and the property claims no more.
`RegistersAsWanted`: every field holds what was asked for last, although each `set_` writes a
whole register, and its reset value after a reset. The banks of the run have reset values
of zero, because the code forgets any other (section 5).

### IpBlocks and IpBench

`IpBlocks` has what each clocked process of `ip.py` makes of its registers, `IpBench` drives
one block at a time with any input at any edge and notes what its ports did. DMA engine,
interrupt controller and a driver that starts, waits, reads and clears stand together.

*Properties.* `BlocksKeepCount`: FIFO, credits and debouncer agree with the observer. For the
FIFO: it shows the oldest word as long as there are no more than it has room for, and its count
is what was pushed and not popped less the edges that did both, each of which moves both words
and takes one off the count. That the count is the number of words inside, as the guide says
(`CountIsOccupancy`), is violated.
`NobodyStarves`: an agent that goes on asking is granted within as many edges as there are
agents. `DmaMovesTheWords`, `TransferNoticed`: the words asked for, in order; a driver that
waits is told, whatever other interrupt comes as it clears.

### Axi4, Cpu, Spi, Pipelines

`Axi4` is two subordinates with memories, the crossbar, and a manager that writes and
reads bursts at once. `ReadsWhatWasWritten`, `WritesAnswered` and `BurstsEnd`: beats, identifiers,
last beats and responses are those of the burst, and it ends. `Cpu` runs every program of four
instructions on the pipeline and on a machine without one (`arch`): after each write back
both have the same registers, memory and halt (`PipelineExecutesProgram`). `Spi` is controller,
FIFO, shift logic, a peripheral and two kinds of driver (`FramesAreWhole`, `SendIsAnswered`).
`Pipelines` runs a chain of three stages and a named bank in both texts `module.py` makes of
them, the simulated and the emitted one, next to the words in flight (`PipelineKeepsOrder`).

### GdbStub

The server thread is one program counter: accepting, receiving, serving what is in the
buffer, running a `c`, ended. Streams are cut into pieces of any length; debuggers come, leave
and are dropped; `stop()` may come at any time. Memory is that of `soc_sim.py`: regions in
order, UARTs over them, segments of a firmware loaded at first.

*Properties.* `AnswersInOrder`: each debugger gets one answer to everything it asks, in its
order, the answer a flat machine would give that was asked the same. `CommandsAnswered`: a
debugger that stays is answered, as long as the stub is not stopped.

## 3. Runs

| run | question | bounds | states |
|---|---|---|---|
| `engine_unclocked` | loop without clock: OneHome, StopsWhenDue, WaitersServed, RunTerminates, IsEventSim | an initial, an always, two forked blocks; one or two yields each; delays 0 and 2, timeout 1 or none | 601 869 |
| `csim` | loop with a clock: EdgesOnSchedule, ClockNotBehind; compiled model: EvalTypeOK, OutputsSettled, NonBlocking; monitor: MonitorTypeOK, NoFailureUnseen, NoFalseAlarm | period 4, an initial, an always, a forked block, delays 1 and 4, timeout 3, `run_cycles(1)`, time to 8; eight combinational and four sequential blocks, two clocks and an asynchronous reset, one memory, bits; eight properties of the shapes of `tests/test_csim_temporal.py` and longer, three places, six edges | 1 716 674 |
| `engine_horizon` | violation: the inner loop stops at events | period 4, two initial blocks | |
| `engine_join` | violation: a fork that is complete does not end in Deadlock | no clock, two children | |
| `eval_default` | violation: default and override in one block | two blocks, one register | |
| `eval_shared_local` | violation: a block variable two statements read | three blocks, one register | |
| `eval_packed` | violation: a one-bit assignment reads the one before it, in a batch | `t = a & r`, `y1 = t ^ a` in one word, and a third block; one register | |
| `sva_repeat` | violation: a repetition is looked at cycle by cycle | `a \|-> b[*3]`, five edges | |
| `hardware_library` | FlagsAreSafe, OneBitCrosses, FlagsCatchUp, IsFifo, BlocksKeepCount, NobodyStarves, DmaMovesTheWords, TransferNoticed, ReadsWhatWasWritten, WritesAnswered, BurstsEnd, PipelineExecutesProgram, FramesAreWhole, SendIsAnswered, PipelineKeepsOrder, AnswersInOrder, CommandsAnswered | FIFO between two clocks, four words of one bit (the depth of `tests/test_cdc.py:105`), pointers wrap; FIFO of four words, two edges with push and pop between resets; four agents, threshold and credits three, four addresses for DMA; two memories of two words, three bursts; all programs of `LI` and three of eight instructions, twelve cycles, one reset; SPI words of two bits; pipeline words of two bits; two debuggers, four scripts and two | 180 413 |
| `fifo_both` | violation: the count of the FIFO is not its occupancy | FIFO of four words, two edges with push and pop | |
| `toolchain` | MeaningKept, LoopsReported, NodesAreLawful, SettleReaches, HierCatchesUp, AddressesDecoded, RegistersAsWanted, VerdictsSound, ReplaysAgree, BenchesAgree | 407 modules, every value of two-bit inputs and registers, stale wires 0 and 1; five maps of sixteen addresses, one of them to the last address, three registers of two bits, two threads; two test files with three tests, both or the second one run, two workers, three runs, one kill, one edit, two seeds; 196 benches | 1 094 453 |
| `hier_single_pass` | violation: one call of the hierarchical model is enough | the modules with sub-modules of the family | |

*Why the bounds are enough.* In the engine every list the loop scans has an entry that fires, one
that does not, and one appended during the scan; a fork has a child that ends before and one that
ends after the parent is visited; delays fall before, on and after a toggle. Blocks have a number of
yields (`Fuel`); without one the state is infinite because sequence numbers grow. `MaxTime` stops
the clock. `JumpToDeadline` and `RaiseDeadlock` happen in `engine_unclocked`, the clock's
`FastToggle`, `TickForWaiters` and `RunCycles` in the first part of `csim`. The two-clock design
has, for each rule of the static analysis, a signal it applies to and one it does not: a merged
local, a declared signal that feeds a register, an output behind another output, a block that needs
no second evaluation, registers that swap, a block with two edges, a memory read and written in one
group, a merged group whose one-bit assignments lie in two words, so that the second sees what the
first wrote. Four words make the FIFO's pointers wrap past both the address and the extra bit. Three
places are the longest span of the family, so the array is full, and six edges let an attempt begin,
overlap with three others and end.

The toolchain family takes every combination of nine drivers of one wire, five of a second, two
constants and three ends, machines of two states, and five pairs of children under 27 wirings, so
that each pass meets wires it may inline and wires it must keep, constants that fold and branches
that vanish, children that need the parent between them. Values of two bits tell a truncated result
from one that is not. The benches combine two starts, seven parts twice over and two ways to write
the half period. Two workers, one kill and one edit are what it takes for a library to be half
written, or of another text, when the other worker looks for it; two seeds for a replay to differ;
three runs for a complete one, an interrupted one or one of the second file alone, and the replay,
which takes seeds by file and not by place. In the hardware run each FIFO wraps and is full, each
burst has a word before it or after it in the same memory, programs have room for a load, its use
and a branch over both, a transfer of length 0 wraps its counter, and a packet can be cut at every
place while another debugger waits.

`Wanders`, `Handshakes`, `OwnerOf` and the reset values of the banks restrict the run to what the
code can serve: a manager that holds its address until the response, address, data and response of
AXI4-Lite together, one thread per register, registers that are zero after a reset. `JointEdges` is
a bound only: edges at which the FIFO is pushed and popped, counted from reset to reset, for the
distance between count and words grows by one with each. `Odd` adds inputs to the toolchain for
which the code is wrong; it is empty in the run. What happens outside is listed in section 5; each
of these constants can be set to see it.

`CHECK_DEADLOCK FALSE` stands where the system really stops: `run()` returns, raises or reports
a deadlock, or a bound on time or edges is reached. That holds for two of the three parts of
`csim`, so the third, which never stops, is not checked for it either. The hardware and
the toolchain are.

*Fairness.* `engine_unclocked` assumes weak fairness of the whole next-state relation: the engine is
a sequential program that goes on as long as it can, and nothing is assumed about which choice a
block makes; that it terminates rests on blocks having finitely many yields. `hardware_library`
assumes what each bench needs and the program cannot withhold: the clock ticks, both clocks of the
asynchronous FIFO do, each for itself (nothing is assumed about who writes or reads); the bus
answers a DMA engine, and its driver does not sleep for ever; an AXI4 manager is ready again and
again; the thread of the stub goes on, bytes that were sent arrive, and a continued processor comes
to its breakpoint. One condition covers all benches with one clock because `bench` never changes;
the two clocks have one each.

*Findings.* The eight violation runs show where the code departs from its comments and docs:

1. `engine_horizon`: `next_gen_t` is read before the inner clock loop, and a block resumed in
   the loop may schedule an earlier event; the clock runs past it and time goes back
   (`backend_csim.py:3343`). `ClockNotBehind` is what still holds: the clock is never late.
2. `engine_join`: one pass over the list; a parent visited before its last child returns is
   not looked at again, and without a clock the run ends in `Deadlock` (3298).
3. `eval_default`: after an edge the override of a wire is run again without its default, so
   the output keeps the value of the last cycle (1144).
4. `eval_shared_local`: a local that two groups read is zero in the second function (1468).
5. `eval_packed`: of two batched one-bit assignments the second reads the bit of the call before,
   where the first writes it (797; a comment says that a single pass propagates all values,
   `flatten.py:198`).
6. `sva_repeat`: `a[*3]` is compiled to three steps with no delay between them (453).
7. `fifo_both`: at an edge with push and pop `cnt` is assigned twice and loses one (`ip.py:54`);
   the guide calls it "current occupancy" (`docs/guide.md:730`) and ties both inputs to 1 in its
   example (743).
8. `hier_single_pass`: Tarjan's algorithm gives the instances in the order of their dependencies,
   `sccs.reverse()` turns it round (2070), and one call is not enough for a chain of two
   instances, although the docstrings say that it is (1854, 2316).

The third and fourth are also what generated C does: compiled with `CSimModel`, the first
design returns `r = 0` with `y = 1` after its second edge, the second one `a = 0`, `r = 0`
with `y1 = 0` after its first. So is the eighth: of a chain of two instances the emitted
`_comb_top` runs the second before the first, and with the input held at 5 the output is 1 in the
first call and 5 from the second on.

## 4. Proofs

All theorems hold for every value of the constants that meets the named assumptions of
their modules, with no bound on time, blocks, designs, depths or traces except where the
specification itself caps a counter (`Fuel`, `MaxTime`, `MaxEdges` are arbitrary naturals).

**SimEngineProofs**, from `ConfigAssumption`. `TypeCorrect`; `BlocksHaveOneHome`
(`[]OneHome`): each action moves at most one block, forks add blocks that were unborn,
and `CurIdle` (nobody is current unless `mode` is *run*) is the strengthening;
`RunStopsWhenDue`; `NoBlockAheadOfClock` (`[]ClockNotBehind`), whose invariant adds that
an event at or before the horizon stays in the heap while the inner loop runs;
`CyclesMatchTime` (`[]EdgesOnSchedule`): between evaluations the number of edges and the next
toggle are related by the values of pin, previous pin and the phase of the clock. `NobodyIsPassedOver`
(`[]WaitersServed`): stamps in the list grow and stay below the next one (`StampsInv`), and
inside a scan the claim holds of everyone the cursor has passed (`ServedInv`); who appends
itself is ahead of the cursor. `ImplementsEventSim` (`Spec => IsEventSim`) when there is no
clock (`Half = 0`; with one it is false, see finding 1): nobody sleeps until an instant that
is past (`SleepInv`), the deadline time is moved to lies ahead of it because of `ServedInv`,
and each action is one of `Pass`, `Wake`, `Unblock`, `Sleep`, `Block`, `End` or a stutter.

**CompiledEvalProofs**, from `DesignAssumption`, `PackingAssumption` and `NamesAssumption`.
`TypeCorrect` for every design. `EvalSettles` (`[]OutputsSettled`) for designs with
`LocalsStayInGroup`, `OneStatementPerWire` and `EachBitAlone` (no batch has two statements). Each of
the three excludes more than what goes wrong; that none can be dropped is shown by
`eval_shared_local`, `eval_default` and `eval_packed`, each of which meets the other two. The
theorem is about the model of the function as a list of blocks; what the emitter makes of one
expression or statement is not part of it. The design of `csim` meets all three. The invariant keeps
a valuation that agrees with the struct and gives forgotten locals the values they had: a block
whose reads are not dirty holds in it, so skipping it is right. `EdgesAreSimultaneous`
(`[]NonBlocking`) for designs with `RaceFree` and `ClocksAreInputs`: copies of registers are written
back group by group, and no later group reads what an earlier one wrote.

**CombProofs** has no assumption on a constant. `Bits`, `Vals` and `NameOf` are any bits, what
they hold, and the name each belongs to; what the blocks of a module do is an argument of each
theorem. About the order, for every list of nodes: `SortIsRight`: `topo_sort_comb` refuses
exactly if there is a cycle of edges; otherwise each node has one place, who reads a signal
comes after all that write it if these are of one block, and in a block the writers of a name
keep their order and the reader of a local stays behind the writers above it. `LevelIs`: the
keys of a level are a strict order and a level is its enumeration. `KahnIs`: nothing is placed
twice, everything after what feeds it, and as many levels as nodes leave nothing that is ready.
`CycleExists`: if something is left, going back along edges among what is left meets a node
again. `SortedForEval`: if no node reads its own target and each signal is written in one block,
no node reads what it or a later one writes, as `DesignAssumption` asks of `Comb`, except for
local variables. `LoopsAreRefused`: of lawful nodes, every circle of data is refused, and if no
two statements write one name nothing else is. The hypothesis is needed: section 5 has a module
without a circle that is refused ("false loop").

About values. A block is any function that `Obeys` what it is said to read and write: it changes
the names it writes only, and what it makes of a bit depends on the names it reads and on the
bit. `SweepSettles`: for nodes that are `Lawful` (`NodesAreLawful` checks it of all modules of
the run; a local that is assigned twice breaks it, section 5) and have no latch (`NoLatch`: each
bit that is written is given a value on every path, a local before it is read) one evaluation in
the sorted order leaves the circuit at rest, whatever the wires held, and in the only state at
rest for its inputs. At rest means: running the blocks *in the order of the source*, each local
from the statement above, changes nothing. The proof goes along the order: in a state at rest
each statement sees the values that it sees in the sweep (`AgreeAt`), since all that feed it
come first, and the last writer of a bit in the sorted order is the last in the source.
`InliningKeeps` and `PropagationKeeps`: with the wires and constants that `Inlinable` and
`Constants` choose, a program that `Substitutes` them gives every other name its value. They
hold because in the sorted order nothing writes what a chosen block reads after it (`Forward`),
so its expression still has its value where it is read. `Substitutes` says what substitution is:
a block does what it did on values in which the chosen names hold what their assignments make of
them. That the text `_se` and `_subst_expr` produce does so is the part about expressions, and
is checked (`MeaningKept`); it fails where an inlined expression is wider than its wire, the
hazard at `backend_csim.py:971`. `DeadCodeIsDead`: live signals keep their values without the
blocks that are not live; the function that looks once per block has reached its fixed point,
since a round that adds a signal adds a block. `CompiledMeansTheSource` puts the passes in a
row: outputs and next registers are what the source gives at rest. `CallsSettle` is about
`_settle_comb` when each name has one block and each bit is given on every path: whatever the
names held, the rounds of one call or several make final what `Learnt` says, and that is
everything if the blocks are run, others between them, in an order in which each reads what
those before it write; with sub-modules one call need not do so.

**AsyncFifoProofs**, from `DepthAssumption` (a power of two, as the constructor asserts).
`TypeCorrect` (of `CdcTypeOK`, which no run checks, since this holds for every depth);
`FlagsNeverLie` (`[]FlagsAreSafe`) from `FifoInv`: there are pointers whose codes the copies are,
and walking back from the writer's pointer one meets the reader's, then its copy, then the older
copy, no further than a depth; the writer's copies lie between reader and writer in the same way.
`ResetInv` says what is clear during a reset; `OneBitAtATime`: adding one changes one bit of a Gray
code, including the wrap, by the least-number principle on the lowest bit that is 0;
`ImplementsFifo` (`CdcSpec => IsFifo`): each edge accepts, takes, does both, or stutters, and a
reset clears.

**SvaMonitorProofs**, from `PropAssumption` and `BoundAssumption`. `TypeCorrect` for any
properties. `FailuresAreSeen` and `AlarmsAreFailures` for `Supported` ones: due times add up
from the delays, only the last step may share an edge with the one before, and the span does
not exceed the places. The run states with `FamilyIsSupported` that its family is; the
repetition of `sva_repeat` is not, nor is a property longer than sixteen edges in the code,
where attempts are dropped. The invariant `IInv` reads off each entry the edge at which its
attempt began (`StartOf`): that edge is the same before and after every step and survives the
move of an entry, no two entries share it (so there is room for one more, by the pigeonhole
principle), every attempt that is to be looked at again has an entry, and what was not met
has set the flag unless the loop has still to come to its entry.

**HardwareProofs**, from `AxiAssumption`, `PipeAssumption`, `SpiAssumption` and
`CpuAssumption`. `WhatIsReadWasWritten`
(`[]ReadsWhatWasWritten`) and `EveryWriteIsAnswered` (`[]WritesAnswered`) when the manager does
not move the address of a burst on the crossbar (`Wanders # "always"`); from `AxiInv`: a burst
stays inside one subordinate, that one is busy and no other is, its registers are at the beat
of the manager, and the memories together are the reference. `PipelinesKeepOrder`
(`[]PipelineKeepsOrder`): the registers of each stage are functions of the words in flight;
for the emitted text only when the controls are signals. `BothEndsHaveTheWord`
(`[]FramesAreWhole`): after `k` bits each end has the first `k` bits of the other's word and
keeps the rest of its own to shift (`FrameInv`); the arithmetic rests on the uniqueness of
quotient and rest and on powers of two. `PipelineIsCorrect` (`[]PipelineExecutesProgram`) for
every program: `NextOnes` says which instructions the first two stages hold, `Operands` that
an instruction in the second stage has the registers of the machine without stages and that
none ahead of it is about to write them. It follows that the stall makes the forwarding from
the last stage to the second (`cpu_v1.py:246`) redundant: it never changes an operand.

From `IpAssumption` (a FIFO whose depth is a power of two, more than one address), also in
`HardwareProofs`: `ArbiterIsFair` (`[]NobodyStarves`): the grants an agent has seen while it waits and
its distance from the pointer add up to less than the number of agents. `BlocksCount`
(`[]BlocksKeepCount`) for every input, push and pop at one edge included: the pointers of the
FIFO differ by the number of words modulo the depth, the words lie in the cells from the read
pointer on while there are no more than the depth, and the count is that number less the joint
edges; credits used and credits left add up; the counter of the debouncer is the number of
trailing samples that differ from its output. `DmaMoves`
(`[]DmaMovesTheWords`): `TransferInv` says what the registers hold after `n` words, and
`EndIsSeen` that a completion reaches the controller before the engine is started again.

**SocBusProofs**, from `SocAssumption` and `PlacedAssumption`. `AddressesAreDecoded`
(`[]AddressesDecoded`) for every configuration whose regions begin at addresses; they may be empty,
and end at the last address or above it: the sorted map is a permutation of the regions ordered by
base (the places are an injection of a finite set into itself, hence onto), so that neighbours that
do not clash mean that no two regions do, and the comparison with base and end finds no other
region, and the one there is if its end is not cut off. `RegistersAreAsWanted`
(`[]RegistersAsWanted`) when address and data come together (`Handshakes = "joint"`) and the
registers that software writes have reset values of zero (`ResetsAreZero`); without either the claim
is false, and section 5 says how: what a `set_` has read is what the register still holds, since a
register has one owner, and the access on the bus is that of the thread that waits for it.

From `GdbAssumption`, in the same module: `EveryAskingIsAnswered` (`[]AnswersInOrder`) for all
regions, UARTs, firmware, debuggers and scripts. Three comparisons carry it. The memory of
regions is a flat one: `LoadElfIs` (the last segment that holds an address decides its byte),
`ReadsAreFlat`, `WritesAreFlat`. The stream is the items written: `Stream` says that the buffer,
the wire behind it and the items served make up what the debugger wrote, cut anywhere, and
`StreamHead` and `ParseIs` that the parser takes the next item whole or waits. What was said is
what was due: `Dialogue` relates, per debugger, items written and served, answers due and
answers sent, at each place of the server thread, and one answer is missing exactly while a `c`
runs. The invariant `GdbInv` is that dialogue for every debugger, the machine being flat
(`Machine`) and the thread being where its connection says (`Thread`).

**TestRunsProofs**, from `TestRunsAssumption` and `OneModelPerClass`: the hierarchical tests of
one class in one file have the same parameters. The key at `backend_csim.py:3598` leaves the
parameters out, and without the hypothesis the claims are false. `NoVerdictIsTurned`
(`[]VerdictsSound`) and `ReplaysRepeat` (`[]ReplaysAgree`) follow from `RunsInv`: a cache in
memory leads a key to the library of the tests that have it; a library nobody was hurried
over is whole, or one process is building it from a whole source; a file on disk contains
what its name says; the verdict of a file that is running is that of the tests it is
through with; the seeds on record explain the last results.

**Only model-checked.** Liveness (`RunTerminates`, `FlagsCatchUp`, `TransferNoticed`,
`BurstsEnd`, `SendIsAnswered`, `CommandsAnswered`), which the provers do not do. The properties
of `Toolchain` and `TestBenches`, whose RECURSIVE operators go over syntax trees: that what the
passes do to expressions and statements is what the theorems of `CombProofs` suppose of it.
What is proved of blocks with reads and writes is `CompiledMeansTheSource` for `MeaningKept`,
`LoopsAreRefused` for `LoopsReported`, `CallsSettle` for `SettleReaches`; lowering (before the
sort), `HierCatchesUp` and `BenchesAgree` have no theorem. And the violations.

## 5. What is known to go wrong outside the runs

Each of these was met while the code was modelled. Most are not reached by a passing run, because
its inputs are restricted as described. Three are reached, and the property says what holds
nevertheless: the late values of the hierarchical model (`HierCatchesUp`), the count of the FIFO
(`BlocksKeepCount`) and the regions at the end of the address space (`AddressesDecoded`).

*Lowering and passes* (`Odd` in `MCToolchain` has the modules for those marked with its name).
An `if` on a constant inside another `if` vanishes with both arms (`dce.py:148`, "nested"). A
local that is assigned twice, or has the name of another block's, may be read too late
(`flatten.py:289`, "reuse"). A statement that overrides a default is kept behind it, and with it
every other target of the statement: `x = k; if a: x = 1; y = 2, else: y = 3` with `k = y` in
another block is refused, though no signal feeds itself and the comment at `flatten.py:204` says
that splitting blocks breaks such cycles (302, "false loop"; `LoopsReported` fails). An inlined
wire is not masked to its width where the reader looks at more bits (`backend_csim.py:971`,
"truth"); narrow arithmetic assigned to a wider target likewise. `t += 1` on a local is dropped
(`lower.py:389`, "auglocal"). `break` in a loop whose body is more than one `if` is ignored
("break"). A block of slice assignments only becomes an assignment to nothing (`lower.py:785`,
"slices"). In a state machine, an early `return` followed by another, a bare `return` and
`return state` are lost. Substitution does not enter `clz`, `ctz`, `popcount`, `sext` and case
values (995). A statement that reads what it writes is not reported as a loop. Python's `and`
and `or` return an operand, the model a truth value; a concatenation of expressions keeps one
bit of each.

*Hierarchical model.* The list of instances is already in order and is reversed (2070),
combinational blocks are unsorted and last, registers of a child are copied out in the next
call only, although the docstrings at 1854 and 2316 say that one call suffices
(`SinglePassSuffices`, violated in `hier_single_pass`). The cache in memory does not know
parameters (3598).

*Benches in C.* The statements of `OddParts`: `not (a and b)` and `(a or b) and c` change their
meaning without parentheses ("not"); a `break` after an inner loop with a `break` is dropped
("outer"); after a loop its variable is one more than in Python ("after"); a local with the name
of a number of the closure is replaced by the number, in both forms ("shadow"); at odd
multiples of the half period Python runs the block before the edge is evaluated and C after
("half"); `d.update` counts once, whatever branch or loop it is in ("branch"); subtraction wraps
("minus"). Further: the step of `range` and `while`, `+=` and unknown statements vanish;
initial blocks run one after the other; other clocks and falling-edge blocks never run;
arguments of inlined methods are evaluated late and their locals leak.

*Test runs.* A worker may load a library that another is still writing, or that a killed one
left (`parallel_runner.py:11` warns of the first). The command printed for a replay names a file
where a directory is expected, and spreads the seed anew. Seeds of files that were not run are
lost, as a complete run writes the file of seeds anew; an interrupted run records none.

*Hardware.* Pushed and popped at once the FIFO counts one down (`ip.py:54`): the count is no longer
the "current occupancy" of `docs/guide.md:730` (`CountIsOccupancy`, violated in `fifo_both`), and
with it `full` and `empty` are wrong, so that words are overwritten or stay inside. The crossbar
follows the present address, not the one that was accepted (`axi4.py:260`, `Wanders`). An address in
no region is never answered and hangs the manager. A region that ends at the last address, or
above it, is never selected or only for some of its addresses, for its end is cut off
(`soc.py:363`). A field can be declared with a reset value (`csr.py:39`, `docs/guide.md:579`, 611,
633, `tests/test_csr.py:153`, 259), but the register that `axi4lite.py:153` declares has none and
starts at zero: `RegistersAsWanted` fails of a bank without `ResetsAreZero`. A write address
before its data is taken and the data are lost, although `docs/guide.md:603` speaks of the full
handshake of AXI4-Lite (`Handshakes = "split"`). `set_` of a
write-only register calls a method that does not exist; a field the hardware changes, or two
threads on one register, lose updates between the read and the write of `set_`. The SPI
controller pops its FIFO one state before it loads the word (`spi_controller.py:148`), and so
sends the word in the place after the one that was pushed: `FramesAreWhole` is about the word
that was loaded. A lambda the pipeline builder cannot parse is emitted as a shift register,
and stall, flush and valid bits that are expressions are left out of the emitted text.

*Debugger.* A running `c` cannot be interrupted. After a `stop()` that gave up waiting, `start()`
runs a second thread. Malformed digits and values that are too wide end the thread. Checksums
are not verified.

## 6. Not modelled

`PROJECT.json` lists every component with its status. Left out are: Verilog emission and
import, the Verilator, equivalence, formal, GPU and FPGA back ends, lint, drawings and
documentation, command line and packaging: they translate text or drive other programs and
keep no state between calls. Of the modelled parts: memories, interfaces and the bit counting
functions in the toolchain (memories are in `CompiledEval`); `_check_edges`; wider accesses and
the parsing of files in `soc_sim.py` and `firmware.py`; the emitted top level and headers of
`soc.py`; baseline, regression and coverage files of the runner; two instances of one library,
which share their monitors; derived clocks, excluded by `ClocksAreInputs`; the DDR, JTAG and
debug modules of `ip.py`, which are wires round black boxes; `rv.py`.

Next would be: memories in the toolchain, `_check_edges`, and a proof about the hierarchical
model with its units as blocks that read and write, as in `CombProofs`.
