# Verification of the assembler and CPU emulator

The repository is a teaching tool chain for a 32-bit register machine: a small C
compiler, an assembler and a disassembler, an emulator with memory-mapped devices,
a debugger, and a timing simulator with three pipeline models, branch predictors
and caches. This directory holds TLA+ models of it, the TLC configurations that
check them on small instances, and TLAPS proofs that hold for all instances.

`PROJECT.json` lists components, runs, mutants (small changes of a definition, each
of which must break the property it is named with), the map from definitions to
source lines, findings, hazards and theorems.

## 1. Inventory

| Component | State | Operations | Interacts with |
|---|---|---|---|
| Reference CPU (`cpu.c`) | registers, pc, sp, flags, halted, instruction count, capture buffer | `cpu_init`, `cpu_step`, `cpu_run` | memory, devices; stepped by the emulator, the debugger and the simulator's generator |
| Memory (`memory.c`) | byte array | 8- and 32-bit accesses behind `check_bounds` | CPU, loaders |
| Devices (`device.c`) | none; `cpu_silent` selects suppression | `mmio_load`, `mmio_store` | CPU LOAD and STORE, stdin, stdout |
| Generator (`gen_*` in `pipe_sim.c`) | ring of `WIN_CAP` decoded instructions, count, done | `gen_one`, `gen_at` | steps the CPU; read by the timing models |
| Scalar pipeline (`pipe_run`) | five latches, pending fetch, three stall counters, statistics | one loop iteration per cycle | generator, caches, predictor |
| Superscalar model (`pipe_run_ss`) | scoreboard, current bundle, fetch block | one iteration per instruction | generator, predictor |
| Out-of-order model (`pipe_run_ooo`) | completion times, ROB array, dispatch and commit ports | one iteration per instruction | generator, predictor |
| Predictors (`bpred.c`) | counter tables, history, choosers, BTB | `bp_predict`, `bp_update`, `btb_lookup`, `btb_update` | `control_penalty` of all three models |
| Cache (`cache.c`) | valid, tag and stamp per way, clock, counts | `cache_access` | `pipe_run` (I, D and a unified L2) |
| Assembler (`lexer.c`, `parser.c`, `encoder.c`) | tokens, statements, symbol table, location counter, output buffer | `lex`, `parse`, two passes, write | file system |
| Disassembler (`disasm.c`, `isa.c`) | none | `isa_disasm` per word | reads what the assembler writes |
| Debugger (`main_dbg.c`) | CPU, breakpoint table, program file, memory view | load, step, continue, finish, break, reset, memory, quit; a TUI and a REPL | CPU; shares stdin with the program |
| Compiler (`clexer.c`, `cparser.c`, `cgen.c`, `main_cc.c`) | tokens, AST, symbol tables, emitted lines, output file | lex, parse, generate, peephole | emits assembler source |
| Emulator (`main_emu.c`) | CPU and memory | load, run to halt, dump | CPU, the assembler's output |
| Simulator report (`main_pipe.c`) | options | printing | the timing models |

The program is sequential: no threads, no messages, nothing persistent apart from
output files. What is hard is not interleaving of processes. It is

* independent conditions that meet in one cycle of the pipeline (data stall,
  redirect, fetch wait, memory hold), each with its own counter;
* indices into bounded rings and arrays (the instruction ring, the reorder buffer,
  predictor tables, the capture buffer, the assembler's output buffer);
* two descriptions of the same thing that must agree: `decode_meta` and `cpu_step`,
  the closed-form and the structural pipeline, the emulator and its silent twin,
  pass 1 and pass 2, the parser and the printer of operands, a C source and the code
  generated for it;
* long sequences of legal steps that must leave nothing behind: commands of a
  debugger, calls on two stacks, passes of a peephole optimiser over its own output;
* word arithmetic at its ends (signed comparison, immediates, wrapping addresses);
* claims about all programs in the README and the tests (never worse, always equal)
  that a few benchmarks support.

`PROJECT.json` lists these as hazards, each at its line with the properties that
would catch it.

What makes each part correct: the pipeline neither loses nor repeats an instruction
or a cycle, and returns; the schedules of the other two models are ones a machine
could run, and improve with resources; predictors learn independently of who is
believed; the cache is its policy; the CPU does what its metadata says; the assembler
accepts exactly the sources that mean something and writes exactly what they mean;
what the compiler makes of a source prints what the source means; the debugger shows
the run it interrupts.

## 2. Modules

```
Isa --+-- PipeSim ---- MCPipeSim, ScalarEquiv (with Superscalar)
      +-- Superscalar --- SuperscalarHistory --+
      |        \-- IssueDominance              +-- IssueCompare
      +-- OutOfOrder ---- OutOfOrderHistory ---+
      |        \-- OooDominance (on IssueDominance)
      \-- CpuStep --+-- Cpu -- SilentOracle -- MCCpu
                    +-- Debugger -- MCDebugger
CLexer -- CParser --+-- CGen -- CMeaning -- Compiler -- MCCompiler
BranchPred      Cache -- CacheRefinement (RecencyCache) -- CacheInclusion
Encoding -- AsmParser -- Assembler -- MCAssembler
proofs: PipeSimProofs (on ScalarEquiv)
        SuperscalarProofs, OutOfOrderProofs -- IssueCompareProofs
        BranchPredProofs     CacheProofs     CpuProofs -- DebuggerProofs
```

**Isa.** Opcodes, `decode_meta` and what one call of `gen_one` can produce
(`CpuSteps`): any opcode of `Ops`, any registers, taken or not, halting where the CPU
can halt. The timing models are checked over all sequences of these, hence over all
programs up to a length. `control_penalty` is the set of answers the predictor can
give.

**PipeSim.** `pipe_run`. A step is an iteration of the `while` loop, an action a path
through its body: `Hold` (a D-cache miss freezes the pipe), `DataStall`,
`ControlBubble`, `FetchWait`, `FetchResume`, `Fetch`, `FetchMiss`, `Drain`. Each
includes the back-end transition with its D-cache access and the two loop tests at
the end (`Tick`): all retired, or the safety net. `MemoryFault` is the `exit` inside
`check_bounds`. The configuration is a variable that never changes, chosen from
`Configs`. Cache and predictor answers are arbitrary. `gen_mem`, `gen_cond`,
`redirects` and the `idx` of a ring entry are history for the properties.

**Superscalar, OutOfOrder.** `pipe_run_ss` and `pipe_run_ooo`; a step is an iteration
of the `for` loop. The chains of `if (x > y) y = x` are the latest element of a set of
bounds. The `History` modules add a log of decisions and state legality over the log
alone: they mention instructions and cycles, never the scoreboard. `IssueDominance`
runs two configurations of the first on one program, `OooDominance` adds two of the
second, and `IssueCompare` adds the logs of all four. `ScalarEquiv` runs `PipeSim`
without caches and `Superscalar` of width 1 side by side on one program, the second as
two instances, with forwarding and without, of which the configuration selects one.

**BranchPred.** All seven predictor kinds next to each other on one stream of
branches, each with its BTB, so that halves and wholes can be compared. Returns may
go anywhere, the next instruction included.

**Cache, RecencyCache, CacheRefinement, CacheInclusion.** `cache.c` with its stamps;
an abstract cache that keeps each set as a list of blocks, newest first, in which a hit
(under LRU) and a miss bring their block to the front and a miss in a full set takes the
place of the last block (under random replacement, of any); the refinement mapping,
which lists the valid ways by the rank of their stamps; and a pair of caches of
different associativity.

**CpuStep, Cpu, SilentOracle, MCCpu.** `CpuStep` is the machine as operators: memory as
bytes, devices, the capture buffer and the printing of decimals into it, and `cpu_step`
for all 27 opcodes and the illegal ones. The word is four bytes of `ByteBits` bits. In
`Cpu` instructions are chosen at each step instead of fetched, so the run covers
self-modifying programs too. An access outside memory ends in `exited`; one whose
bounds check wraps, in `undefined`, from which nothing is promised. A shift by the word
size or more is undefined in C and is a choice between the outcomes compilers give.
`SilentOracle` adds the same CPU under `cpu_silent`.

**Debugger, MCDebugger.** Both front ends of `main_dbg.c` over `CpuStep`, with programs
that are fetched. A step is a command, or one turn of a loop a command has entered
(`StepOnce`, `Continue`, `Finish`). The words of the program stand beside the byte
memory, where they read as 0; no program of the run stores over its own code. `load`
may find its file or not. The program reads by `IN` and by a LOAD from `MMIO_IN`; it and
the commands share stdin: `blank` says that a newline is left over, which the REPL takes
for an empty line (a step) and a prompt of the TUI for the answer 0. `armed` and `reads`
are history.

**CLexer, CParser, CGen.** The compiler, function by function. A source is a sequence of
characters in which a name or a number is one element. `parse_*` take tokens and a
position and return a tree, `gen_*` take and return what has been emitted so far with
the label counter. An error is a flag: in the parser (`longjmp` in the code) nothing is
accepted after it, in the generator (a returned 1) nothing is written after it. The
peephole pass is repeated until nothing changes, as in the code.

**CMeaning.** The reference the compiler is checked against: how a tree is written with no
more parentheses than C's levels need, which trees are well formed, and what a program
prints, by evaluating its tree with an environment per call. It is not a translation of
any code: operators are C's on `int`, with the width of a word. It follows the compiler in
what C leaves open, such as the order in which arguments are evaluated.

**Compiler, MCCompiler.** The tool chain as `tests/cc_test.sh` composes it: `MccParse`,
`MccCodegen`, `Assemble`, `EmuLoad`, one `EmuStep` per instruction on `CpuStep`,
`EmuDump`, each only after the tool before has succeeded, and `CannotOpen` at any of
them. `frames` and `levels` are history.

**Encoding, AsmParser, Assembler, MCAssembler.** The instruction word, the operand formats
and `isa_disasm`; the lexer on lines of names, numbers and characters (comments, and names
that are registers); the grammar as operators from a position in the tokens to the (at
most one) parse there; `assemble` as a state machine. `Parse` takes one statement, `Org`,
`Label` and `Place` are pass 1, `Skip`, `Emit` and `EmitError` pass 2; `CannotRead`,
`Lex`, `ParseError`, `ParseEnd` and `CannotWrite` are the other early returns. A source
without a statement fails like a parse error, as in the code, where both are a null
pointer. `EmitOutside` is a write past the buffer. `Disassemble` feeds the printed form of
the written file to a second run.

## 3. Runs

Instructions, branches and accesses in the table are arbitrary up to the given length;
nothing is sampled. `debugger` and `compiler` take their programs from fixed sets, given
in their MC modules.

| Run | Instance | Shows |
|---|---|---|
| `pipeline` | 5 instructions of ADD, LOAD, JZ, HALT; a ring of 4; four configurations | order, ring, cycle breakdown, miss and redirect accounting, one access per instruction, quiet safety net, termination |
| `l2_memory_latency` (violation) | loads behind an L2 with latency 200 | the safety net stops a healthy run |
| `scalar_equivalence` | 5 instructions, forwarding and predictor on and off | width 1 of `pipe_run_ss` equals `pipe_run` in cycles |
| `issue_models` | 5 instructions of MUL, LOAD, JZ, HALT; `pipe_run_ss` of width 2 without and 3 with forwarding; `pipe_run_ooo` in order of width 2 and out of order of width 3, ROB of 3 | legal schedules, every instruction at its first legal cycle, ROB, ports; the stronger machine of each pair is never slower |
| `branch_predictors` | 7 control instructions at 4 addresses in 2-entry tables | counters, independent halves, fresh BTB, hysteresis, cost against the baseline, regret of the tournament |
| `tournament_worse` (violation) | up to 8 branches; found with 4 | the tournament is worse than both halves |
| `cache` | 7 accesses to 5 blocks, 2 sets, 2 and 3 ways, 3 policies | refinement, inclusion, compulsory misses |
| `cpu` | 8-bit words; four mixes of instructions | metadata against effects and reads, signed comparison, stack, capture buffer, silent twin |
| `silent_input` (violation) | the device mix, an input other than 0 | the simulator computes something else |
| `assembler` | 42897 sources: up to 3 of 32 kinds of line, up to 5 of the 6 that name and move addresses; 16-bit words, 4-bit immediates | accepted sources, bytes, buffer, round trip |
| `debugger` | three programs (one halts, one loops over input, one leaves memory), 8-bit words, 3 breakpoints out of 4 addresses, every order of commands | the machine is that of a plain run; breakpoints stop; `s`, `c` and a reset return |
| `compiler` | 1427 sources, 12-bit words | accepted sources and their trees; output and result equal the meaning; both stacks balanced |

**Why the bounds are enough.** Four instructions fill all latches, and the ring of four is
the smallest that `RingNeverStale` covers: the fifth instruction takes the slot of the
first while the three between are in the pipe, with every combination of stalls, holds and
parked fetches before it. A stall reaches back two instructions, a redirect lasts two
cycles, so every pair and triple of overlapping causes occurs within five. The four
configurations separate zero penalties, unequal ones with a predictor and without
forwarding, an L2, and a D-cache penalty large enough to matter to the cycle bound. Five
instructions fill a bundle of three and start the next, or wrap a reorder buffer of three
twice over its end. Predictor tables of two entries and history of one bit make all
indices collide; counters saturate after three outcomes, and seven allow saturation,
deviation and return. Caches of two and three ways are full after as many blocks of the
same set, and four of the five blocks share one. Words of eight bits keep all relations of
the 32-bit arithmetic (the comparison mix pairs all extremes). In the assembler, two words
and a label are the first address beyond a 4-bit immediate; `.org 2` overlaps words, `.org
4` moves forwards and back, and `.org -4` is the last word of the address space. A
breakpoint table of three for four addresses is filled, refused and emptied in every
order; the limit of `continue` is five, less than a turn of the looping program. The
compiler's sources are all binary operators on 36 pairs of extreme inputs (`/`, `%` and
`>>` on the 16 of them without a negative one; see section 5), all pairs of 12 operators
(one per level, two on levels where grouping shows) in both groupings, the unary ones,
programs with every statement, globals, arrays, pointers, calls and recursion on four
inputs each, twelve kinds of mistake in eleven places of two functions, comments and
spacing, and texts that are no program. Words of 12 bits hold the addresses of these
programs and have the sign behaviour of 32.

**Named bounds.** `GenLimit` is the code's own `GEN_LIMIT` made small. `MaxBranches`,
`MaxAccesses` and the `steps` of a mix bound the length of a run; `Sources` is the
set of source files. `MaxSteps` bounds the instructions of a compiled program; that every
program halts below it is part of `ComputesMeaning`. `Guard` is the limit of `continue`
made small. `MaxCount` is the number of instructions after which the debugger's user
gives no further command; a command under way still completes, except `f`, which has no
limit in the code either.

**Deadlock** is checked in `pipeline`, `l2_memory_latency` and `scalar_equivalence`,
where returning is a step of its own (`Returned`): the loop always has a path to
take. The other models end where the program or the bound ends, and say
`CHECK_DEADLOCK FALSE`.

**Fairness.** `Termination` of `pipe_run` uses `WF_vars(Iterate)` and `CommandReturns` of
the debugger `WF_dbgVars(Loops)`: a loop that has been entered is sequential code that
goes on. (`IN` waits for the user; a number is taken to come.) No fairness is put on
what programs and caches do, nor on anyone giving a command.

**What a violation run shows.** The property quotes the repository and TLC finds a
behaviour of the code against it:

1. `per_inst` (`pipe_sim.c:255`) leaves the L2's miss penalty out of the cycle bound. With
   memory far behind the L2, `pipe_run` stops before the program does. `SafetyNetQuiet`
   shows that this is the only way: with an L2 no slower than the L1 penalties the net
   never fires.
2. The README says the tournament predictor is "never worse than its worse component". It
   can be, by following the wrong half twice in one history context, each half once: with
   branches not taken at one address, taken at another, and taken at each of them again,
   it mispredicts three times and either half twice. `TournamentRegret` states the bound
   that holds: at most twice the mispredictions of either half, plus one per chooser
   counter for gshare.
3. The README says results are "correct by construction". For programs that read input
   they are not: the silent CPU reads 0. `SilentAgrees` states what holds.

## 4. Proofs

`tlapm` proves the following for all values of the constants that satisfy the
assumptions: every length of program and every word size, latency, width, ring, table
and cache. All but the ones marked with a dash state a property that a run checks on
a small instance.

| Module | Theorem | Statement |
|---|---|---|
| `PipeSimProofs` | `TypeCorrect` | `Spec => []TypeOK` |
| | `EveryInstructionOnce` | `Spec => []InOrderOnce` |
| | `RingNeverStale` | `Spec => []RingLive` |
| | `RedirectsPaid` | `Spec => []RedirectAccounting` |
| | `PresentedOnce` | `Spec => []OncePerInstruction` |
| | `MissesPaid` | `Spec => []MissAccounting` |
| | `CyclesAccounted` | `Spec => []CycleBreakdown` |
| | `SafetyNetNeverFires` | `Spec => []SafetyNetQuiet` |
| | `SchedulersAgree` | `EqSpec => []WidthOneIsScalar` |
| `SuperscalarProofs` | `SchedulesAreLegal`, `SchedulesAreTight` (-) | `ConfigOK /\ HSpec => []LegalSchedule`, `[]NoIdleCycle` |
| `OutOfOrderProofs` | `SchedulesAreLegal`, `SchedulesAreTight`, `RobNeverFuller` (-) | `ConfigOK /\ HSpec => []LegalSchedule`, `[]NoIdleCycle`, `[]RobBounded` |
| `IssueCompareProofs` | `StrongDominates` (-), `WiderNeverSlower` | `Spec => []Dominates`, `[]StrongerNeverSlower` |
| | `OooDominatesBaseline`, `DynamicNeverSlower` | `OooSpec => []OooDominates`, `[]OooNeverSlower` |
| | `IssueSchedulesLegal`, `OooLegal`, `RobWithinBounds`, `NothingWaitsIdly` | `CSpec => []SchedulesLegal`, `[]OooSchedulesLegal`, `[]RobNeverOverfull`, `[]SchedulesTight` |
| | `HistoriesOnlyWatch` (-), `ComparedNeverSlower` | `CSpec => Spec /\ OooSpec`, and so the comparisons hold under `CSpec` |
| `BranchPredProofs` | `TypeCorrect` (-) | `Spec => []Typed` |
| | `BtbNeverStale` | `Spec => []BtbFresh` |
| | `HalvesAlike`, `StaticNeverWorse`, `HysteresisHolds`, `ChooserRegret` | `Spec => []HalvesTrainAlike`, `[]StaticNoWorseThanBaseline`, `[]Hysteresis`, `[]TournamentRegret`, each when the kinds it compares are among `Kinds` |
| `CacheProofs` | `OnlyCompulsoryMisses` | `Spec => []CompulsoryOnly` |
| | `InclusionHolds` | `ISpec => []LruInclusion` |
| | `CacheIsRecency` | `Spec => RefinesRecency`, the refinement, for all three policies |
| | `PairOnlyCompulsory`, `PairIsRecency` | the same of the pair of caches, under `ISpec` |
| `CpuProofs` | `MetadataTrue`, `PairMetadataTrue` | `Spec => []MetaCovers`, and under `OSpec` |
| | `SilentIsFaithful` | `OSpec => []SilentAgrees` |
| | `PairRunsReference` (-) | `OSpec => Spec` |
| | `MachineTyped`, `ComparesSigned`, `StackIsStack` | `Spec => []TypeOK`, `[]SignedCompare`, `[]StackDiscipline` |
| | `PairSafe` | the three of them under `OSpec` |
| `DebuggerProofs` | `BreakpointsStop` | `Spec => StopsAtBreakpoints`, an action property |
| | `DebuggerInvisible` | `Spec => []SameRun` |

**Assumptions.** They are conditions on the configuration that the code imposes, named
in the module that declares the constants, and TLC evaluates them in the runs:
`RegsAssumption` and `OpsAssumption` (registers and opcodes are those of `isa.h`),
`ConfigsAssumption` (configurations are well typed), `WinCapAssumption` (the ring has at
least four entries; 32 in the code), `GenLimitAssumption`, `StrongerAssumption` and
`OooAssumption` (the strong configuration is at least as wide, forwards if the weak one
does, and is out of order if the weak one is), `BpAssumption` (addresses are
multiples of four and a branch is not a return), `CacheAssumption`, `MoreAssumption` (the
larger cache has no fewer ways), `MachineAssumption` (a byte has a bit, memory fits the
address space, the capture buffer takes a line), `CpuAssumption` (programs use the
machine's opcodes), `DebuggerAssumption` (a file decodes to instructions and fits in
memory, register 0 exists, addresses and inputs are words).
`ConfigOK` in the two proof modules about a single schedule says the widths and sizes
are positive; `IssueCompareProofs` derives it from the assumptions above for its four
schedules. `PowersAssumption` says that a power of two is a positive number, and
`PowersOfTwoAssumption` adds `2^(n+1) = 2 * 2^n` up to the word: the defining equations
of `^`, true of every instance, which the prover does not know.

**Induction over data** is done as the least counterexample: `LeastNat` (a set of naturals
that is not empty has a least element) comes from the library's theorem on well-founded
relations, and a recursive function is a set of equations, of which a solution is shown to
exist and to be the only one.

**A defect of the prover, and why it does not matter here.** Before it calls its SMT
backend, `tlapm` 1.4.5 replaces `e = e` by `TRUE`, and it takes two `CASE` expressions for
one when their first arms and their `OTHER` arms are the same, so a leaf that expands a
`CASE` definition at two different arguments could pass without being true. No proof rests
on that: every proof also goes through, unchanged, in a copy of the project in which each
`CASE` of `CpuStep`, `Cpu`, `CpuProofs`, `Isa` and `BranchPred` is written as the
`IF ... THEN ... ELSE` chain it abbreviates, which `tlapm` compares whole. Whoever changes
those definitions should repeat that.

**The pipeline.** `FlowInv == TypeOK /\ InOrderOnce /\ PendingAlone /\ RingLive`.
`InOrderOnce` counts the instructions in flight: each occupied latch holds
the number of those retired plus those ahead of it, and it is inductive once the
latches are typed. `RingLive` is not: a new instruction goes to slot `count % WinCap`
and overwrites the one `WinCap` older, which must have retired. `InOrderOnce` bounds
those in flight by the latches and the pending fetch, and `PendingAlone` (a parked
instruction has an empty IF latch before it) takes one off that bound, so a ring of
four is enough; `RingSlotsDistinct` turns the bound into distinct slots.
`RedirectAccounting` is inductive given types.

`OncePerInstruction` reads ring entries, so a step that overwrites one could change its
meaning: it is proved on top of `FlowInv`, as `DcBalance` (presented plus ahead of MEM
is produced) and `CondBalance`, with `RingSane` (an entry is something `decode_meta`
can say; in particular a conditional instruction is a control instruction).
`MissAccounting` is about what is paid and what is still owed (`Outstanding`) against the
misses counted (`Bill`); `MissInv` adds the same for the L1 penalties as an upper bound.
`CycleBreakdown` speaks of finished runs only, and needs to be followed from the first
cycle: `Drains` are the iterations that neither fetched nor counted a stall, `Dist` the
cycles the youngest instruction is from leaving, and `DrainInv` says that there are no
such iterations before the last instruction is in the pipe, and that afterwards the two
add up to four. `EndInv` (the loop ends when, and not after, everything has retired) and
`FetchIdle` close it. `SafetyNetQuiet` follows from bounds per instruction: at most two
data stalls, one miss in each cache and one redirect (`NetInv`), which with
`CycleInv` bound the cycles by less than `per_inst` for each instruction.

**Structure and schedule.** `WidthOneIsScalar` compares totals at the end; the two machines
are at different points in between, since `pipe_run_ss` places an instruction when it is
fetched and `pipe_run` finds out over the next cycles. `EqInv` predicts: `ToEX` reads off
the latches how many cycles the youngest instruction still is from EX, and `LastPlaced` says
that this is where the schedule put it. To keep that, every value an instruction may still
wait for must be predicted too: `SlotsTimed` says that the ready time of each register is
that of its youngest producer in the latches, and past if there is none, and `FetchInTime`
that an empty IF is the start or a bubble of the redirect the fetch block stands for. A
stall then shortens every prediction by the cycle that passes, and a fetch adds one
instruction to both.

**Legal and tight schedules.** The properties mention the log only, the code its
scoreboard, so each `HInv` ties the two together: the open bundle or port is the latest
cycle in the log and its counter is its population; a ready time is that of the
*nearest* producer in the log; the fetch block covers every redirect; and, for the reorder
buffer, slot `i % RobSize` holds the commit cycle of instruction `i` as long as it is
among the last `RobSize`. From the last, an instruction dispatches after the one
`RobSize` older has committed (`RobGap`), and counting gives the bound on the buffer.
For `NoIdleCycle` the same facts are used the other way. The cycle the code chooses is one
of its bounds, and each bound is accounted for in the log: a ready time is the first use of
the nearest producer (`ReadyIsFirstUse`), the fetch block the end of a redirect, and a cycle
beyond the open one the sign that the open one is full (`LastOpen` and `Blocked` in
`OutOfOrderProofs`). What explained an older instruction still does when the log grows.

**Dominance.** `DominanceInv == SchedulesTyped /\ NothingOpen /\
Dominates`: the strong machine's operands and redirects are ready no later, and its
current bundle is earlier, or the same and no fuller. The last part is what makes a
step work: the strong machine's first cycle with room is then never later. From
monotone bounds the fetch cycle is no later, and each component is re-established
from it. `NothingOpen` covers the first instruction, where no bundle is open.
`OooInv` is the same for the three times of the out-of-order model and its two ports;
the reorder buffers are compared slot by slot.

**Predictors.** `BtbFresh` speaks of hits; `BtbInv` says of every entry, hit or not, that its
target is the latest of the branch in its tag. `Hysteresis` compares a prediction with
past outcomes; `CounterInv` says which counter values are possible after which of the
last four outcomes. `TournamentRegret` is inductive as it stands, given
`HalvesTrainAlike`: the reserve held in the chooser pays for a misprediction on which the
better half was right. The sum over the chooser is the cardinality of a set of units,
which moves by one when one entry does.

**Cache.** `Sound` (distinct tags and distinct stamps below the clock in every set) is
the base of all three. `CompulsoryOnly` needs the pigeonhole: when the blocks of a set fit
in its ways and one is not held, a way is empty. `LruInclusion` needs stamps: what both
caches hold carries the same stamp, and what only the larger one holds is older than
everything in the smaller one, so the larger one's victim is never held by the
smaller one after the access. The refinement maps a set to the list of its blocks by
rank of stamp; the lemmas on ranks show that renewing one stamp moves that block to the
front and those in front of it back by one, which is `Front` of the abstract cache.

**CPU.** `MetaCovers` holds of each single step from any well-formed machine, so the
invariant only says that the machine is one (`Running`); the work is in the cases. `Arm*`
lemmas give the result of each arm of the switch, `ExecuteEffects` compares it with what
`decode_meta` lists as written, and `ExecuteReads` the results of two machines that
differ in a register not listed as read. For `SilentAgrees`, `Agree` says that two machines
differ in the capture buffer only; it is kept by every arm whose input is 0 or unused.
Words need not be words for these two.

They must be for the rest. `TypeOK` is inductive once the machine is one (`Machine`), given
that every operation returns a word: a bitwise operation because a sum of bits below
`2^k` stays below it (`BitwiseIsWord`, by induction over `k`), a load because four bytes
make a word (`WordIsFourBytes`). `SignedCompare` is about the last SUB, which may be many
instructions ago: `Comparison` says that the flags are still those of its operands, since
whatever else sets flags also clears the history. `SubCompares` is the arithmetic: N and O
differ exactly when the difference, wrapped, has the wrong sign. `StackDiscipline` is
inductive for a stack of words (`StackInv`): what PUSH and CALL write reads back
(`ReadsBack`, the four digits of a number) and, like a STORE below `sp`, disturbs none of
the words above it (`ReadsBeside`).

**Debugger.** `StopsAtBreakpoints` compares the table with the breakpoints asked for
(`armed`). `Armed` says that the table holds exactly these, each once; without the latter,
clearing one entry would not clear the breakpoint, and a table that is full would not be
one with `MAX_BP` breakpoints set. `SameRun` compares the machine with the recursively
defined `PlainRun`, which stops at a halt as `cpu_run` does: a state with more
instructions than the run has would equal none. It is not inductive: it says where the run
ends, not how many of the numbers it has read, on which the next IN depends. `RunInv` says
that there is a run (`IsRun`) with as many steps, that no step has read past `reads`, and
that the last has read all of it; an instruction adds one step to it and a reset starts it
anew. `RunIsUnique` then makes it the run `PlainRun` chooses. That the capture buffer,
which the REPL's reset keeps, does not matter to the program is `StepAgrees`, proved for
the silent twin with one side loud and used here with both; `DebuggerProofs` takes the
lemmas on `cpu_step` from an instance of `CpuProofs`, whose variables they do not mention.

**Only model-checked**, and why:

* `Termination` and `CommandReturns`: liveness under fairness.
* `FrontEndExact`, `ComputesMeaning` and `FramesBalanced` of the compiler: its modules have
  recursive operators over text and trees, which the prover does not take.
* `AcceptsExactly` and `RoundTrip` of the assembler speak of every text: what the lexer and
  the parser make of a line, token by token.
* `ImageExact` and `WritesInBuffer` of the assembler need no text, but an induction over the
  statements in which the location counter is compared with a count of words since the
  last `.org`, and the first the decoding of fields. They have not been proved.

## 5. Not modelled, and why

* **Simulator report** (`main_pipe.c`) and `main_asm.c`: option parsing and printing of
  values the modelled functions return.
* **Printing**: the debugger's screens and terminal modes, `ast_print`, `trace_line`, the
  annotated listing of the disassembler, and the wording of diagnostics.
* **Characters inside names and numbers**: hexadecimal, the letter case of mnemonics, and
  names of more than 63 characters, which both lexers split in two.
* **Names that collide in the assembly**: a function or global named like a register or
  like a generated label (`_L0`, `main_epi`). The compiler accepts it; no document
  reserves such names.
* **Differences between the compiler's language and C.** The code generated for `/`, `%` and
  `>>` is unsigned (`cgen.c:190-199`, `cpu.c`), so that `-6 / 2` is 2147483645. The
  README (lines 83-91) promises a C subset with a 32-bit `int`, and `tests/cc_difftest.sh`
  a validation against C, in whose programs no operand of the three is negative.
  This is a divergence between code and documentation. `CMeaning` has C's meaning, and with
  negative operands of these three operators `ComputesMeaning` is violated; the run checks
  the rest of the language, and restricts their operands to those on which the two agree.
  A name declared again in an inner block is the same variable to the compiler; the
  sources avoid it.
* **Fixed tables of the compiler.** `sym`, `funcs` and `globs` (`cgen.c:32-37`) are filled
  without a check against their sizes, 256, 128 and 128; the model has no such limit, and
  what happens beyond is undefined.
* `cache_amat`: a floating-point ratio of two modelled counters.
* The bounds check of `memory.c` wraps for addresses at the end of the 32-bit space;
  the model shows where but no document says what should happen.

## 6. Plan

In this order:

1. Proofs: `WritesInBuffer` and then `ImageExact` of the assembler, from an invariant that
   gives the location counter after each statement as `AddressOf`.
2. Composition: `PipeSim` with `BranchPred` and `Cache` in place of arbitrary answers.
   The properties proved hold for every answer, so this would add properties of the
   whole (what a predictor saves in cycles) and not strengthen those.
