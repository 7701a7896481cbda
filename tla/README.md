# A formal model of the Patmos simulator

The Patmos simulator (`pasim`) executes programs of a time-predictable
processor cycle by cycle.  What it computes, and in how many cycles, is used to
validate worst-case execution times, so both have to be right: that a stack
cache never loses a word, and that a memory access takes exactly the time the
manual gives.  This directory holds TLA+ models of the simulator's components,
the model-checking runs over them, and proofs about them.

Paths below are relative to the root of the repository: `src/stack-cache.cc`,
`include/memory.h`, `README.md`.  `PROJECT.json` names, for every definition,
the lines it stands for (there under `src/`), the hazards each property is
about, and for every property a mutant of the code that breaks it.

## The system

`simulator_t::run` (`src/simulation-core.cc`) is a loop; an iteration is a
cycle.  It fetches (IF), then runs the stage functions of the instructions in
MW, EX and DR, in that order, moves the stages on unless one of them stalled,
and ticks the memories and caches.  There are no threads.  The concurrency is
that of the pipeline: up to four instructions are under way, those in MW and
IF may wait for main memory for many cycles, and while they do, **EX and DR
are run again in every cycle** on instructions that look finished.

| Component | State | Operations | What is hard | What makes it correct |
|---|---|---|---|---|
| Stack caches `stack-cache.cc` | `Content`, `Buffer`, `Phase`; `stack_top`; lazy pointers; the registers ss, st | `prepare_*` in EX; `reserve`, `ensure`, `free`, `spill`, `read`, `write` in MW | pointers move in EX, content in MW cycles later; EX is repeated; multi-cycle transfers | a stack to the program; content equals what the pointers enclose; bounded |
| Main memory `memory.cc` | `Content`, `Requests`, `Round_counter`, `Is_Transferring` | `read`, `write`, `tick` | requests are found by address only; two stages queue; slots wrap around the round | every access answered once, at the documented time; nothing left in the queue |
| Method caches `method-cache.cc` | `Methods`, `Phase`, counters, `active_method` | `load_method`, `fetch`, `flush_cache` | phases over many cycles; indices shift while loading | distinct methods, bounded, in recency or load order, active one resident |
| Data caches `data-cache.cc` | tags per set | `read`, `write`, `flush_cache` | tags without data | tags in recency or load order; a hit is a word brought in and not replaced |
| Instruction caches `instr-cache.cc`, `instr-spm.cc` | `Fetched`, `Fetch_cache` | `fetch` | two reads per fetch | each word fetched once |
| Pipeline `simulation-core.cc` | stages, `PC`, `nPC`, `BASE`, `Stall`, `Disable_IF`, `Delay_counter`, `Exception_handling_counter`, `Halt` | stage functions, flush, halt | delay slots, interrupts and stalls together | every instruction takes effect once; interrupts only between instructions |
| Instructions `instructions.h` | registers, bypasses | DR, EX, MW of each | repeated EX, bypass reset | repeated stages are idempotent |
| Exception unit `excunit.cc` | `Status`, `Mask`, `Pending`, `Source`, vector | `pending`, `next`, `trap`, `resume`, device reads and writes | nesting, repeated trap | status is a stack; an enabled interrupt is taken |
| Timers `rtc.h`, `deadline.h` | latches, `Interrupt_clock`, `Delay_counter` | device reads, writes, `tick` | compare for equality, latched halves | a timer fires once; a read pair is consistent |
| Memory map, MMU, devices `memory-map.cc`, `uart.h`, `noc.h` | device ranges, segment registers, device registers | dispatch, translate | host I/O | an address reaches one device |
| Debug stack, profiling `dbgstack.cc`, `profiling.cc` | shadow stack | push, pop | matching returns | in step with the program |
| Encodings, decoder, assembler `binary-formats.cc`, `decoder.cc`, `assembler.cc` | symbols and relocations of the assembler | encode, decode, assemble, list | overlapping formats; relocations in long and bundled instructions | decode inverts encode; a listing gives back the program |
| Loader, symbols `loader.cc`, `symbol.cc` | segments, symbol table | load, `find`, `contains` | segments that overlap or do not fit; symbols without a size | memory holds the segments; a search finds the symbol |
| Command line, `pasim` `command-line.cc`, `pasim.cc` | options | parse, print, create, run | defaults that depend on others; units | what is built is what was asked for; printed options read back |
| Ramulator adapter `memory.cc` | one pending request | `read`, `write`, `tick` | two clocks; two stages, one record; address 0 | as main memory; optional build |
| DRAM simulator `ramulator/` | states and times of the tree, queues, row table | `decode`, `check`, `update`, `enqueue`, `tick` | windows of four, refreshes, write mode | every command keeps its times; every request served once |

Interactions: the stages call caches synchronously; caches call `memory_t`,
whose `read` and `write` return false until the transfer is over and are
called again every cycle; a false result makes the stage call
`pipeline_stall(SMW)`; `tick` is the only thing that makes requests progress.

## Modules

| Module | Models |
|---|---|
| `StackCacheOps` | the `prepare_*` functions of all stack caches, as operators |
| `StackCache` | the stack caches in the pipeline: state machine, properties |
| `ProgramStack` | abstract: the stack a program sees |
| `StackCacheProofs` | theorems about the block, the lazy and the aligned stack cache |
| `DirectStackProofs` | theorems about the ideal stack cache and the proxy |
| `MemoryTiming` | alignment and transfer times of the memories, the TDM round |
| `MainMemory` | the request queue, driven by the fetch stage and the MW stage |
| `ProgramMemory` | abstract: main memory as an atomic store |
| `MainMemoryProofs` | theorems about the request queue, its times and the atomic store |
| `DramStandards` | DDR3, DDR4, LPDDR3, LPDDR4: states, prerequisites, times between commands |
| `Dram`, `DramController` | ramulator's tree of a channel; its controller |
| `RamulatorMemory` | `ramulator_memory_t` on top of them |
| `DramProofs` | theorems about the commands, the data bus and the accounts of the DRAMs |
| `MethodCache` | the LRU and FIFO method caches, with the stages that call them |
| `MethodCacheProofs` | theorems about the method caches |
| `DataCache` | the data caches and the instruction caches made of them, before one memory |
| `DataCacheProofs` | theorems about the data and instruction caches |
| `ProgramOrder` | abstract: the order in which a program's instructions take effect |
| `ExceptionUnit` | the exception unit, as operators over its registers |
| `Pipeline` | fetch, stages, delay slots, stalls, flushing, interrupts, traps, halting |
| `PipelineInvariant`, `PipelineProofs` | the pipeline's inductive invariant; what instructions mean and how Status encodes modes, and the theorems |
| `BundleSemantics` | abstract: bundles executed one after the other |
| `Datapath` | registers, predicates, by-passes and memory results in the stages |
| `DatapathProofs` | theorems about the registers in the pipeline |
| `Arithmetic` | what the instructions compute, with the laws it is checked against |
| `Encodings`, `Assembly` | formats and decoder; assembler, relocations and listing |
| `CommandLine`, `SymbolMap`, `Pasim` | options; symbol table; a run of `pasim` from its options to its exit |
| `Timers` | `rtc_t`, `deadline_t` |
| `IoDevices` | `uart_t`, `led_t`, `ethmac_t` |
| `MemoryMap` | `memory_map_t`, `mmu_t`, `cpuinfo_t`, `perfcounters_t`, `noc_t` |
| `CallStack` | the shadow stack and the profile |
| `MC...` | programs, inputs and small constants for the runs |

`RamulatorMemory` extends `DramController`, which extends `Dram` and
`DramStandards`; `Pipeline` extends `ProgramOrder` and uses `ExceptionUnit`;
`Datapath` extends `BundleSemantics`, which extends `Arithmetic`; `Assembly`
extends `Encodings`; `Pasim` extends `CommandLine` and `SymbolMap`.

A simulator is started with one stack cache, one memory, one method cache, and
so on.  The runs over alternatives hold them all: a variable `chosen` (`dram`
for the DRAMs) is fixed initially and says which one this behaviour is about,
the others rest.  Their properties are implications from `chosen`, or
conjunctions of those.

Definitions commented *Faulty* are variants of the definition they precede, as
a plausible mistake would leave it.  They are used by nothing; putting one in
the place of its original makes a property fail, which shows that the property
can fail (`mutants` in `PROJECT.json`).

### Stack caches

`Kind` selects the class `--sckind` selects.  A cycle is two steps: the MW half
runs the MW function of the instruction in MW (`ReserveIdle`, `BlockEnsure`,
`FreeWithFill`, `Load`, ...), the EX half runs EX of the instruction behind
(`StackControlEX`, `OtherEX`), and, unless MW or the fetch stalled, moves the
stages on (`Advance`).  While the pipeline stalls, the EX half runs again on
the same instruction, with the operands read in DR, as in the code.  `mw` and
`ex` are the `instruction_data_t` of the two stages; `content`, `phase`,
`buffer`, `lazyPtr`, `nextLazy`, `evict` and `proxyTop` are the members of the
cache classes.  Addresses and sizes count words; `ragged` marks a size operand
that is not a whole number of words.  Memory is a function of addresses that
answers after an arbitrary number of ticks up to `MaxLatency`, and the fetch
may stall for up to `MaxFetch` cycles.  An exception of the simulator ends the
run (`fault`).  `written` is a history variable: the addresses for which the
program has been promised a value.

`ProgramStack` is what the program relies on: a top, and a value for every word
stored and not yet freed; a store changes the word the instruction names with
the value it names, a load returns the word it names.  `RefinesProgramStack`
maps a word to wherever it is: cache, buffer, memory.

### Main memory

A cycle has the fetch (`turn = "IF"`, once per word of the instruction), the
MW access (`turn = "MW"`), and the `Tick`.  This is the order of the calls.
The fetch stage reads the words of an instruction through `no_instr_cache_t`,
or finds the instruction in its cache (`InCache`); the MW stage makes one of
`DataAccesses` and repeats it until it is answered.  `requests` is `Requests`;
a request is found by address, size and direction (`Matching`).  The parameter
`is_posted` is false in every call, as in the code, where `write` passes its
flag one position too early (`NewRequest`).  `due` is a history variable: when
a port's access is first made it is set to the duration the simulator's
`README.md` documents, computed there from sets of bursts and pages and not
from the code's expressions; it counts down with the ticks.

`ProgramMemory` answers accesses atomically.

### Ramulator

`DramStandards` translates the tables the constructors of the four standards
fill: which command a command needs before it (`prereq`), what a command does
to rows (`lambda`), and the waits between commands (`timing`), for the commands
the requests of this simulator lead to.  In `Dram` a node is the path to it;
for each command it keeps how long it still has to wait (`next`) and the last
times it was issued (`prev`), counted from now, so that the state stays finite.
`DramController` has the three
queues, write mode with its water marks, the row table, the refreshes, and in a
tick at most one command, chosen as `Scheduler` does: row hits first among the
ready, then the oldest.  `CommandsKeepApart` states what the standards mean over the
history of commands (`issued`), and not over the waits; `DataBusFree` says that
two transfers do not meet.

`RamulatorMemory` is `read`, `write` and `tick`: a request is cut into bursts,
which are enqueued as places become free, and is repeated until it is answered;
a record holds its start and how many bursts are pending, enqueued and done.
`coreTicks` scales the core's clock to the memory's.  `atPort`, `ticksDue` and
`failed` are history variables: what each port waits for, and whether the
assertion on the record held.

### Method, data and instruction caches

In `MethodCache`, `cache` holds the members of `lru_method_cache_t`: `methods`
are the entries in use of `Methods`, oldest first; `active` is the FIFO cache's
`active_method`, counted from the youngest entry, and stays 0 in the LRU cache.
A cycle is the fetch (`Fetch`, `IllegalPC`, or `AlreadyFetched` while the
pipeline stalls) and the MW stage: an instruction that enters a method
(`fetch_and_dispatch`, used by calls, returns, `brcf`, traps and interrupts)
repeats `load_method` until the transfer is over (`EnterHit`, `EnterMiss`,
`EnterTransfer`); a store may flush the cache (`FlushMW`), and so may the
program counter (`--flush-caches`, in `Advance`); other instructions go on or
branch within the method.  Where a call or return goes is arbitrary among
`Targets`, and memory may take any number of cycles.  `order` is a history
variable: the bases by last use (LRU) or last load (FIFO).

In `DataCache` both ports have a cache of their own kind (`system`), made of
tags only, as in the code: what a hit returns is read from memory in that
moment.  A cycle is the fetch, word by word (`Fetched`), the access in MW, and
`EndCycle`.  Both wait for one memory, which answers by address, size and
direction.  `since` is a history variable: for each block, the other blocks of
its index used (LRU) or loaded (FIFO) since it was, and the block itself while it
has not been since a flush; from it `DataHoldsMostRecent` says what must be
resident.

### Pipeline and exception unit

A cycle is four steps: IF, MW, EX, and DR with the end of the cycle.  The
program is not fixed: at every fetch any instruction may turn up that a program
may have there.  `pipe` holds the stages, `disableIF` is `Disable_IF`, `unit`
the registers of the exception unit.  `ProgramOrder` is the machine as the
program sees it; `RefinesProgramOrder` maps the pipeline to it through
the instructions that have taken effect.  Status is a word that is shifted, and
`StatusHoldsModes` says that what is shifted out of it again are the modes that
were left.  A handler that stores to Status changes the mode it runs in and
writes back the modes it was interrupted in as it read them.

Where the code lets stages repeat, the model does: `trap` shifts Status again
in every cycle it is repeated in EX, so `StatusHoldsModes` is about programs
without traps; the refinement, which is about their control flow, has them.  Code
behind a transfer that has been executed before it is flushed has no effect,
but for `callr` and `trap`, which flush only when they leave MW
(`FlushedInTimeHasNoEffect`).

### Data path and arithmetic

An action of `Datapath` is a cycle: the fetched bundle, DR reading, EX with the
by-passes, MW with memory results, the check of bundles in `pipeline_invoke`
and of loads in `run`.  A stalled cycle repeats EX and resets the by-passes as
the code does.  `BundleSemantics` executes bundles one after the other, the
late effects being those of loads, stores and multiplications.  Two properties
are invariants: a by-pass is free when an instruction writes it, and a bundle
is refused exactly if the abstract machine refuses it.  A refusal is that of the
bundle at hand: `rejected` keeps it, and the abstract machine refuses only a bundle
that it could not execute, one that needs the load before it.

`Arithmetic` gives each operation as the code computes it, over words of
`Width` bits, and laws that a compiler relies on, stated in other terms (carries
instead of sums, differences instead of comparisons).

### Encodings, assembler, loader, options

In `Encodings` a word is a set of bits.  Each of the 18 formats gives its mask,
pattern, slots, and where its operands lie, once for `encode` and once for
`decode`; signed operands are extended or cut as the code does.  `Assembly`
assembles lines one at a time, patches the relocations at the end, and lists
the words again as `padasm` does.  A relocation is a label's address, less that of
another label or of the word itself, shifted to the operand's unit (for a typed
access, that of its width), plus a number; the field keeps the bits it has room
for.  A symbol in a statement whose format takes none counts as 0.

`Pasim` follows `main`: read the options (`ReadOptions`), refuse them, build
memories and caches, load the segments one at a time, look up the symbols, run
the program's accesses against the lazily initialised memory, print the options
and exit.  `CommandLine` has the enumerations and sizes with their text and
what is built of them, `SymbolMap` the sorted table and its two searches.

### Devices and calls

`Timers` and `IoDevices` have a main program and an interrupt handler that use
the same registers; MW accesses a device, then the devices tick.  `IoDevices`
distinguishes what a file or terminal still has, what the kernel has and what
the stream's buffer has, since `poll` and `FIONREAD` see only the second.
`MemoryMap` dispatches an access by the ranges of the devices, in their order,
and translates the others segment by segment in user mode.  `CallStack` is
driven by the calls, returns and jumps of a program, whose own frames it keeps
apart (`frames`) from those of the simulator (`debug`).

## Runs

Sizes were chosen so that every action fires; coverage of each run was read to
see that it does.  Parts that do not interact share a run: each initial state
chooses one of them, and a property speaks of the states in which its part is
chosen.

| Run | Question | Bounds |
|---|---|---|
| `MCStackBlock` | block cache, and lazy cache without sspill and adjacent stack control: types, capacity, pointers in step, transfers fit, is a stack | 2 blocks, 4 stack words, sizes to 2, 1 tick latency, 1 fetch stall (block), 2 values |
| `MCStackLazyAdjacent` | with adjacent instructions the lazy cache takes modified data for coherent: **violated** | 4 words |
| `MCStackPredicated` | a disabled instruction moves the pointers only: **violated** | no latency |
| `MCMemoryKinds` | three memories: queue order, no orphans, slots do not overlap, time, atomic store, every access answered; four DRAMs: times kept, accounts exact, every request answered; the pipeline: a pending, enabled interrupt is taken | bursts of 2 words and 3 ticks, delay 1, pages of 4; ranges of 1 to 4 words; core 2 of 3, slots kept for 2, refresh 1; programs apart from and on their own code; DRAMs of 2 to 4 banks, queues of 3 or 5, 3 requests; pipeline: 3 addresses, interruptible programs |
| `MCMemoryPostedLost` | a posted write reaches memory: **violated** | one posted write |
| `MCSlotWait` | an access waits less than a round for its slot: **violated** | the TDM memory of `MCMemoryKinds` |
| `MCPipeline` | is the program's order, modes in Status, flushed code has no effect; stack caches: aligned (no sspill, a block to spare), lazy (no adjacent stack control), ideal and proxy: bounded, in step, drop no modified data, are stacks | 5 addresses, five families of programs, nesting 2, one interrupt source; aligned cache: 4 blocks, transfers of 2, 6 words; the others 3 words; latency 1 |
| `MCInstructions` | one at a time: arithmetic laws; decode of encode; listing of assembly; the data path is the bundles; data and instruction caches: resident is what the policy keeps, atomic memory; `pasim` builds, loads and prints as asked | all pairs of 4-bit words; every instruction with corner operands, slots and bundles; programs of 3 lines of 9; 2-bit registers, six families of bundles; caches: 2 indexes of 2 tags for 3 blocks, four combinations; memory of 6 bytes, all tables of 2 symbols, option combinations |
| `MCSymbolOrder` | a function is named before its blocks: **violated** | the tables of `MCInstructions` |
| `MCLoadUse` | the use of a load in the next bundle is refused: **violated** | loads beside comparisons |
| `MCDeadlineWrap` | a load waits until the deadline stored: **violated** | words of 4 values |
| `MCDevices` | one at a time: method caches: limits, recency, in step with the pipeline, no needless eviction; stack caches make progress; timers keep time; bytes and frames in order; accesses reach what was stored; calls recorded and profiled exactly | method cache: 5 blocks, 3 tags, methods of 1, 1, 1, 2, 4 blocks and one too large; words of 3 or 4 values across a carry; 3 to 4 bytes, 3 frames each way; 2 segments of 2 words over 3; three functions, depth 4, 6 cycles |

Why the bounds suffice.  A stack cache distinguishes words by whether they are
in the cache, in the buffer or in memory, and by being stored or not; two
blocks and four addresses give spills and fills of part of the cache, of all of
it, and of more than it holds, and the pipeline holds two instructions however
large the cache is.  Latency 1 already separates the cycle a transfer begins in
from the one it ends in, with one repetition of EX in between, and the fetch
stall adds the repetition after MW is done.  The stack caches of `MCPipeline`
other than the aligned one use three words, to stay within minutes.

The memory queue never holds more than one request per port (proved), so two
ports and ranges that begin inside a burst, fill one, and cross one or two
boundaries are all the cases; the TDM configuration has the last core of the
round, whose response wraps around it; requests arrive before, in and after the
slot.  The DRAMs have their standard's levels, two of each; the times are short
but in the order of the standards, with an activation window that a single rank
can fill and a refresh interval that requests run into.  Three requests of up
to five bursts fill a queue, pass both water marks, and find a write that a
read is served from.

In the method cache, three tags and five blocks make loads fail for want of
tags, of blocks, and of both, with one to three entries thrown out; the method
that is too large is the entry function in some initial states and refused in
the others.  Three blocks for two tags are the least with which a set replaces.

A pipeline has four stages, so programs in which any instruction may follow any
other at five addresses have every sequence of transfers that can be under way
together.  Two registers, a predicate and a word of memory give every pair of
producer and consumer; values of two bits tell results apart.  Arithmetic is
exhaustive for its width, where a shift count, a sign and a product's halves
all have their boundaries.  An operand of an encoding is a field, and fields
collide or not whatever the others hold, so each takes its corner values among
all zeros and all ones.  The timers count from before the carry of the low word
until after it.

The violated runs are disagreements of code and documentation; `findings` in
`PROJECT.json` quotes both.  The passing runs are about the cases that are left.
The lazy cache of `MCPipeline` leaves out what `MCStackLazyAdjacent` shows, and
`MCStackBlock` what `MCStackPredicated` shows; `MCInstructions` takes the code's
check of loads on programs where it is exact, `MCLoadUse` shows where it is not.
The aligned cache is a stack only without full-size reserves and `sspill`.  Main
memory works as documented with `--posted=0`, the default: with posted writes,
`MCMemoryPostedLost` shows a write that is answered and does not reach the
memory.

In the TDM memory, an access made in the very cycle its slot begins waits for
the next round.  `WaitForSlot` and with it `AnswersOnTime` follow the code
there, since they count the time to an answer; that the wait is below a round,
as `README.md:214` has it, is `WaitsBelowRound`, which `MCSlotWait` refutes.
`WaitsExactly` asks what `deadline.h:37` says, that a load waits until the time
stored; `MCDevices` stores delays up to the last but one, and `MCDeadlineWrap`
the greatest word, too, whose load waits for nothing (`LoadsWaitExactly`).
`DescribesAddress` asks for the table's order; that a function comes before a
block at its address, as `symbol.h:173` suggests, is `FunctionsBeforeBlocks`,
which `MCSymbolOrder` refutes: the sort is by address and then by ascending
size.

All runs but those in which the system may stop check deadlock, too.  It may
stop in `MCPipeline` (halted), `MCInstructions` and `MCSymbolOrder` (an exit, or
a program assembled), `MCDevices` and `MCDeadlineWrap` (the end of a bounded
history), and `MCLoadUse`.

## Fairness

`simulator_t::run` has no way to stop between two cycles: it calls every stage
and every tick until the program halts or an exception ends it.  This is
`WF_vars(StackNext)` in `MCDevices`, and `[]<><<AnyNext>>_all`, the same for a
step that is always possible, in `MCMemoryKinds`.  Nothing is assumed there of
single actions: in `StackCache`, that memory answers is part of the state
(`wait` counts down); in `MainMemory` and `RamulatorMemory`, that it does is
what `MemoryAnswers` checks.

In `Pipeline`, caches and memory are open, so its part of `MCMemoryKinds` assumes
what the others show: a fetch and an access are answered in the end (two `SF`);
a halted program goes on resting.
`InterruptsTaken` has a condition on the program besides: an interrupt is only
taken outside delay slots, so a program of transfers alone can keep it waiting
for ever.

## Proofs

`StackCacheProofs` proves for `Kind = "block"`, programs of enabled
instructions (`BlockProgram`, which `MCStackPredicated` shows to be needed),
and all sizes, addresses, values and latencies: `BlockTypeOK`,
`BlockWithinCapacity`, `BlockPointersMatchContent`, `BlockTransferFitsBuffer`.
None of these is inductive: capacity needs that the content is the difference
of the pointers, that needs what the operands of the instruction in MW are
between its EX and the end of its transfer, and that needs that repeated EX
calls compute the same.  The invariant `IInv` therefore has a part for each:
`MWInv` (what the instruction in MW still has to do to reach its pointers),
`EXInv` (the instruction in EX was decoded from the registers it will change),
`ContentInv` (the length of the content before, in and after a transfer),
`BufferInv` (the buffer during a spill), and `TurnInv` (which stage has run in
this cycle).  There is one lemma per action.

`BlockRefinesStack` proves, under the same hypothesis, that the block cache
implements `ProgramStack`: a program that loads and stores relative to the top
of the stack finds its words, wherever they are at that moment.  `StackInv`
adds to `IInv` that the words promised to the program lie above the top and that
the buffer is empty unless a spill is under way.  A word of the stack is in the
content, in the buffer of a spill, or in memory; `Seen` is the one the program
would find there, and each lemma `...Keeps` compares it before and after one
action.

The same lemmas serve the lazy cache (`Kind = "lblock"`), for programs in which
no stack control instruction directly follows another (`LazyProgram`, which
`MCStackLazyAdjacent` shows to be needed), `sspill` included:
`LazyWithinCapacity`, `LazyPointersMatchContent`, `LazyTransferFitsBuffer`,
`LazyKeepsCoherent` and `LazyRefinesStack`.  Its reserve discards words that it
takes to be in memory already: EX decides how many and what the lazy pointer
will be afterwards, and MW carries out both one stage later.
`LazyInv` therefore relates the two stages: `HandOver` says that the number of
words to discard is that of the reserve in EX or in MW and that the next lazy
pointer belongs to the instruction in MW, and `EvictsCoherent` that all words to
be discarded lie above the lazy pointer and that the pointer to come claims only
words that stay and were claimed before.  `CoherentInv`, the words above the
lazy pointer are in memory, is then preserved together with `StackInv`: each of
the two needs the other.  For the block cache both are trivial, which is why
one set of lemmas is enough (`BlockCache`).

They serve the aligned cache (`Kind = "ablock"`), too: `AlignedWithinCapacity`,
`AlignedPointersMatchContent`, `AlignedTransferFitsBuffer` and
`AlignedRefinesStack`.  `AlignedProgram` states what they need: no `sspill` and
sizes that leave room for the words rounding adds to a reserve
(`MaxSize + TransferWords <= NumBlocks + 1`), without which it is no stack (see
above); and a stack region whose ends are multiples of the transfer block.
The invariant says in addition that every spill pointer is a multiple of the
transfer block.  From that follow, by lemmas about remainders
(`AlignedReserveRange`, `AlignedFreeRange`, `AlignedEnsureRange`), that rounding a
transfer up never leaves the stack region, never spills more than the cache holds
and never exceeds the capacity.  A free above the spill pointer drops the
content and reads one block, in several calls: until the block has come the content
is empty though the pointers are not, so `ContentInv` tells that phase apart, and
`FreeWithFillKeeps` compares what the program finds before, between and after.

`DirectStackProofs` proves `IdealRefinesStack`, `ProxyRefinesStack`, `DirectTypeOK`
and `DirectAccessServed` for the two caches without a capacity of their own, for
programs of enabled instructions that keep the rules the block caches enforce
(`Issuable`).  Their invariant `DirectInv` has the pointers (`FrameInv`: EX
prepares each instruction from the pointers the one in MW will leave, and the
repeated calls of a stall prepare the same) and the words.  The ideal cache keeps
spilled words in its content while it writes them to memory, so `IdealWords` says
that every word promised at or above the spill pointer is in memory; an ensure
that overwrites part of the content with memory then changes nothing the program
could see.  The proxy keeps no words, but the top: `ProxyWords` says that the one
it noted in MW is the program's as long as there is a word to access.

`MainMemoryProofs` proves, for every memory, program, burst size and latency,
`MemoryTypeOK` and `MemoryFinishedIsFirst` (the assertion in `read` and
`write`, which release builds compile out) with any number of posted writes;
and with `--posted=0` also `MemoryNoOrphans` (no request outlives its
requester) and `MemoryRefinesProgramMemory` (main memory implements
`ProgramMemory`).  The first two rest on `QueueIInv`: the requests of the
queue differ in address, size or direction, so that a request that is erased
is the one that was found.  The other two rest on `OrphanIInv`: every request
is wanted by a stage that still waits, and an instruction moves on only when
nobody waits for it.  The refinement then has one lemma per stage of the
cycle: an answer changes the abstract memory, everything else is a stutter.

The times need more.  `MemoryNoOverlap` rests on `SlotIInv`: a finished request
is taken in the same cycle, and a transfer is that of the first request and lies
within `TicksPerBurst + ReadDelay` cycles of the beginning of the slot, fewer than a
round has (the constructor of `tdm_memory_t` checks that).  `MemoryAnsweredOnTime`
says that an access is answered in the cycle the README of the simulator gives,
neither before nor after, under `ReadmeApplies`: no posted writes; data apart from
the code (`CodeApart`), since else a load may be given the request of the fetch
(`ApartAnsweredOnTime` leaves those programs out); and, for variable bursts, pages
that hold whole bursts and an address space within `unsigned`, since else the subtraction in
`get_transfer_ticks` wraps.  The README counts sets of bursts, words and pages,
the code divides: `TransferCounted` shows that both come to the same.  The invariant
`DueInv` compares the history with the queue: what a port's clock shows is
`LeftAt`, the time that the ticks or rounds before its request's end will take
from this cycle of the round, and `TimePasses` shows that each cycle takes one
off: before the slot, at its beginning, in a transfer and at its response.

`DataCacheProofs` proves, for every combination of caches, every geometry
(`CacheAssumption`: sizes above 0, accesses within a block, which
`get_block_address` asserts; `MCInstructions` evaluates it for its instance), every
program and every order of answers, `CacheHoldsMostRecent` and
`CacheRefinesProgramMemory`.  That a resident block was passed by fewer than
`Associativity` blocks is not inductive: it does not say which.  `SetInv` does,
for the tags of one index: the blocks that passed a resident one are exactly
those before it, and one that is absent has not been used since a flush, or was
passed by all of a full set.  `ShiftKeepsSet` shows that moving the tags keeps
this, for a hit, a free place and a tag thrown out; `ResidentIsRecent` turns it
into cardinalities.  The refinement needs only `PipeInv`: an instruction moves on
when neither stage waits.

`MethodCacheProofs` proves, for both policies, every table of methods, every
program, and all sizes (`MethodCacheAssumption`, evaluated by `MCDevices`),
`CodeWithinLimits`, `CodeResidentAreLatest`, `CodeFollowsPipeline` and
`CodeEvictsAsFewAsNeeded`.  Limits are about the sum of the blocks of the
entries, order about a history of all loads, and either changes by several
entries at once.  `CodeIInv` has three cases: `Idle`, `Loading` between a miss
and the end of the transfer, when the entry is already in the table and its blocks
are counted, and the refused method; `Table` is what all of them have in
common: entries of distinct methods, blocks that add up, and the table as a
suffix of `order`.  The sums are folds, which the library defines with a
recursive function that `CHOOSE` has to find; `FoldExists` and `SumsExist` show by
well-founded induction over a set of counterexamples that there is one, and
`BlocksOfConcat` that a table's blocks are those of its parts.
`AllocateLoads` then follows `lru_method_cache_t::load_method` through the
eviction loop, and `AllocateKeepsMost` shows that one entry fewer thrown out
would have left too little room.

The pipeline's theorems (`PipeAlways` stands for all steps, the others follow
from it) hold for every address space, all sets of methods and branches, all
programs and any pattern of misses, stalls and interrupts:
`PipelineRefines`, `PipelineStatus` and `PipelineFlushes`.  The hypothesis `Sound`
is what all runs have too: a return to 0 has no delay slots and nothing branches
to 0 (`~ HaltingSlots`; the code halts at once in MW, `instructions.h:2603`, so
slots of a return are thrown out, and the third slot of a branch is lost if its
fetch has missed), and no program has both traps and stores
to Status (a stalled `trap` shifts Status more than once, after which nothing is
known about the mode a store finds).  `PipelineAssumption` asks that Status has
room for the modes of `MaxNesting` handlers: the code shifts the oldest out
without notice.

That the pipeline executes the program in order says nothing of what is in its
stages, so the invariant does.  `ChainInv` is its heart: take the machine as the
program sees it, apply the instruction in MW, then the one in EX, then the one
in DR; each must fit the machine before it (`Fits`: its address is the next
one, it is no transfer if slots are left, and so on), or be in the shadow of a
transfer that will throw it out, and then it is harmless (`Doomed`).  The other
parts tie the registers to that chain: `NextPCInv` and `AddrInv` the program
counters, also the one a `call` keeps in a stage it has just flushed;
`RegsInv` BASE and the return registers, which change in MW while the program
sees the change three slots later (`EventualBase`, `EventualLink`);
`ReadyInv` the destinations read in EX; `DelayInv` the two counters that keep
interrupts out of delay slots, and bubbles behind them; `FlushInv` what has
already been thrown out; `HaltInv` the end; `UnitInv` Status, which trails the
modes by what is under way.  There is one lemma per step; the actions of MW are
first shown to be instances of one predicate, `Executing`, and each part of the
invariant is proved for that.  The encoding of modes is a fold over a sequence;
`EncodedPushed` and `EncodedSplit` find its value by induction over sets, as in
`MethodCacheProofs`.

`DatapathProofs` proves, for every width, number of registers and predicates,
size of memory, set of programs and pattern of stalls, that the registers in the
pipeline mean what the program says.  `BundlesAssumption` asks only that bundles
are made of registers, predicates and operations that there are, which is what
the decoder's fields allow.  `DatapathExecutesBundles` needs no more: a cycle
either changes nothing the program sees or has exactly the meaning of the bundle
that leaves EX.  `DatapathRefinesBundles`, that `Datapath` implements
`BundleSemantics`, and `DatapathRefusesLoadUse` assume `ChecksExact`, that no
predicate is written in the bundle of a load or the one behind it and that no
load of slot 1 is needed at once: elsewhere `run` misjudges loads, as the finding
of `MCLoadUse` shows.  The invariant (`Running`, while no exception has been
raised) has five parts.  `OperandsInv`: what EX has read, seen through the
by-passes of MW, is what the machine has.  `ResultsInv`: MW holds the results and
late effects of the machine's last bundle.  `FilesInv` says what the register
files lack: a register that a by-pass will still write may hold anything, an
access that memory has not answered is missing, and predicates and special
registers are either the machine's or already those of the bundle in EX, because
EX writes them in every cycle of a stall; `PrrWrittenAgain` and `SprWrittenAgain`
show that this is harmless.  `TypesInv` and `LoadsInv` carry the assumptions on
programs along the stages.  `EXComputes`, `EXWritten`, `MWGpr`, `MWMemory` and
`DRReads` say what the stages do under the invariant, and `CycleComesTo` splits a
cycle into stall, move and exception.

`DramProofs` proves about the DRAMs, for every number of ranks, bank groups,
banks, rows and columns, all sizes of the queues, every program of requests and
however refreshes fall between them, `CommandsKeepTimes`: every command issued
keeps every time of the standard to all commands before it (`CommandsKeepApart`).
`MemoryOK` is what it assumes: a channel has at least one level of nodes, a standard's
entries are between its commands and within its longest time, its rows are opened and
closed by the commands that are needed for that, bursts are numbers.
`MCDram` evaluates it for its four DRAMs (`DramsAreOK`).  A node does not keep
the commands, but a countdown for every command and the last few times of each, so
the property is about a history the code has forgotten.  `IInv` says what is left of
it: `WaitsCover`, that the countdown of a node covers every entry, from
whichever commands in `issued` the entry is counted; and `PastCovers`, that the
k-th time a node remembers is not longer ago than the k-th of any k such
commands.  `IssueWaits` and `IssuePast` follow `update_timing` through the nodes
of the address and those beside them, windows of four commands included;
`IssueApart` finds that the command just issued is apart; `AgeWaits`, `AgePast`
and `AgePairs` let a cycle pass.  `QueuesOK` and `AdapterOK` make sure that what
is issued has an address of the channel: `AccessWay` and `RefreshWay` show it for
the head that `Scheduler` picks and for the refreshes.

`DataNeverCollides` derives `DataBusFree` from `PairsApart`, the same for every
two commands issued so far, under `SpacesData`: the times between reads and writes
that keep data apart.  That the standards are as both assume is
proved, too, from their tables and for any speed: `OfferedKeepTimes` and
`OfferedNeverCollide`.  For DDR3 and DDR4 the latter needs a burst of at most the
distance of column commands and two cycles (`nBL <= nCCD + 2`), for their table
spaces a write from a read before it in the same rank by that distance, not by the burst;
the speeds in `DDR3.h` and `DDR4.h` have equal values.

What requests and rows are accounted for is proved in the parts of
`DramAccountsExact`.  `RowsAreTabled`: the table of the scheduler has the open rows;
a bank opens only while closed (`Chosen`), an access closes the row of its bank, a
refresh those of its rank, the table following at the same level (`CloseRows`).
`ServedAreCounted`: the count of requests in service is that of the places of the queues
a command was issued for and of the reads that come (`ServingCounted`); `PlaceDropped`
moves the places behind one that is taken, `TickServes` goes through what the scheduler
may choose.  `ReadsAreAccounted` (`OneAsks`: one port, that never asks for burst 0, as
both meet assertions): the record is that of what the port repeats (`RecordInv`), the
reads in the controller are its bursts enqueued and not done (`ReadsInv`).

Only model-checked: that no rank of a DRAM waits for two refreshes (in
`DramAccountsExact`; it needs an interval long enough for what a refresh waits for, which
no constant bounds), that pending interrupts are taken, the devices, and everything that is
a law over inputs.
Liveness under fairness is out of the prover's reach.

## What the models showed besides

The seven findings are in `PROJECT.json`.  The following were met while
modelling; the models follow the code.

- Stack caches and memory.  The ramulator memory never completes a read of the
  first burst of memory (a start of 0 means that nothing is pending,
  `memory.cc:706`), `is_ready` is true while bursts are outstanding
  (`memory.cc:856`), the range check of `done_callback` includes the end, and
  two ports asking at once meet the assertion at `memory.cc:742`; the DRAM runs
  have one port and skip burst 0.  Requests of posted writes are not erased
  (`memory.cc:321`).
- Pipeline.  A stalled `trap` shifts Status in every cycle (`excunit.cc:102`); a
  store to Status that is under way while an interrupt is taken overwrites the
  shifted word (`excunit.cc:174`), so the modelled programs write Status with
  interrupts disabled.
- Caches.  A cache size of 0 wraps to the whole address space (`pasim.cc:149`),
  rounded up to lines: 178956971 of them for lines of 24 bytes, which no even
  associativity divides, so that the LRU caches stop at `data-cache.cc:73`;
  that associativity divides the number of blocks is only asserted.
- MMU.  Only the first address of an access is checked (`memory-map.cc:155`), so
  the modelled segments end on whole words; a mapping that changes while a
  fetch waits leaves its request behind (`memory.cc:227`).
- Devices.  Below 1 MHz the RTC skips microseconds; `uart.h:63` says that a terminal disables the
  signalling of the end of input, which is set nevertheless; `ethmac_t` never
  stores the length of a received frame.
- Calls.  Recursion across a reset of the profile makes its depth negative; the
  entry function as the target of `--print-stats` is never printed;
  `symbol_map_t::contains` searches with size 0, so functions with a size are
  not found and the profile prints their addresses (`symbol.h:142` says
  otherwise).
- Options.  Sizes that are multiples of 1 GB are printed as `v >> 10` with the
  unit g; in a build with ramulator, `pasim.cc:519` parses the kind of memory
  and drops it; an unknown symbol as the value of an address option is
  0xffffffff.
- Encodings.  `stci` accepts 22 bits and asserts 18; `brnd` to a label gets an
  absolute relocation; the assembler's `rtr`, `rfp` and `rsp` are r29, r30 and
  r31 where `registers.h` has r27, r28 and r29; relocations are cut without a
  message; the decoder lists one more bundle behind a last one of two words.

## Not modelled

- Statistics, printing, traces, and the accesses of the debugger.
- Stack caches: accesses of less than a word, `mts` to ss or st while the
  program runs.
- Method caches: the ideal method cache, which holds everything, and
  utilisation.
- Ramulator: the standards and policies `pasim` does not offer, power down, the
  trace-driven front end (`Processor`, `Cache`, `Main`), the choice of the
  configuration.
- Assembler: the lexer, directives (`.word` among them), the syntax of operands; decoder: its lookup
  table, which is an optimisation of the loop that is modelled.
- Options: addresses of the devices, the streams of the UART and of traces.
- Debug stack: stack pointers and back traces; profile: least and greatest
  times.
- libelf, the tap device and the operating system's terminal are modelled only
  by what the simulator uses of them.

What would come next: `MethodCache` composed with `MainMemory`.
