# Verification of fakecc

fakecc is a C compiler that compiles itself, with its own assembler, linker and
a freestanding runtime that its programs are linked with. This directory holds
TLA+ models of the parts of it that keep state over several steps, of one actor
or of several, or whose steps must agree with each other: the heap, the threads
and the streams of the runtime; the package loader, the compile cache, the
optimiser, register allocation with the arm64 code generator, and the ELF linker
of the compiler. TLC checks them on small instances; TLAPS proves the most
important properties for every value of the constants.

Paths below are those of the repository, `src/pkg.c` for instance.

| Part | Modules | Run | Theorems |
|---|---|---|---|
| Runtime heap | `Heap`, `Malloc` | `malloc` | `MallocProofs` |
| Linux threads | `ThreadsLinux` | `threads_linux`, `threads_linux_join` | `ThreadsLinuxProofs` |
| Windows threads | `ThreadsWindows` | `threads_windows` | `ThreadsWindowsProofs` |
| Runtime streams | `ByteFile`, `Streams` | `streams` | `StreamsProofs` |
| Package loader | `PkgLoader` | `pkg_loader` | `PkgLoaderProofs` |
| Runtime compile cache | `RtCompile`, `RtCache` | `rt_cache` | `RtCacheProofs` |
| Optimiser | `IR`, `ControlFlow`, `Dominators`, `Phis`, `Mem2Reg`, `ScalarOpt`, `IRRun`, `Optimiser` | `optimiser` | `CompilerProofs`, up to the renaming (see [below](#only-model-checked)) |
| Registers and arm64 code | `Registers`, `CodeGen`, `Colouring`, `RegAlloc`, `SpillCosts`, `Backend` | `backend`, `backend_table` | `CompilerProofs` |
| ELF linker | `Linker` | `linker`, `linker_static` | `LinkerProofs` |

To check a run: `tlc -config <cfg> <module>`, with the pairs of `PROJECT.json`.
To check the proofs of a module: `tlapm <module>.tla`.

# 1. The system

## 1.1 The compiler

A compile is one process, one thread and one pass over a pipeline:

    sources -> lexer -> parser -> sema -> IR -> optimiser -> code generator -> modules -> linker -> file
                          |  ^                                                   ^
                          v  |                                                   |
                     package loader                                   runtime compile cache

| Component | State it keeps | Operations | What makes it correct |
|---|---|---|---|
| Lexer (`lexer.c`) | position, tokens | `lex` | every token list ends in the end-of-file token |
| Parser, tree (`parser.c`, `ast.c`) | token cursor, scopes | `parse_in_pkg` and one function per rule | a tree, or an error; loops end |
| Package loader (`pkg.c`) | packages, those being loaded, exports | `pkg_load`, `pkg_register_tus` | each package once, dependencies first, cycles refused |
| Errors (`common.c`) | first error and its place, global | `die_at`, `fakecc_clear_error` | an error fails the compile |
| Sema (`sema.c`) | symbol tables | one function per construct | types of C |
| IR (`ir.c`) | functions of instructions over values and slots | one function per construct | each variable in a slot, debug variables listed |
| Graph and dominators (`cfg.c`, `domtree.c`) | blocks, edges, order, dominators, frontiers | `cfg_build`, `cfg_rpo`, `domtree_build` | the textbook's definitions |
| Promotion (`mem2reg.c`) | stacks of values, phis, markers | `opt_mem2reg` | the code means what it did |
| Cleanup (`scalar_opt.c`) | use counts, numbering | `scalar_cleanup` | the same, and `-g` changes no code |
| Register allocation (`regalloc.c`) | liveness, interference, colours | `regalloc` | values live at once in different registers; none in a register a call clobbers |
| Code generators (`codegen.c`, `cg64.c`, `a64.c`) | text, fixups | one case per instruction | the machine code means the IR |
| Assemblers (`iasm.c`, `as_s.c`, `as_nasm.c`) | labels, text | per instruction | encodings |
| Modules (`emit.c`) | sections, symbols, relocations | `emit_obj`, `emit_obj_read` | what is read is what was written |
| Debug info (`debug.c`) | line table, variables | `debug_*` | describes the code that was made |
| Linkers (`link.c`, `link_kernel.c`, `macho.c`, `pe.c`, `coff.c`, `arcoff.c`, `ldscript.c`) | symbols, layout, archive members taken | `emit_link` and one per format | every reference to its definition |
| Driver (`main.c`) | options, roots of packages, cache directory | `main`, `rt_cache_*` | phases in order; the cache does not show |
| Library (`compiler.c`) | none but the globals of the rest | `fakecc_compile_string_to_*` | calls do not influence each other |

Components call each other downwards. What breaks that order, and where the
interesting behaviour is:

- the parser calls the loader for each import and the loader the parser for each
  file of a package, so that loading is a recursion over a graph the user wrote;
- the error state is global, and both `lex` and `parse_in_pkg` clear it on entry,
  in the middle of that recursion;
- compiles share the directory of the cache with each other, and the sources
  with an editor;
- the optimiser's output and its debug markers are read in the order of the
  code, while they are made in the order of the dominator tree.

## 1.2 The runtime

The runtime's sources (`runtime/*.c`) are compiled with the user's and linked
with them.

| Component | State it keeps | Operations | What makes it correct |
|---|---|---|---|
| Heap (`malloc.c`) | address-ordered free list, a header per chunk | `malloc`, `free`, `calloc`, `realloc` | nobody's block overlaps another's; nothing is lost |
| Linux threads (`thread_linux.c`) | a descriptor at the bottom of each stack | `pthread_create`, `_join`, `_exit`, `_self` | memory outlives the thread; joins return its value |
| Windows threads (`thread_windows.c`) | a table of descriptors, handles | the same | the same, and the table under concurrent calls |
| Darwin threads (`thread_darwin.c`) | none | wrappers of libSystem | forwards |
| Streams (`stdio.c`) | buffer, pushed-back bytes, flags; the open files | `fopen`, `fwrite`, `fflush`, `fread`, `ungetc`, `fseek`, `fclose` | each byte once, in order |
| Sanitizer (`sanitizer.c`) | shadow memory | `__asan_*` | a bad access is reported |
| Pure functions (`printf.c`, `string.c`, `stdlib*.c`, `decimal.c`, `int128.c`, ...) | almost none | one each | C's library |

## 1.3 What is hard in it

Concurrency: threads against the kernel's exit path on one futex word, and against
each other in a table without a lock; compiles against each other and against an
editor in one directory. Ordering: phis become copies one after the other, and so
do the parameters and the arguments of a call, which may form cycles; free merges
to the right and then to the left; a package must be visible to cyclic imports and
invisible to everyone else until it is complete; the linker hands out slots in
phases that each guess what a later one will find. Failure: a map or clone that
fails half-way, a write that is short and then fails, a package with one bad file of
several, a compile killed between two system calls, a full disk. Limits: `size_t`
sums at the top of the range, splitting a chunk that barely has room, tables of
open files and of threads that are full. `PROJECT.json` lists them, each at its
line, with the properties that cover them.

# 2. The models

## 2.1 Heap

`Heap` is what a program may rely on: a set of disjoint, aligned blocks, and a call
that adds, removes, resizes or moves one of them. `Malloc` is `runtime/malloc.c`.

| Model | Code |
|---|---|
| `heap.hdr` | the `struct chunk` headers in memory, by address; writing a payload or a header over one destroys it (`Overwrite`, `Store`) |
| `heap.free` | the list from `freelist_head`, in the order of `next` |
| `heap.regions` | the mmaps |
| `live` | what the program holds (no variable of the code) |
| `Malloc(n)`, `MallocFails(n)` | one call of `malloc`, search, growth, split and zeroing included |
| `Calloc`, `Free`, `ReallocInPlace`, `ReallocMoves` | one call each |
| `InsertAt`, `Coalesced`, `Splits`, `align16`, `RegionSize`, `heap_grow` | the helpers of the same name or task, with `size_t` arithmetic modulo `Word` |

A call is one step because the code has no lock and the model no second thread:
the list (`malloc.c:82`) is plain memory, no document promises a heap for several
threads, and the thread code itself does not allocate from it. A second thread that
allocates corrupts the list, and no model is needed to see how. The program frees
and resizes only what it holds; a second `free` of one pointer is left out, see
[5](#5-what-the-checks-found).

The instance has five pages of four addresses, headers and alignment of two, a
smallest region of eight and a 64-value `size_t`. A region has room for two
chunks, so that chunks are split, merge on both sides and touch across regions;
58 is a request that only wrap-around could satisfy, and with it every comparison
in `align16`, `heap_grow` and `calloc` goes both ways.

## 2.2 Linux threads

`ThreadsLinux` interleaves every load and store of `runtime/thread_linux.c` that
another thread or the kernel can see.

| Model | Code |
|---|---|
| a slot | an address where a stack, with the descriptor at its bottom, may be mapped; mapped again after it was unmapped |
| `tid`, `retval`, `done`, `magic` | the fields of `struct __fakecc_thread` |
| `stacks`, `blocks` | mapped stacks and TLS blocks |
| `wakes` | thread exits between the kernel's clearing of `tid` and its wake |
| `handles`, `returned`, `got` | what the program holds, what threads returned, what joins delivered (no variables of the code) |
| `MapStack`, `MapTls`, `Clone` and their failures | `pthread_create` |
| `Trampoline`, `Return`, `Done`, `Exit` | `__fakecc_thread_trampoline`, `pthread_exit`, the exit system call |
| `Join`, `Check`, `Load`, `Wait`, `Collect`, `UnmapStack`, `UnmapTls` | `pthread_join`, the two loads of `t->tid` separate |
| `ClearTid`, `WakeJoiner`, `Interrupt` | Linux: CLEARTID, the wake at exit, a signal |

`MayJoin` says who may join whom; a thread is joined once, as the code requires.
Two slots and three creations make a slot's address used twice, which is what the
stale wake and the early unmap need. Fairness is weak and per actor: a thread that
can run does, the kernel ends exits and delivers wakes, start routines return.
Nothing obliges a program to create or join, and no signal has to come.

## 2.3 Windows threads

`ThreadsWindows` is `runtime/thread_windows.c`. Where the Linux code relies on one
futex word, this one has a table of all threads, a flag `joined` and the kernel's
handle, none of them locked.

| Model | Code |
|---|---|
| a slot | an address `VirtualAlloc` may return for a descriptor |
| `table`, `at` | `__fakecc_threads` and the entry a search has reached |
| `joined`, `handle`, `retval` | the descriptor's fields |
| `open` | the kernel handles not yet closed |
| `Alloc`, `Search`, `Claim`, `StartThread`, `StartFails`, `Store`, `Discard` | `pthread_create` and `__fakecc_track_thread`; testing an entry and filling it are two steps |
| `FindEntry`, `ClearEntry` | `__fakecc_untrack_thread` |
| `Trampoline`, `Return`, `SetRetval`, `Exit` | `__fakecc_win_thread_trampoline`, `pthread_exit` |
| `Join`, `Tracked`, `Check`, `Mark`, `ReadHandle`, `Wait`, `Close`, `Collect`, `Free` | `pthread_join`, with the test of `joined` apart from its setting |
| `windows` | which races the run has met (no variable of the code) |

The code keeps its promises unless one of four things happens, and `windows`
records them as they do: `overlap`, two creations search the table at once; `early`,
a thread is joined, by the handle it got from `pthread_self` and passed on, before
its creator stored the kernel's handle; `contended`, two threads join one; `stale`,
an old handle is being joined when its address is allocated again. Each property
names those that break it. So `threads_windows` says two things: which races are
dangerous, and that nothing else is, full tables and failing `CreateThread` included.
The table has two entries for three threads, and a thread creates and joins beside
main. Fairness is as for Linux, but `Return` needs it to be strong: a start routine
that goes on creating and joining is between calls again and again.

## 2.4 Runtime streams

`ByteFile` is what C promises of a stream: a position in a file, and bytes pushed
back in front of it; what is written is in the file at once. `Streams` is the
buffered streams of `runtime/stdio.c` with `exit`, over the kernel's descriptors.

| Model | Code |
|---|---|
| `file` | the `FILE` objects: descriptor, writable, buffer, pushed-back bytes |
| `closed` | `_rt_stdout` and `_rt_stderr` after `fclose`, which does not free them |
| `tracked` | `open_files[0 .. open_files_n)` |
| `kernel` | open descriptors with their offsets and modes, and the files' bytes |
| `damaged`, `errors`, `result` | history and answer of the calls (no variables of the code) |
| `Fputc`, `Fflush`, `FflushAll`, `Fread`, `Ungetc`, `Fseek`, `Ftell`, `Fopen`, `Freopen`, `Fclose`, `Exit` | one call each; `puts`, `fputs` and `fwrite` are `fputc` repeated |
| `Flush` | `fflush` of one stream: its `write`s pass any number of the bytes before one fails |

A program uses one stream at a time for one file, flushes or seeks between writing
and reading, and does not use a stream it closed: C leaves the rest open. A call that
meets an output error may damage the file it writes to, and `ByteFile` says that no
other file suffers. A seek may go past the end of a file; a later write fills the
hole with `Zero`. A seek that fails moves nothing and still drops the bytes pushed
back.

The instance has buffers of two bytes, one pushed-back byte, a table of one entry
for two opened streams, descriptors that are used again, and one call that fails.
Nothing is written to `Stderr`, the second file is not closed by `fclose` and only
the first is read and sought in: another stream for these adds states and no case.
The view leaves out the result of the last call, which no call depends on.

## 2.5 Package loader

`PkgLoader` is the recursion of `pkg_load` and `parse_in_pkg`, with what `main`
does before and after it.

| Model | Code |
|---|---|
| `frames` | the C stack: one entry per file being parsed, with its next import |
| `loading`, `pkgs`, `owned` | `ctx->loading`, `ctx->pkgs`, `owns_files` |
| `exported` | the packages whose exports are built, in that order |
| `err` | `g_err_code != FAKECC_OK`, set by `die_at`, cleared by `lex` and `parse_in_pkg` |
| `reported`, `abandoned` | something was printed; some call returned without `loading_pop` (history) |
| `pkg_load` and its four cases | the cycle check, the cache, no directory, loading it |
| `OpenFile`, `Import`, `ImportTwice`, `FileEnds`, `Spin` | `parse_in_pkg` and the parser's import and declaration loops |
| `Misnamed`, `PkgFileDone`, `PkgDone` | the loop over a package's files |
| `Preload`, `LexInputs`, `InputDone`, `InputFails` | the driver |

A file is what the loader can tell about it: the package it declares, its imports
in order, whether it lexes and whether it parses. A file that does not lex has no
end-of-file token; its parse may then fail, as reading past the tokens finds
nothing sensible, or spin.

`MCPrograms` has some 8,000 programs: two packages with up to two files each, of
which any may be misnamed, nameless, not lex or not parse; and all import graphs
over two packages, the runtime and an input, with import lists of up to two. So
cycles are of one, two or three packages; a fourth adds no case to a check that
compares with every entry of a list. The specification is fair: the compiler is one process that runs.

## 2.6 Runtime compile cache

`RtCompile` says what is linked without a cache: each runtime module, lowered
from the compiler and the sources that were read, with this compile's options.
`RtCache` extends it with the directory of `src/main.c` and with `emit_obj` and
`emit_obj_read` of `src/emit.c`, as far as a short file matters.

| Model | Code |
|---|---|
| `disk` | the compiler's binary (0) and the runtime's sources, which an editor changes |
| `found` | the runtime that was parsed: the builtin one or one of `FAKECC_PKG` |
| `captured`, `key` | what was parsed, and what was hashed after it |
| `cache` | files by directory (options and key) and module, with what they were lowered from |
| `Parse`, `Hash`, `CacheOff` | the preload, `rt_cache_key`, the ways in which it returns no key |
| `Hit`, `Miss`, `Write`, `Publish`, `Finish` | phase 3, one module after the other |
| `EditInput`, `Killed` | an editor; the process ends between two steps |

The hash is taken to be injective, and scratch names to be distinct between
processes, which `tmpnam` makes them on one machine.

Four constants name the conditions of the properties. `Quiet`: no edit while a
compile reads. `Own = {}`: no other runtime on the package path. `~DiskMayFill`:
writes are not cut short. `Writable`: the directory can be made. `rt_cache` checks
everything under all four, and section [5](#5-what-the-checks-found) says what
happens without each. Two
compiles suffice for one to publish while the other reads, two modules for a
compile that is killed half-way; one module has three contents, one unreadable.

## 2.7 Optimiser

`IR` is the instructions of `include/fakecc/ir.h`, `ControlFlow` is `src/cfg.c` but for
the numbering, `Dominators` is that and `src/domtree.c`, `Phis` and `Mem2Reg` are
`src/mem2reg.c`, `ScalarOpt` the part of `src/scalar_opt.c` that is not about
arithmetic, with the order of the passes from `src/opt.c`; `IRRun` is what the
instructions mean. `Optimiser` puts them to work: a function is optimised, and then the
code before and the code after run side by side, on the same results of calls.

`Dominators` and `Phis` are state machines, a step being a turn of a loop, since their
loops go round until nothing changes. The rest are operators, one per function of the code.

| Model | Code |
|---|---|
| `flowGraph` | the `CFG` of `cfg_build` |
| `dfs` | `visited`, `stack_blocks` and `postorder` of `cfg_rpo`; `stack_next` is left out, as a successor that was seen stays seen |
| `tree` | `idom` and `df` of the `DomTree` |
| `turn` | the locals of `domtree_build`: `bi`, `i`, `f1` and `f2` or `runner`, `changed` |
| `Build` | the start of `domtree_build`, with the entry its own parent |
| `Visit`, `Numbered` | a turn of the loop of `cfg_rpo`, and its end |
| `Skip`, `FirstGuess`, `MeetPred`, `Climb`, `SetIdom` | a block without a processed predecessor; the first that is; each of them after it; a finger going up; the parent stored |
| `PassAgain`, `Settled` | the loop over `changed`, and its end |
| `NextRunner`, `RunUp`, `RunOver`, `Built` | the loops over the frontiers |
| `placement` | `alloca_slots`, `block_stores`, `ai`, `wl`, `is_def` and the phis of `mem2reg_place_phis` |
| `PlacePhis`, `Seed`, `PlaceInFrontier`, `NextSlot`, `AllPlaced` | its loops; one step takes a block from the worklist and goes through its frontier |
| `StartPromotion`, `PreparePromotion` | the first half of `opt_mem2reg`, up to its third part |
| `Optimise` | the rest of it (`OptMem2Reg`) and of `opt` |
| `SourceStep`, `TargetStep` | one instruction that nobody can observe |
| `CallStep`, `BranchStep`, `JumpStep`, `ReturnStep` | what both runs take at once, and where what they read must agree |

The IR keeps the control instructions and those that move values. A call stands
for any computation whose operands and results matter. Widths, signs and floating
point are left out, and with them constant folding and the peephole rules. Functions
with computed gotos have all their variables pinned, as `ir.c:1046` makes them. The entry
blocks of the functions that are run have no predecessors, as in code that begins with a
parameter or a declaration; a function that begins with a label is another matter, see
[5](#5-what-the-checks-found).

`MCFunctions` has 2,699 functions, each a prologue and three blocks: one variable,
set, used or left uninitialised in each block, under branches, loops and falls
through; loops with two entries, through a branch and through a table; two
variables that trade values around a loop; and slots that are pinned by size, by
address and by a computed goto among promoted ones. Three blocks are the smallest
number with a loop in which a block has a sibling in the dominator tree, a join
and an exit, and with an irreducible loop. Calls return 0 or 1, which is enough to
take every branch and to tell two values apart. (`Programs` builds the functions
from short descriptions of their blocks.)

## 2.8 Registers and arm64 code

`Registers` has the integer registers of `src/reg_arm64.c`. `RegAlloc` is
`src/regalloc.c` for them up to `greedy_color`: the loop that finds what each block
needs, the walk that bars colours over calls, the loop that spreads them over copies,
the walk that adds the edges, the pairs of parameters, and the lists from which the
order is picked. A step is a turn of one of these loops. `SpillCosts` is what a value
costs to spill. `Colouring` is `greedy_color`, one value a step, with its spills and
evictions. `CodeGen` is what
`emit_function` of `src/cg64.c` makes of a function whose values have homes,
whoever gave them: the IR (`run`) and the machine (`mach`) take each instruction
together. What it relies on is written down as its contract: `WellFormed`,
of the code; `Liveness`, what may be read after each instruction; `Allocated`, that
nothing alive is in a register that an instruction or a call overwrites; and `IndexesHeld`,
that the index of a table branch has a register. That last one is what nothing in
`regalloc.c` provides, see `backend_table` in [5](#5-what-the-checks-found).
`Colouring` has its contract too, `Interferes`: what an instruction sets is a
neighbour of what lives on, parameters are neighbours of each other, and what lives
over a call may not have a colour that the call overwrites. `RegAlloc` in turn relies
on `Prepared`: the code is well formed, the blocks are those of the code (`GraphOf`),
and in a function with a computed goto no block needs a value of another
(`JumpsCarryNothing`), since all its variables are pinned (`ir.c:1046`). The liveness
has to use that: the blocks a computed goto may reach are not among the successors
that `cfg_build` gives it.

`Backend` composes them: `StartPromotion`, `PreparePromotion` and `Compile` are 2.7 and
the costs, then come the steps of `RegAlloc` and `Colouring`, then the code generator's `Run`. `HomesRight`
says at each joint that the next part is given what it relies on: `Prepared` when the
analysis begins, a `Liveness` and the `Interferes` that belongs to it when the
colouring begins, `Allocated` when the generator does.

| Model | Code |
|---|---|
| `ra` | the allocation: a register or a spill slot per value |
| `mach` | registers, spill slots, frame memory, saved registers |
| `moves` | what is left of the parameters or arguments to be moved |
| `graph`, `colouring` | the interference graph with forbidden colours, costs and order; `colors`, `spill_slots` and `next_spill` |
| `cfg`, `flow` | the blocks of `cfg_build`; `in_b` and `changed` of `compute_live_in_out` |
| `walk` | where a loop of `build_interf_graph_cfg` is, with its `live` or `changed` |
| `search` | `head`, `lnk`, `weight` (and `in_bucket`, which equals it) and `max_w` of `compute_mcs_order` |
| `Compile` | `opt` after the phis are placed, and the start of `ra_alloc_class` |
| `FlowThrough`, `FlowAgain`, `FlowDone` | a block of a pass of `compute_live_in_out`, the next pass, the last |
| `BarOverCall`, `Spread`, `SpreadAgain`, `LinkLive`, `LinkParams` | an instruction of pass 1, 1b and 2, a pair of pass 2b |
| `PickNext`, `GainWeight` | a value taken from the lists, a neighbour of it put into another |
| `Colour`, `Coloured` | a turn of the loop of `greedy_color`; the mapping of colours to registers |
| `Enter`, `PlaceParam`, `MoveParam`, `BreakParamCycle`, `FollowParamCycle`, `Entered` | the prologue, and the loop that moves parameters to their homes |
| `BeginCall`, `PassArgument`, `ParkArgument`, `CallStep` | `emit_call`, and its loop over the arguments |
| `LoadOp`, `LoadPtrV`, `Commit`, `Emit`, `EmitBranch`, `Equals` | the helpers of the same task, with the scratch register `x16` |
| `Straight`, `BranchStep`, `JumpStep`, `ReturnStep` | one instruction |

The loops that order moves run in the compiler, and each turn emits a move; one step
of the model is the turn and its move. The compiler is one process that runs, hence
weak fairness of `CompilerLoops`, and `LoopsEnd` says that whoever is in a loop of the
compiler leaves it: those of the generator, of the allocator, and of 2.7.

`MCFunctions` here has 1,169 functions for a palette of five registers, one of them
preserved by calls: six parameters and calls that take four variables in different
orders (so that the moves form cycles and meet spilled values), values that live
around loops and over calls, switches and computed gotos. The allocation of these
operators was compared with that of the compiler itself on some 25 generated
programs while the module was written. The float class is the same code with another
palette; values of 128 bits, clobbers of inline assembly and what only the x86
generator asks for (`addr_fold_extras`) are left out. `coalesce_copies` has no
counterpart: it returns at once (`regalloc.c:1298`).

## 2.9 ELF linker

`Linker` is `emit_link` of `src/link.c` as far as it decides what a reference is bound
to. Each phase is an action, in the order of the code.

| Model | Code |
|---|---|
| `program` | the modules' symbols, numbered through as `mod_sym_base` does, the relocations, the libraries' symbols, `-shared` |
| `commons`, `MergeCommons` | tentative definitions that get storage |
| `plt`, `got`, `tlsSlot`, `copied` and `AssignPlt`, `AssignGot`, `AssignTls`, `AssignCopies` | the four lists of slots |
| `dynamic`, `NeedDynamic` | `need_dynamic` |
| `LookUpCopies` | `so_symbol_lookup` of what was taken for an object |
| `place`, `PlaceSymbols` | `sym_addr` |
| `bound`, `ApplyText`, `ApplyData` | the loops over the relocations of code and of data |
| `FindMain` | the search for `main`, which an executable must have |
| `FindExport`, `External`, `TlsHome`, `TextKeeps`, `DataKeeps` | the helper or condition at that place |

A place is whose storage an address is, not its number. `Meant` is what C and ELF
say of a name, written without the linker's lists: the strong definition, else the
storage of the tentative ones, else the first weak one, else the library's (the System
V ABI: "The link editor honors the common definition and ignores the weak ones").
`Known` names five situations in which `emit_link` does something else (see
[5](#5-what-the-checks-found)); `BindsAsMeant` is about all other references.

`MCPrograms` has every combination of three modules that define a name as static,
global, weak or tentative, or import it, as function, object or thread-local; the
first refers to it in up to two ways and the others in one; with and without a
library that has the name, executable or shared; beside a second name, so that a
wrong slot is a different one. Where only the first module has references, `main` is
also left out, weak or undefined. Three modules are needed for a definition to be
neither the first nor the referring one.

# 3. The runs

| Run | States | What it shows |
|---|---|---|
| `malloc` | 8,009 | The list is sorted, truthfully flagged and merged with its neighbours; chunks never overlap, cover exactly what was mapped and are as long as asked for; and the allocator implements `Heap`, alignment included. |
| `threads_linux` | 29,939 | Stacks, TLS blocks and descriptors stay until everyone is through with them and not longer, failures included; joins deliver the thread's value; a sleeper that saw a live thread wakes. |
| `threads_linux_join` | violation | `pthread_join` may sleep for ever. |
| `threads_windows` | 304,900 | What the table, the descriptors and the handles promise outside the four races, and that every join of an ended thread returns, in any case. |
| `streams` | 146,009 | Streams are not confused with each other, and each file has the bytes written to it, each call the answer it would have without buffers, unless an error was met. |
| `pkg_loader` | 97,591 | `ctx->loading` is the call stack and the cache complete until a package is misnamed; exports follow those of their imports; a clean compile has loaded what is imported and nothing else, and no input failed; if every file lexes, loading ends. |
| `rt_cache` | 1,349,376 | Objects are what their key says, none is linked half-written, and the compiles are those of `RtCompile`. |
| `optimiser` | 1,397,279 | Optimised code does what the source does; dominators and frontiers are those of the definition, and phis are wherever the renaming needs one; `-g` changes no code and markers name the variable's value. |
| `backend` | 502,585 | The optimised code is what the allocator relies on; what it finds to live, the edges and the homes are right, evictions included; every operand is where it is read from, the code takes the branches of the IR, parameters, arguments, results and the caller's registers survive, and the compiler's own loops end. |
| `backend_table` | violation | A switch on a spilled index takes its first case. |
| `linker` | 2,617,730 | References mean what C and ELF say outside the five known situations; a program that defines all its names needs no dynamic linker; the linker gives up for a cause. |
| `linker_static` | violation | A static may be bound to another module's global. |

Most properties of a run are a conjunction of a few named parts that belong
together (`FreeListSound`, `MemoryExact`, `CallsKept`, ...); the parts stand before
them, each with its comment. Every property of a passing run has a mutant, a change
to one mapped definition as a bug in that code would make it, with which TLC finds
the property violated. The mutants stand before the definition they change and are
used nowhere else. `CHECK_DEADLOCK FALSE` is set everywhere: programs stop calling,
compiles end, and the heap can fill up.

Liveness is checked four times: `SleeperWakes` (2.2) and `JoinReturns` of
`ThreadsWindows` (2.3) under fairness of each thread and of the kernel;
`LexedTerminates` (2.5) and `LoopsEnd` (2.8) under that of one process. Nothing
else in the models is obliged to happen.

# 4. The proofs

All theorems hold for every value of the constants that the assumptions
`SizesAssumption`, `ThreadsAssumption`, `PackagesAssumption`,
`ProgramsAssumption`, `RtCompileAssumption`, `RtCacheAssumption`,
`WinThreadsAssumption`, `StreamsAssumption`, `LinkerAssumption` and
`RegistersAssumption` allow; TLC evaluates these for each instance.

**Heap** (`MallocProofs`). `Good(h, L)` is the
invariant: the list is ascending, its chunks and those of `L` are typed, flagged and
pairwise apart, their extents make up the regions. Disjointness alone is not
inductive: merging is right only because the list is sorted and the flags are
truthful, splitting only because the remainder fits. Each helper keeps `Good`
(`CoalescedGood`, `ListedGood`, `ReleasedGood`, `RegionGood`, `TakenGood`); each
call is a composition of helpers, so `HeapGood` follows, and from it `TypeCorrect`,
`FreeListIsSound` and `MemoryIsAccounted` with their parts. `HeadersAligned` adds that
every header in memory, those left behind by merges included, stands at a multiple of
`Align` and records one; it rests on the alignment dividing the sizes the allocator is
built with (last part of `SizesAssumption`: 16 divides 32, 4096, 1 MiB and 2^64), and
on align16 returning a multiple also where it saturates (`BlocksAligned`). It also
proves `NeighboursAreMerged`: in a list that is in address order a chunk that ends
where a free one starts is its predecessor (`NextOnList`), so the two calls of
`coalesce_pair` meet every pair that the freed chunk can form; a split puts the live
half between the rest and what is before it, and a growth can touch a free chunk only
where a region starts, which the property allows. `HeapRefinement` adds that no
call changes the recorded size of another live block (`SameOwed`) and concludes that
each call is a step of `Heap`, `calloc`'s product unwrapped.

**Linux threads** (`ThreadsLinuxProofs`). `IInv` says who may touch a slot: one create or
join at a time works on it and holds its handle; a living thread has `tid` set and
its memory mapped; a joiner past its loop has seen `tid` cleared, so that the
thread has left its stack for good. One lemma per action; `TypeCorrect`,
`MemoryIsExact`, `JoinDelivery` and `NoLostWake` follow, for
any number of threads and any pattern of joins.

**Windows threads** (`ThreadsWindowsProofs`). The invariant has four parts, each under
the races it does without: `TableCore` (who creates a descriptor has it alone, no
descriptor has two entries) as long as no old handle meets a new descriptor;
`DeliveryCore` (past the wait the thread has ended) without early joins; `MemoryCore`
(whatever is worked on is mapped and joinable) without two joins of one thread;
`AccountCore` (a started thread keeps its entry, nothing is left behind) without any of
the four. `windows` only grows (`WindowsGrow`), so what a part needs after a step it had
before it; one lemma per part, one step per action. `TypeCorrect`, `MemoryIsHeld`,
`JoinsDeliver` and `ThreadsAccounted` follow for any number of threads and a table of
any length: the four races are all there is.

**Streams** (`StreamsProofs`). The invariant is what the runs check, `TypeOK` and
`StreamsApart`: streams in use have descriptors and files of their own, so that what
one does is invisible in the files of the others. The work is in the refinement,
whose abstract content of a file is its data with a buffer laid over it. `Follows(m,
r)` says that a flush led from `m` to `r`: the same abstract contents and positions,
but for files it damaged, which it may only with an error or a closed standard
stream's bytes. The heart is `PassedFollows`: the first `j` bytes written at once and
the rest laid over them later are the whole buffer laid over (`OverwriteMore`), in
append mode too. `Follows` is transitive, hence `AllFlushedFollows` for the
loop of `fflush(0)`, by a least round that would break it. Then one lemma per call:
some flushes, and one change which the abstract call makes as well: a stream moved
(`MovesLooks`), a byte added (`AddsLooks`), a stream that comes, goes or is given
another file (`ElsewhereLooks`). `untrack_fopen` keeps the table exact because no
entry is there twice (`UntrackedFacts`). `TypeCorrect`, `StreamsAreApart` and
`StreamsRefine` hold for any number of streams, files, descriptors and errors and
any size of buffers and table, whatever is written, sought or opened. Trying the
proof showed that `ByteFile` had matched a failing `fseek` only because the program
might also have sought by 0; it now says that the position stays.

**Package loader** (`PkgLoaderProofs`). `IInv` ties the three records of progress
together: frames, `loading` and `exported`. While nothing was reported, what a
frame's files have imported so far is exported or further up the stack; that
strengthening makes `DependencyOrder` inductive. `TypeCorrect` includes that no
file is read past a directory's last. `LoaderKnows`
holds until a package is misnamed, and section 5 shows that it must. `OutcomeIsSound`
adds a second invariant, `OInv`: only importers are on the stack and what they push they
import (`EachWanted`); and an input without a name has `err` set and stays on top until
it fails, as with the flag set it imports nothing that could clear it (`Stopped`).

**Compile cache** (`RtCacheProofs`). Each part of `IInv` carries the condition it
needs: what is hashed is what was parsed if nobody edits and no other runtime is
about; nothing is cut short if the disk has room. `KeySound` and `PublishAtomic`
state the properties under those conditions alone (kills and any number of
compiles included), and `Transparent` the refinement of `RtCompile` under all.

**Linker** (`LinkerProofs`). The invariant is that each phase leaves its lists as a
function of the program, written out (`commons` are the names with a tentative
definition and no other, and so on): with it, what a reference is bound to is one
expression over the program, and `LinkedAsMeant`, `StandsAlone` and
`GivesUpForCause` compare it with `Meant` case by case, for any number of modules,
names and references. `ExportFacts` is where the order of the code meets that of ELF:
`FindExport` is the definition that prevails unless weak and tentative ones are all
there are, which is the fifth of the known situations. "The first definition" needs a least element of a set of
naturals, which well-founded induction gives. `LinkerAssumption` says what compiled C
hands the linker: one strong definition per name, thread-locals and functions used as
such, no static through the GOT.

**Code generation** (`CompilerProofs`). The theorems are about `GenSpec`: any function
and any homes that meet the contract of 2.8, for the whole language of the IR of the
model, any palette and any control flow. The invariant follows the liveness the
homes were given for: a value that may still be read is where its home says
(`Awaited`, `Holds`); one lemma per instruction (`SettingKeeps`, `BranchTaken`, ...).
While moves are being made, it says instead where each move that is left finds its
value (`Passing`, `Entering`). What makes the two shuffles right is a count: when
every move waits for another, the registers to be written are among those still to
be read, and as no two parameters (or arguments) are written to one register, they
are the same registers, each read once (`OneToOneIsOnto`). So only cycles are left,
and saving one register in `SCR0` frees a target. In the middle of a cycle of
parameters the targets that are left are the sources that are left and the register
read last (`InCycle`), which makes the choice in `FollowParamCycle` unique.
`OperandsAreIntact`, `TakesTheSamePath` and `CallsAreKept` follow. `BranchTaken` is
where the clause about the index of a table is needed: without it the lemma is
false, as the run `backend_table` shows.

**Colouring** (`CompilerProofs` too) is about `AllocSpec`: any function, any
interference graph that covers its liveness (`Interferes`), any costs and order. The
invariant has, of the values that are coloured so far, that neighbours are apart
(`ColoursApart`), forbidden colours are not used, and each value has a register or a
slot below `next_spill` that no other has (`HomesSoFar`). An eviction keeps it because
the victim is the *only* neighbour with its colour, which is the case the comment of
`greedy_color` is about. From `ColouredIsAllocated`, that the homes meet the contract
of the code generator, the two specifications are joined: `NeighboursAreApart` is of
the colouring alone, `AllocatorServesGenerator` of both together.

**Allocator** (the last part of `CompilerProofs`) is about `RegAllocSpec`: any function,
any blocks of it (`GraphOf`) and any costs, under `JumpsCarryNothing`. While a stage
runs, `Analysing` says what it has found out up to where it is, and what the stages
before it have left. *Liveness*: no block is said to need what no block reads, and as
long as a pass has changed nothing, the blocks behind it say what they need
(`Settled`); a pass that changed nothing is then a solution (`Solved`), and any
solution gives a liveness in the sense of the contract (`SolvedIsLiveness`), by one
instruction back (`LiveBack`) and over the edges (`LiveEnds`, `BlockFlow`). *The
walks*: `walk.live` contains what lives after the instruction it is at. It may contain
more, since a copy leaves its result alive, and for the contract more is as good; what
was walked over is barred (`Bars`) or linked (`Links`), and later turns only add
(`Grows`, `GrowingKeeps`), spreading included. *Order*: every value is in it at most
once, and the search ends when none is missing; what the lists hold does not matter,
which is why the links that `GainWeight` cuts do no harm here. `OrderedInterferes` puts
these together, and from there on the invariant is that of the colouring
(`AllocatingKeeps`). `RegAllocInvariant`, `HomesAreRight` and, with the generator,
`AllocatorServes` follow: from the optimised function to the machine code nothing but
`Prepared` and `IndexesHeld` is assumed.

**Dominators** (`CompilerProofs` too) are about `DomSpec`: any control flow graph whose
edges are in both their lists once (`IsGraph`), irreducible or not, with blocks that
cannot be reached. Dominance is defined by the least set closed under the edges that
stay outside a block, so that no induction over paths is needed: to show that something
cannot be reached is to exhibit a closed set. *The search* (`SearchOK`): its stack is a
path, what is done leads to nothing unseen, and was come to from a block that was not
done before it. So a dominator of a block has a smaller number (`DominatorsLower`): of
the blocks that can be reached without it, the one done last would have been come to from
one done later. *The fixpoint* (`Meeting`): the parents are a guess that is never too
low, what strictly dominates a block dominates its parent (`TreeUp`); both fingers stay
below all of those, and each predecessor met has a finger on its chain (`Fingers`). A
finger may go up because what dominates both has a smaller number than the lower one, and
so dominates its parent (`GoesUp`). When a pass has changed nothing, each parent is on
the chains of all predecessors (`SettledAt`); the chains then hold only dominators, and
the parents are exact (`SettledRight`). Nothing is said of how parents are numbered
during the iteration, which is as well: the comment in the code that says it
(`domtree.c:24`) does not hold then, see section 5. *The frontiers* (`Runner`): of the
dominators of the predecessors met, those that do not strictly dominate the block have it
in their frontiers or are still above the runner. That blocks with a single predecessor
are skipped does no harm: it dominates them (`OnePredecessor`), except for the entry,
which nothing dominates. That exception is in `DominatorsRight` by name.

**Phi placement** (`CompilerProofs` too) is about `PhiSpec`: any graph, any variables and
any blocks that store to them. The invariant `Closing` is that a block that defines the
variable is on the worklist or has phis all over its frontier, hence, when the worklist
is empty, the latter. What the renaming needs follows by one closed set: the blocks that a
definition dominates, together with those it does not reach, are closed under the edges
past other definitions, because an edge that leaves them goes into its frontier, where
there is a phi (`PhisRight`). `PromotionIsPrepared` states it with the dominators.

**The graph of a function** (`GraphServes`): what `cfg_build` makes of a function meets
`IsGraph`, on which the dominators rest, and `GraphOf`, on which the allocator does, for
any code that is well formed, not empty, and has each label in one place
(`LabelsNumbered`: `ir.c` counts labels). So `GraphOf` in `Prepared` is not left to
the run alone.

### Only model-checked

- Liveness, which the prover does not do: `SleeperWakes`, `JoinReturns`,
  `LexedTerminates`, `LoopsEnd`.
- `SameMeaning`, `DebugTrue` and `OptTypeOK`: they are about renaming over the dominator
  tree, elimination to a fixpoint and renumbering, which are recursive operators. Proofs
  about what a recursion computes need induction over data with an operator as a
  parameter, which no installed backend instantiates. `ReadyToRename` is as far as the
  proofs go into `opt_mem2reg`: everything before its recursion. For the same reason the
  theorems about it are about `DomSpec` and `PhiSpec`, which take the same steps as
  `Optimiser` and `Backend` do, and not about their specifications, which end in those
  operators.
- That what the optimiser makes is well formed, which is the rest of `Prepared`.

# 5. What the checks found

Each violation run states what a comment, a header or a test of the repository
says; `PROJECT.json` quotes it.

- **Lost wake in `pthread_join`** (`threads_linux_join`, `thread_linux.c:170`).
  `t->tid` is tested for zero and then read again as the futex's expected value.
  If the thread exits between the two reads the futex waits for zero to change,
  and nothing will wake it. The window is a few instructions wide.
- **A switch takes its first case** (`backend_table`, `cg64.c:5523`). The index of a
  table branch, when it was spilled, is loaded into `x16`, and then the number to
  compare it with is put into `x16` too. Seen in the compiler's arm64 output.
- **A static reaches another module** (`linker_static`, `link.c:2401`). Code
  refers to a static by name unless it is `STB_GLOBAL`; another module's global of the
  same name wins. The compiled program prints 1002 where C says 12.

The models show more than a run each would be worth. The constants named can be
changed in the configurations to see them.

*Dominators.* The entry has a way in that is not an edge, so one jump back to it makes it
a join; `domtree.c:94` counts edges, finds one, and gives it to no frontier. Then no
phi is placed there, and at `-O1`

    int f(void) { L:; goto M; int x; M: if (n == 0) { n = 1; x = 42; goto L; } return x; }

with a global `n` of 0 is compiled to return 0; `-O0` and gcc return 42. `DominatorsRight`
and `PhisWhereNeeded` exclude an entry with one predecessor by name, and hold with
none, two or more. The comment of `domtree.c:24` that parents always have the smaller
number is false in the middle of the iteration: in the graph 1 to 4 and 2, 4 to 3, 3 to
2, 2 to 3 the first pass makes 2 the parent of 3, though its number is greater. The
result is right all the same. When `calloc` fails (`mem2reg.c:65`) the variable gets no
phis and is promoted nevertheless; the model has no such failure.

*Package loader.* Errors do not stick: a package with a second file clears the error
of the first (`pkg.c:669`), and two packages of two files that import each other give
"import cycle", exit status 0 and a program. A misnamed package returns
(`pkg.c:680`) without `loading_pop`; the next pop removes the wrong entry, and the
cache then hands out an incomplete package. A package file that does not lex has no
end-of-file token, and the loop at `pkg.c:661` may not end, the error that would end
it being cleared. All three were seen on the compiler.

*Compile cache.* With a runtime on `FAKECC_PKG` (`Own`) one directory is hashed and
another parsed (`main.c:1198`), and a later compile without it links what was
published; without `Quiet`, a source edited between its parse and its hash is
published under the new key. Both were seen. With `DiskMayFill = TRUE`,
`NothingHalfWritten` fails: `emit_obj` looks at neither `fwrite` nor `fclose`
(`emit.c:966`), and a shortened object that still has its ELF header is published
and read back. With `Writable = FALSE`, `CacheTransparent` fails: a cache directory
that cannot be written ends the compile (`emit.c:965`), where `main.c:445` means a miss.

*Heap.* `free` recognises a second `free` of one pointer by the chunk's flag, but a
merge resets the flag of the chunk it absorbs (`malloc.c:141`), so after a merge it
does not. The heap's theorems are about programs that free what they hold.

*Debug markers.* A marker stands at a store or phi and holds until the next in the
order of the code (`codegen.c:11736`-`:11761`). After `if (c) { x = ...; } else {
use(x); }` the else branch inherits the marker of the then branch, and the debugger
shows a register that by then holds something else. `MarkersTrue` stops at the next
jump for that reason. The code itself is right.

*Windows threads.* The four races of 2.3. `overlap` loses the entry of one of two
threads created at once (`thread_windows.c:42`), which can then never be joined; the
others free a descriptor that is in use, or return 0 without having waited.

*Streams.* A stream opened when the table of 64 (`stdio.c:38`) is full loses at `exit`
what is buffered, though `stdio_fflush_all.c` among the tests says that exit flushes.
A flush whose first write is short and whose second fails keeps the whole buffer, so
that the next one writes the prefix again (`:107`); `fclose`, `freopen` and `fseek`
ignore a failed flush. A standard stream that was closed with unwritten bytes can put
them into a file that got its descriptor. `fseek(SEEK_CUR)` counts from the file's
offset and not, as `ftell` does, from before the bytes pushed back; `ByteFile` states
it as it is. `err` and `eof` are set and never read.

*Linker.* The five situations of `Known`: the static above; in a shared object, the
address of a library function that the module does not call becomes that of the
first stub; a pointer in data to a library object of unknown type gets a stub
(`link.c:1345`-`:1371`, before the copies are looked for); a module with a weak
thread-local keeps its own though another has a strong one; and a weak definition is
taken before a tentative one (`link.c:261`, in `find_export_gsi`), where ELF honours
the common definition and ignores the weak one. With `int x;` in one object (compiled with
`-fcommon`) and `__attribute__((weak)) int x = 5;` in the other, `ld` gives the
program an `x` of 0 and fakecc one of 5, in either order. Besides: `int (*p)(const char *) = puts;`
does not link when another module has a static `puts`, as the static hides that the
name is undefined (`FailsForCause` allows it). A `main` that is weak is refused like one that is
missing (`link.c:2601`), though a weak definition is one in ELF. Two strong definitions of one name,
which `WellFormed` excludes, are not reported for ELF, while `macho.c:2779` and
`pe.c:987` report them.

*Found next to the models, by reading or on the compiler.* In the arm64 generator, the
return of three or more eightbytes uses the scratch register over a spilled one
(`cg64.c:5573`-`:5577`). In the x86 generator at `-O1`, `p[i] += g(i)` with `int *p =
a` may lose the index over the call, since `fold_ptr_off` (`codegen.c:3969`) looks
through copies and `addr_fold_extras` (`regalloc.c:248`) does not; and a
read-modify-write is fused over an intervening call that writes the same variable.
`compute_mcs_order` puts a value that gains weight into a second list, but its one
link goes with it, and what came after it in the first list is no longer found: the
scan of `regalloc.c:1033`, which "should not happen", picks it by number and not by
weight, and takes the time that the lists were to save. The colouring is right in any
order; it may spill more.
In the library interface, `g_tls_local_exec` (`compiler.c:367`) and the
runtime-allocator switch (`:304`) are set by one call and never reset for the next.

# 6. What is not modelled

`PROJECT.json` lists every component with its reason. In short: stages that are
pure functions of their input with a table of cases (lexer, sema, IR generation,
the x86 code generator, assemblers, formats of files), where a model would repeat the
code and a small instance would show little; arithmetic (constant folding, decimal
floats, 128-bit integers, printf); DWARF encoding; and thin wrappers (Darwin threads,
system calls). `ir.c`, `codegen.c`, `parser.c` and `sema.c` with their copies in the
bootstrap compiler (`v0/`) are most of the repository's 174,000 lines: what the models
cover is a small share of the lines, and most of the state.

Two questions were looked at and left out. Archives (`pe_pull_libraries`,
`arcoff.c:872`): which of two archives that know a name is used depends on the order
in which names became undefined; no document says which it should be, so that a model
would have nothing to compare with. The library interface (`compiler.c`): what one
call leaves to the next are the two flags above, each written once; a model would
restate those two lines. The sanitizer's `g_asan_inited` is set before its shadow is
mapped (`sanitizer.c:50`); the window is two statements, and the rest of that file is
arithmetic on addresses.

Inside the modelled parts: the fallback of `domtree_build` without memory; `-O0`; the
values that stand for an undefined variable, which mem2reg's comment
(`mem2reg.c:415`) calls a typed zero and its writeback (`:246`) makes a copy of
value 0 (as no property says what an undefined variable holds, either will do); float
and vector registers, aggregates and variadic calls in the back end; IFUNC symbols,
symbols of sections, local-dynamic thread-locals, the exported dynamic symbols and all
byte layout in the linker; formats of `printf` and `scanf` above the streams.

# 7. Where to go on

In the order of what they would add:

1. the float class and values of 128 bits in `RegAlloc`: pairs of slots, and the same
   properties;
2. what the x86 generator adds to interference (`addr_fold_extras`) and what it folds
   (`fold_ptr_off`), side by side: the finding in section 5 is a disagreement of the
   two;
3. the order in which archives are searched, once somebody says what it should be.
