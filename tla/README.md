# A TLA+ verification of libarena-rs

libarena-rs lets Rust's `alloc` collections run inside BPF programs.  A global
allocator forwards to libarena's buddy allocator, four memory routines written
in C replace `memcpy` and its kin, and a linker of its own turns Rust and C
bitcode into one BPF object, which a small runner loads and tests.  This
directory specifies those parts, checks the specifications with TLC and proves
the central ones with TLAPS.

Paths are given from the repository's root.

## 1. The system

| Component | Source | State | Operations |
|---|---|---|---|
| Memory helpers | `csrc/arena_glue.bpf.c` | the bytes of arena, stack and rodata; a loop index per call | `bpf_arena_memcpy`, `bpf_arena_memset`, `memset`, `bpf_arena_memcmp`, `arena_free_u64` |
| Allocator | `src/arena_alloc.rs`, `src/raw.rs`, `src/cast.rs` | none of its own: the arena, the buddy allocator's blocks, the pointers that programs own | `alloc`, `dealloc`, the default `realloc` and `alloc_zeroed`, `arena_malloc`, `arena_malloc_user`, `arena_free`, `arena_free_user`, the casts |
| Handlers | `src/handlers.rs` | none | a panic or an allocation error traps |
| arena-linker | `linker/src/main.rs`, five `linker/scripts/*.py` | the LLVM module, two lists of names, a working directory, the output | eleven steps from bitcode to object |
| BTF renaming | `linker/scripts/btf_rename.py` | types and strings of `.BTF` | rename integers, sanitise names, patch the ELF file |
| Runner | `tools/runner/runner.c` | the loaded object, counters | options, load, reset, test loop, exit status |
| Build script | `build.rs` | files in `OUT_DIR`, the variables and paths declared to cargo | archive the sources, find tools and headers, compile and archive the C side |
| Packaged sources | `src/lib.rs` (`build-support`) | the embedded archive, a directory | `extract` |
| Not ours | libarena's buddy allocator (submodule), LLVM, cargo, the kernel | | |

How they interact.  A collection calls `GlobalAlloc`; that calls
`arena_malloc_internal` and casts the user-form address it gets to the kernel
view.  Copies that rustc emits as `llvm.memcpy` become calls of the glue
helpers in the linker, which inlines them.  A panic is a trap, which the linker
turns into `bpf_throw` or a return of a cookie, which the runner sees as a
failed test.  Programs on several CPUs share one arena and nothing orders them.
cargo runs `build.rs`, whose archive the linker finds in a `-L` directory; it
runs several linkers at once, and all of it again after an edit, a failure or a
change of the environment.

What is hard.  The helpers run byte by byte, interleaved with other CPUs, on
ranges that may overlap, and the kernel may cut any loop short (`can_loop`).
`realloc` is three calls with other programs between them.  A trap runs no
destructor.  Addresses have two forms.  The linker is a sequence of textual
passes, each relying on what the earlier ones renamed, kept or inlined, with
LLVM's optimiser in the middle; its mistakes show when a kernel's verifier
rejects the object.  Files outlive the processes that write them: what a failed
build script, link or extraction leaves is where the next one starts, and what
cargo takes for fresh must be.  `hazards` in `PROJECT.json` lists each at its line.

## 2. The modules

| Module | What it is |
|---|---|
| `ByteCalls` | what a helper call is given, which bytes it reads and writes, what each byte should become |
| `MemCalls` | **abstract**: a call of memmove, memset or memcmp takes effect in one step, or on part of its range once the program's loop allowance is spent |
| `GlueMem` | the byte loops, one action per iteration, several programs |
| `GlueMemProofs` | its invariants, and that it implements `MemCalls` |
| `HeapObjects` | **abstract**: every allocation is an object of its own |
| `ArenaHeap` | the allocator, the casts, `realloc` and `alloc_zeroed` in their steps, the raw entry points, panics |
| `ArenaHeapProofs` | its invariants |
| `HeapObjectsProofs` | that it implements `HeapObjects`, and uses the helpers as `MemCalls` promises them |
| `ArenaLinker` | the link, at the level of functions: names, calls, linkage, inlining, exits |
| `ArenaLinkerProofs` | its invariants, pass by pass |
| `LinkOutput` | **abstract**: the object at an output path is made of what its link was given |
| `LinkDir` | the linker as a process: arguments, inputs, working directory, several links at once and in turn |
| `LinkDirProofs` | its invariants, and that it implements `LinkOutput` |
| `BuildScript` | `build.rs`, step by step |
| `PackagedSources` | `extract` of `src/lib.rs`, file by file |
| `CargoBuild` | their composition: a developer's incremental builds under cargo |
| `CargoBuildProofs` | its invariants, all of those the runs check |
| `BtfRename` | `btf_rename.py`: the types, the string table, the file |
| `BtfRenameProofs` | its invariants |
| `Runner` | the runner's `main` |
| `RunnerProofs` | its invariants |
| `MC*` | values for the constants |

`ArenaHeap` composes with the helpers through `MemCalls`.  From below, `GlueMem`
implements it: whatever calls are made, as long as those made at once are apart
and programs outside the helpers write only where no call is in progress
(`Store`), each call is one step.  From above, `ArenaHeap` is a client of it: its
`Help` is that step (`Complete` or `Curtail`), and under `HelperPc` and
`HelperArgs`, which name the helper call a program is in the middle of, every
step of the allocator and its users is one of `MemCalls` or none
(`UsesMemCalls`).  So the byte loops may stand where `ArenaHeap` takes one step.
That last inference is about two specifications with different variables and
is made here, in words; its two halves are checked and proved.

`CargoBuild` extends `BuildScript` and `PackagedSources`, whose actions it runs
one at a time between cargo's and the developer's; its `Link` is the one step
that `LinkOutput` promises.  `LinkDir` in turn shows that the linker keeps that
promise, with the passes, which are `ArenaLinker`'s subject, as one step.

### GlueMem

`pc`, `call`, `i` are the helper a program is in, its arguments and its loop
index; `mem` is memory.  `CopyByte`, `SetByte`, `CompareByte` are one iteration
each, `FinishLoop` is `i < n` turning false, `CanLoopFails` is `can_loop`
turning false, after which it stays false (`spent`) until the program is run
again.  `Downward` is the `else` branch of `if (dst < src)`, `Offset` its
`k = n - 1 - i`.  `snap` is a history variable: the bytes of the call when it
was made.  Calls may overlap themselves in any way; two programs call at once
only on ranges that do not conflict, which is Rust's aliasing rule, and what a
program writes between its calls (`Store`) conflicts with none in progress.

### ArenaHeap

`blocks` are the buddy allocator's live blocks, `held[p][s]` the allocation a
variable of a program owns, with its pointer (`view` and `addr`) and its
layout, and `job[p]` where the program is inside an allocator call; the extra
slot `New` is the block that `realloc` or `alloc_zeroed` prepares.  `RunHelper`
is the helper both call, a step of its own, with other programs' steps before it
and between it and what follows.  `arena_malloc_internal` is
external: it returns null at any time, or any free place for the smallest block
size that holds the request.  A null answer in a `realloc` is a step too
(`ReallocRefused`): nothing happens to the old allocation; in the other calls it
leaves nothing to tell apart.  `arena_free_u64` finds a block by its user form
only, so that a missing cast leaks.  `Target = "hosted"` selects the stand-ins
of the unit tests (identity casts, capped alignment).  `lost` records what
trapped programs owned.

### ArenaLinker

`mod` maps names to functions.  A function records who it calls, from which of
those calls `noinline` bars inlining (`cold`), its linkage, whether it is an
entry program (`section`), what it returns (`ret`: an integer, nothing, or
anything else), how it leaves early (`exits`), and the bodies it contains
(`parts`).  The settings of a link are the names that rustc exports
(`exported`: `--export-symbols` lists the entry programs and every other
`no_mangle` function) and the environment; `Extra` is what `main()` makes of the
list and of `KEEP_EXTRA`.  The actions are the steps of `main()` in its order; a step
that runs LLVM and a script is one action.  `Closure` defines inlining and dead
code elimination as least closed sets rather than by recursion.  LLVM is
external and modelled by what the linker asks of it:

* `llvm-link` gives the glue's static `memset` a suffix when another input
  names `memset`;
* `internalize` and `globaldce` drop what is neither visible, nor `used`, nor
  reached;
* `always-inline` inlines every `alwaysinline` callee, except at `noinline`
  call sites;
* `default<O2>` may inline any callee whose definition is not weak, and may
  turn a loop into `llvm.memcpy`, `llvm.memset` or `memcmp`;
* `llc` calls `memset` for an `llvm.memset` that is left.

Any step may fail (`Die`); the output is then what it was, except that
`btf_rename.py` runs on an output already written.

A panic of the bitcode is a `trap` that an `unreachable` follows; a `loose` one
has none behind it, and `trap_to_ret.py` does not take it.  Neither does it take
a trap in a function that returns a pointer, a float or an aggregate, nor, at
times, one in a visible Rust function that returns nothing (`Plain`), whose
define line its pattern misses, so that the return type it goes by is the one of
the function before: `TrapToRet` leaves any of those traps or rewrites it.

`ksyms` are the names `bpf_finalize.py` tags for libbpf to resolve: the declare
lines that are left (`Kfuncs`), called or not.  `opt` has dropped the
declarations that nobody calls, but the script renames the calls of a `memcmp`
that O2 made and not its declaration, which is tagged then.

### LinkDir

`at[o]` is where the linker of output `o` is in `main()`, `opts[o]` what
`parse_args` made of its arguments, `tmp[t]` and `stage[t]` what is in working
directory `t`: extracted members by subdirectory and name, and the module the
passes hand on.  `rust_bcs` and `arena_bcs` are the code's two lists, of paths:
what is in a file is looked up when llvm-link opens it, as it might have changed
by then.  `RemoveDir` may leave any of the files, since the code ignores its
error; `cluttered` records that.  `request` and `asked` are history variables:
what rustc meant by the line, and the modules that stands for.  An argument is a
flag with what is joined to it, or a word; quotes and white space are not
modelled.  A link may die before any step.

### BuildScript, PackagedSources, CargoBuild

`at` is the build script's step, `given` the environment of its run, `declared`
the variables it has printed `rerun-if-env-changed` for, `cmd` what it knows of
clang's command line, `out` the files in `OUT_DIR`.  Contents are versions: a
tree maps files to numbers, bitcode is the record of everything that went into
it, so that two builds are equal just if all their inputs were.  Every step may
panic and leaves its files.  `step`, `tree` and `embedded` are the consumer's
`extract`.  cargo is external and modelled by its contract: the script runs again
if it failed, if a declared variable differs from the run's or a declared path
has been touched since the run began; then what depends on it is built.  The
developer may edit sources at any moment, also while clang runs; a reboot ends
whatever runs and may bring another kernel.

### BtfRename

`types` and `appended` are the type section and the new strings by position
and offset, `file` the extents of the object's parts.  `Scan` is one round of
the `while` loop, `Truncate` and `Write` the two halves of the `write` at the
end.  A name is a sequence of character classes, because the property is about
which names are identifiers.  Names that begin with a digit are not among the
inputs: neither rustc nor clang names a type so, and sanitising would not help.

### Runner

One action per phase of `main`, one per test.  `kconfig` holds where each line
of the kconfig buffer ends; the text is not modelled.  `answered` maps the
programs that ran to what `bpf_prog_test_run` answered, which is any answer, as
are open's and load's.  An exit status is what a parent sees: the value modulo
`Statuses` (256).

## 3. What TLC checks

| Run | Bounds | Question |
|---|---|---|
| `glue` | 2 programs, 3 bytes, 2 byte values, fair | the invariants of the byte loops, that they implement `MemCalls` whatever is written elsewhere, and that every helper returns |
| `heap` | 2 programs x 2 handles, 3 bytes, 2 byte values, blocks of 1 and 2 | one owner per block, layouts, well-formed helper calls; the allocator implements `HeapObjects` and uses `MemCalls` |
| `linker` | 3 Rust functions, 3 of libarena; every form of memory call, with and without compiler_builtins, under 6 settings; the same functions with any of the Rust ones panicking, at a loose trap too, or one unwinding, under 16 settings; and, with nothing kept but the entry program, under 2 (569,928 states) | what is visible, inlined, bound; how the object leaves on a panic |
| `link_dir` | 2 outputs, 3 links, 7 command lines, two rlibs with a member of one name, inputs that are missing or no bitcode, three `-L` directories, one rebuild of an rlib | arguments are understood; every module asked for is linked once; links implement `LinkOutput` |
| `cargo_build` | 5 environments, 2 kernels, 2 trees for each of 3 directories, 2 changes | an incremental build is a clean build; the consumer's tree is the snapshot; the archive is whole |
| `btf_rename` | a first type of each of 19 kinds, 3 lengths and 4 names, two more types; alignments 1, 4, 8 | the walk stays in step, strings do not overlap, names are accepted, the file is intact |
| `runner_reports` | objects of up to 4 programs, 3 answers, up to 3 options for 12 bytes | what the exit status means |

Why these bounds are enough.  Three bytes hold two programs' calls apart and
every overlap of ranges of two, where a wrong direction first destroys a byte
that is still to be copied.  Two block
sizes and the layouts `(1,1) (2,1) (1,2) (2,4)` have one served for its size,
one for its alignment and one that nothing serves.  A program with one helper,
one kept function and an entry program has every edge between the linker's
classes of functions, and the two chosen call graphs put a call behind an
inlined function.  The runner's 12-byte buffer is just filled, just overfilled
and overfilled by the terminating zero alone.  Three links hold two at
once and a third over what one of them left, with the rlib rebuilt between; the
command lines have each flag as rustc spells it, its value in the next argument
or, for `-L`, `-l` and `--cpu=`, joined to it, before and after the inputs, in a
response file, unknown, repeated and without its value.  Two changes hold an
edit during a run and a second before the next, an interrupted run after a
change, and a change that is undone; the environments take each decision of
`build.rs` both ways.  `heap` is reduced by symmetry of programs and handles,
which neither the specification nor `HeapObjects` tells apart.  The proofs lift
these bounds for every property but `EveryCallReturns` and `ArgsRecovered`.

The properties, in words:

* `WholeEffect`, `NoMangledByte`, `CompareIsOrder`: a finished copy is a
  memmove; one cut short leaves each byte old or final; memcmp answers by the
  first difference.  `ImplementsMemCalls` says all of it as a refinement.
* `IInv` of `ArenaHeap` contains `LayoutSatisfied` (a live block, large and
  aligned enough, behind every allocation) and `Accounted` (each block has one
  owner; only a trap loses one).  `ImplementsHeapObjects`: contents change only
  by their owner, `realloc` keeps the common prefix.  `HelpersUsedWell`: helper
  calls are in range, and apart.  `UsesMemCalls` is about the time between: while
  a call is in progress its arguments stay what they were and no program writes
  what it touches.
* `EntriesInObject`, `RustIsInlined`, `MemoryCallsBound`, `KfuncsTagged`,
  `CopiesInlined`, `KeptStayOutlined`, `NoVoidGlobals`: entry programs survive; no
  Rust function is left as a subprogram unless exported or asked for; every memory
  call is bound to the glue, and what is left to the loader is a tagged kfunc,
  none of them the module's own and none in vain but a late `memcmp`; every early
  memory call is inlined; libarena is not force-inlined, and what is weak and
  kept is not inlined by O2 either; no void global.
* `ArgsRecovered`, `MembersOnce`, `ImplementsLinkOutput`: see `LinkDir`; a link
  that could not clear its directory may link older members, and nothing else.
* `IncrementalIsClean`, `TreeIsSnapshot`, `ArchiveWhole`: see `CargoBuild`.
* `TrapsReplaced`, `ExitFitsKernel`: no trap in mode `throw`, and in mode `ret`
  none but those that `trap_to_ret.py` leaves; no `bpf_throw` in an object built
  for a kernel that is known to lack support, which is the kernel that builds:
  nothing is said of another one that loads the object.
* `PanicsAccounted`: a function of the object leaves early exactly if it holds
  the body of one that panics in the source.  `CookieIsResult`: with nothing
  exported or kept but entry programs, every returned cookie is a program's result.
* `WalkInStep`, `StringsApart`, `NamesAccepted`, `FileIntact`: see `BtfRename`.
* `ZeroMeansAllPassed`: while there are fewer tests than exit statuses, status 0
  means that the arena was reset and every test ran and passed.
  `ResetThenInOrder`, `OptionsWhole`: see `Runner`.

Five runs show a disagreement between the code and what it says of itself
(`findings` in `PROJECT.json`): `linker_extra` (a void `KEEP_EXTRA` symbol is
internalized and inlined), `linker_outlined` (a void libarena function is
internalized by default, and O2 inlines it), `linker_cookie` (in mode `ret` a kept
function that returns an integer returns the cookie to its caller), `cargo_knobs`
(`TRAP_MODE`, which only the linker reads, is changed after a build and cargo has nothing to do), `runner_status` (256 failures are
status 0).  Two more were met and have no run: the unit tests' stand-in caps
alignment at 4096 (`src/raw.rs:27`), and for a host target `build.rs` does
something, contrary to `README.md:198`: it archives the sources.

Every property of a passing run has a mutant: an operator beside the
definition it replaces, marked as a slip or a bug, with which TLC finds the
property violated.

**Fairness.**  Only `glue` assumes any: weak fairness of each program's
steps inside a helper.  The kernel does not abandon a BPF program it has
started, and no helper waits for another program.  Nothing is assumed of
callers.  **Deadlock** is checked where the system never ends: programs can be
run again, a rebuild and another build are always possible.  It is not checked for
`ArenaLinker`, `BtfRename` and `Runner`, processes that exit.

## 4. What TLAPS proves

Every safety property, action property and refinement of the passing runs, but
for `ArgsRecovered`, for all values of the constants that meet the named
assumptions of the modules.  Each component's `IInv` is inductive; the theorem
that it is invariant is named beside the module.

| Module | Invariance | The properties |
|---|---|---|
| `GlueMemProofs` | `Correct` | `TypeCorrect`, `MoveCorrect`, `CutIsHarmless`, `CompareCorrect`; `Implements`: the interleaved byte loops implement `MemCalls` |
| `ArenaHeapProofs` | `HeapCorrect` | `LayoutsHold`, `HelpersCalledWell` |
| `HeapObjectsProofs` | the same | `ImplementsObjects`: the allocator implements `HeapObjects`; `KeepsContract`: it and its users are a client of `MemCalls` |
| `CargoBuildProofs` | `CargoBuildCorrect` | `CargoBuildTypes`, `BuildsAreClean`, `TreesAreClean`, `ArchivesWhole` |
| `ArenaLinkerProofs` | `Invariance` | one theorem for each of the twelve properties of `linker`; `KeptStayGlobal`, `OnlyProgramsLeft` |
| `LinkDirProofs` | `Invariance` | `TypeCorrect`, `EveryMemberOnce`; `Implements`: links implement `LinkOutput` |
| `BtfRenameProofs` | `Invariance` | `TypeCorrect`, `StaysInStep`, `TableSound`, `KernelAccepts`, `FileSound` |
| `RunnerProofs` | `Invariance` | `TypeCorrect`, `ZeroIsSuccess`, `StatusIsFailures`, `ResetFirst`, `ConfigWhole` |

**GlueMem's invariant.**  That a finished copy is right does not follow from
the previous state alone.  `IInv` adds that calls in progress are `Apart`, that
the bytes in `Written` have their final value (`Progress`) and, the point of
the two directions, that every byte of the footprint outside `Written` is still
as it was at the call.  A step of `p` writes the next byte of `Written(p)`,
which in the chosen direction is never one that `p` has yet to read; other
programs' bytes are apart.  The refinement maps the bytes a call in progress
writes to their values at the call (`ObservedMem`): iterations are stutters and
the step that leaves the loop is the abstract call.  A byte written outside the
helpers lies outside every footprint, so that it changes what is observed at
that byte and no call's snapshot (`StoreObserved`).

**ArenaHeap's invariant.**  `Accounted` and `LayoutSatisfied` need
`BlocksApart` (external: a new block is placed apart) and `JobsConsistent`,
which says what a program in the middle of a `realloc` still owns and in which
form its pointers are.  Alignment follows from the assumption that sizes and
alignments are powers of two, stated as divisibility (`PowerAssumption`): the
block is at least as large as the alignment asked for, hence its base is a
multiple of it.  For the hosted stand-in this needs `HostEnough`, the
hypothesis of the theorems.

**ArenaHeap implements HeapObjects.**  The mapping forgets addresses and shows
the bytes between an owner's pointer and its size (`View`).  Each step of a
program changes memory inside one allocation of its own (`OwnWrites`), and
allocations are apart, so that the objects of all others are what they were
(`StepsAlone`); what is left is the step's own object.  One fact has to be
carried from step to step, `Copied`: between `realloc`'s copy and its free, with
other programs' steps between them, the new block keeps the common prefix of
the old one, unless the loop allowance ended.  An allowance that ends in the
copy is `Exhaust`; the abstract `Realloc` is the free.

**ArenaHeap uses MemCalls.**  A call is made when the new block has been
allocated, is in progress at stages `zero` and `copy`, and returns when the
stage after it ends.  `HelpersUsedWell` gives `Invoke` its guard.  For a write
of another program the guard of `Store` is that the byte lies in no footprint:
a footprint lies in blocks that its program owns (`Accounted`), the byte in a
block of the writer's, and blocks are apart (`BlocksApart`).  Allocation, free
and cast change nothing that `MemCalls` sees, because what a program has in
progress depends on its own slots only.

**CargoBuild's invariant.**  That the object is what a clean build makes holds
only at the end; `IInv` says what is so on the way.  `CommandKnown`: past each
step of the script the command line has what that step finds in the environment
it was given, and every variable read by then is declared.  `SourcesCompiled`:
the bitcode files of this run, and not those an earlier one left, match that
command line, and the sources unless a watched path was touched since.
`ArchiveMade` carries this to the archive and, when nothing is dirty, to the
object; `TarMade` and `TreeUnpacked` do the same for the tar and the tree.
Present and recorded environment are then bridged by `ReadAlike`: if they agree
on what was declared, the same bitcode comes of both, because what one reads
depends only on `LIBARENA_VMLINUX_H`, which is declared on both paths.
Assumed: the variables build.rs reads are variables (`VarsAssumption`), a tree is
a function (`TreesAssumption`), and no user's header is the model's name for the
one in `OUT_DIR` (`EnvsAssumption`).

**ArenaLinker's invariant.**  `Shape` has what each pass leaves for the next.
The module is what llvm-link made of the inputs until `lower_mem.py`; after it
(`Lowered`) it is the program, libarena and the glue, and no name that
lowering binds is called any more; from `internalize` on (`Derived`) what
`keep_syms.py` listed is visible and everything else static; after the forced
inlining (`Outlined`) libarena's functions are in no other function and nobody
calls the glue; and so on to what a trap has become (`CookiesIn`, `Left`) and
what is tagged (`Tagged`).  The properties are about the object, and none is
inductive: that O2 leaves no Rust function called, say, needs that those which
could be were static before it.  `out` is written before the last pass, so an
object left by a link that died is covered too.  Three facts are carried through
the optimizer, each of which is lost without the one before it: `Panics` ties a
function's exits to the bodies it holds, so that inlining moves a panic with its
body; `WeakOutlined` says that a weak body is in its own function only; and
`OnlyPrograms` that with nothing but entry programs exported or kept, and nothing
`used`, every Rust function left by the
forced inlining is an entry program: the others are static by then, inlined
wherever they were called, and dropped by the `globaldce` that follows.  `CookieLeaves` needs besides that
libarena's side holds no Rust body, which is so if it calls none back
(`NoCallbacks`).  `ArenaAssumption` and
`CasesAssumption` say what bitcode can be: names are defined once, a `cold` call
is a call, entry programs are visible, a `used` function is static (as the
glue's are), and compiler_builtins defines the library's memory functions only.

**LinkDir's invariant.**  For each link (`LinkInv`): what is true of a link at
`at` (`Shape`), that rustc's request is what the arguments parsed to
(`Asking`), that the lists so far name each piece of bitcode of the inputs so
far once, in the link's own directory or on the disk (`Gathering`), and that the
module and the object hold it (`Made`).  A file is named by the index of its
rlib, so two rlibs with members of one name do not meet, and another link works
in another directory (`Frame`).  A directory that was not cleared only adds
files, which is the abstract `Litter`.  Gathering and linking are stutters,
`Passes` is the abstract write.  The hypothesis is `AsMeant`, that each line
parses as rustc meant it; this is what `ArgsRecovered` checks with TLC, and it
stays there because parsing is a fold over the line.  `DisksAssumption`: each
piece of bitcode is in one place; `LinesAssumption`: rustc names no input twice
and does not name `libarena_c.a`.

**BtfRename's invariant.**  `Walked`: the types before `pos` are renamed over the
strings appended, those behind are as given.  `Table`: the appended strings lie
one behind the other, past the given table and within `grown`.  `FileAt`: the
file is as given until the last step.  `ObjectsAssumption` says what llc and
llvm-objcopy write (types one behind the other, strings apart, `.BTF` apart from
the other sections), `RenameAssumption` that no Rust name in `RENAME`
is also a C name there, without which a renamed integer could still bear one.

**Runner's invariant.**  `Lines`: each line in the buffer is as long as its
option and all end before `Room`, unless the runner gave up at the last one.
`Found`, `Progress` (`Through`: the reset and the tests before `next` have run,
nothing else has) and `Counted`: the counters are the cardinalities of what ran
and what failed.  That status 0 means success needs all four, and fewer
failures than `Statuses`.

Four theorems say where the documentation is right that a violated run shows to be
wrong in general.  `KeptStayGlobal`: `KEEP_EXTRA`'s symbols and libarena's stay
visible if they return a value or void globals are kept, and so does what rustc
exports.  `WeakStayOutlined`: those
of them that are weak stay outlined as well; a strong definition O2 may inline, as
`linker_outlined` shows.  `CookieLeaves`: what trap_to_ret.py takes for granted is
so while rustc's list and `KEEP_EXTRA` name no Rust function but entry programs,
none is `used`, and libarena neither panics nor calls back.  `StatusIsFailures`: the exit code is the number of failures
while the tests are fewer than 256.

Two properties turned out to be too strong while they were being proved, and
were restated.  `LinkDir`'s `TypeOK` bounded `next` by the inputs at all times;
between links the old value remains, and the next command line may be shorter,
so the bound is for the steps that use it.  `ZeroMeansAllPassed` held in
`runner_reports` because its objects are small; its premise now says so.

Only model-checked: `EveryCallReturns`, because liveness is out of the prover's
reach, and `ArgsRecovered`, because what a fold computes for every line is an
induction over data.

## 5. What is not modelled

* libarena's buddy allocator, LLVM, cargo and the kernel, beyond what is said
  above; the number of iterations after which `can_loop` fails.
* In the linker: user passes (arbitrary scripts), the search for LLVM's tools,
  debug info and the `unreachable`-to-`ret` rewriting of `bpf_finalize.py`; data
  symbols (the map and the licence are kept by `keep_syms.py` as functions with
  a section are); the text of a response file; the joined forms of `-o`,
  `--export-symbols` and `--cpu-features`, which rustc does not write and
  `parse_args` ignores as unknown flags; two members of one name inside one
  archive, of which `llvm-ar x` keeps the last.  Where `trap_to_ret.py` takes a
  void function for one that returns an integer, what it writes is rejected by
  llc, which is a `Die`.
* In the build: flags of clang that never change, what is in a vmlinux.h the
  user names, cargo's own failures.
* `kfunc_compat.h` (declarations), the accessors of `BpfAssets`, and the examples
  (users of the allocator).

## 6. Plan

Done, in this order: `GlueMem` with `MemCalls` and their proofs; `ArenaHeap`
with `HeapObjects` and the invariants' proofs; `ArenaLinker`; `BtfRename`;
`Runner`; `BuildScript`, `PackagedSources` and `CargoBuild`; `LinkDir` with
`LinkOutput`; the proofs about `CargoBuild`, `ArenaLinker`, `BtfRename`, `Runner`
and `LinkDir`; the refinements of `LinkOutput` and `HeapObjects`; the composition
of `GlueMem` and `ArenaHeap` through `MemCalls`; what becomes of panics and of
kept functions in a link.  Next:

1. `TrapExit`: the run of a linked program, calls and exits, against "a panic
   ends the program with the cookie", composing `ArenaLinker`'s result with
   `ArenaHeap`'s `Panic`; and the programs of `collections_smoke.rs` over
   `HeapObjects`.
2. The composition of `LinkDir` and `CargoBuild` through `LinkOutput`, as that of
   the allocator and the helpers.
