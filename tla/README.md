# A TLA+ development for cellift-meta

This directory holds TLA+ modules that model the parts of this repository with
state, order and failure in them, the TLC configurations that check them on small
instances, and TLAPS proofs of their main invariants for every value of the
constants. Paths below are relative to the repository's root, which the project
file calls `src/`.

Run a check with `tlc -config <X>.cfg <Module>` and a proof with
`tlapm <Module>_proofs.tla`, in this directory. `PROJECT.json` lists the runs, maps
every definition that models code to the lines it models, and lists the hazards
of the code with the properties that cover them.

## 1. The system

CellIFT instruments RISC-V designs for dynamic information-flow tracking. This
repository is its meta repository: it builds the instrumented designs, runs
programs on the simulated designs with chosen memory bytes tainted, and evaluates
the runs. The instrumentation itself (Yosys passes) and the designs are
submodules, empty here.

    benchmarks/ ----- test programs, run in an environment (p, pm, pt, v)
         |  ELF files                             [v: VmPager, VmBoot]
         v
    python-experiments/ --- experiments, their runs and stored outputs
         |                                        [SimulationRuns, Experiments]
         |  taintbits -> sram_taint_data.txt, environment
         v                                        [TaintTuples, Simulation]
    simulated design --- memories filled by the DPI loaders, ticks
         ^                                        [ElfLoader, TaintLoader, Simulation]
         |  make in every design's directory      [BuildPlan, BuildAll]
         |  recorded by resourcewrapper           [ResourcesRecord, Experiments]
    design-processing/ --- Verilog passes, Yosys scripts
                           [UnusedModules, ConcatPasses, VerilogPasses]

### Components

| component | state it keeps | operations | interacts with | what makes it correct |
|---|---|---|---|---|
| "v" environment, pager: `benchmarks/env/v/vm.c`, `entry.S`, `riscv_test.h` | page table, freelist, `user_mapping`, memory, the trap frame; the hart's TLB | user access, fault, A/D marking, mapping with copy-in, ecall with eviction, termination | the hart (traps, translations, fences), the host (`tohost`) | the program sees flat memory; no frame is lost or shared; no assertion of a handler fails |
| "v" environment, boot: `vm_boot` | the loop that fills the freelist from an LFSR | one node per iteration, entering the program | the pager | 63 distinct frames from every seed |
| `TaintTuples`: `python-experiments/common/taintfile.py` | a dictionary from block address to byte mask | add a line or a pair, merge, write, read back | files, `SimulationRun` | the blocks hold the union of what went in |
| taint loader: `design-processing/common/dv/taintloader.cc` | sections and masks per taint id, an index per id | read a file, next section, copy a mask | the memories of the testbench, through DPI | every section is handed out once, with a mask that fills its buffer |
| ELF loader: `elfloader.cc`, `common_functions.cc` | sections, their contents, an index; shared by all memories | map a file, check it, record its segments, next section, copy | the memories, the environment | each memory gets the complete image of its own file, or the simulation stops |
| testbench timing: `ticks.h` | none | lead time, `SIMLEN`, trailing ticks | the design's `main` | a run that succeeds has simulated what it was asked for |
| fleet builds: `make_all_designs.py`, `make_all_design_cellstats.py`, `clean_all_designs.py` | options; on disk, what has been built | sequential stage, pool stages, failure, clean | each design's Makefile | concurrent makes are independent; "Success!" is true; declined means untouched |
| `remove_unused_modules.py` | the text, the module names left | rounds of parallel search and removal | the file | nothing needed is removed, nothing unused stays, it ends |
| concatenation passes: `compress_concats.py`, `divide_...`, `expand_...`, `concatbitwidth.py` | the lines, a counter for new names | one regular-expression substitution per line | each other, through the file | values, widths and terms are kept, new names are fresh |
| other text filters of `python_scripts/` | none | one substitution over the text | the file | - |
| Yosys scripts | none | a list of commands | Yosys and the empty submodule | - |
| simulation task and runner: `common/luigi/simulationrun.py`, `checkdesignhsb.py`, `common/sim/verilator.py` | outputs by run name; the files in a run's directory | require, simulate, read the trace, store | luigi, the simulator, other scripts | a stored output is whole, belongs to its name, and stays |
| experiment pipelines: `perfbenchmark`, `collectrss`, ... | outputs by experiment name | require runs, reduce, store | luigi, the runs, the resources record | the same, and that scripts end |
| resources record: `resourcesrecord.py`, `resourcewrapper` | samples of a process tree, a JSON file | list, sample, poll, write | a build, `CollectRSS` | ends with the build and leaves its final record |
| debug test suite: `benchmarks/debug/*.py`, and its programs | sessions with gdb and openocd | tests | sub-processes | upstream code |
| `env/p`, `pm`, `pt`, `isa`, `benchmarks`, `mt` | - | straight-line tests and kernels | the design | - |
| resources tables, plots, `elf.h` (unused copy of the loader's structures) | - | output | files | - |
| `env.sh`, `tools/`, `docker/` | - | installation | - | - |

### What is hard here

* **Stale translations.** The pager changes PTEs that the hart may have cached, and
  relies on `sfence.vma` and `fence.i` in the right places; a hart with Svadu
  changes the A and D bits of a PTE itself, behind translations cached before.
* **A resource at its limit.** 63 frames, 62 pages, and a freelist whose tail
  pointer becomes 0 one node early.
* **A representation changed five times.** Taints go from lines to blocks to bytes
  to blocks to lines to sections to buffers; each step aligns, pads or merges.
* **Global tables.** The two memories of a simulation load different ELF files and
  one taint file through tables that are never reset.
* **Files as the only lock.** Scripts, simulators, builds and recorders share
  directories and find out about each other by the existence of files; any of them
  may be killed, and all may be started again.
* **Names instead of contents.** An output is found by a checksum taken when a task
  is constructed, of a file that is read much later.
* **A child that disappears** while the recorder looks at it.
* **Concurrent makes in one directory,** any of which may fail, repeated over runs
  with different options and cleanings in between.
* **Decisions on an old text.** The processes that look for unused modules see the
  text as it was when the round began.
* **Passes composed in any order** that find each other's declarations with
  regular expressions.

## 2. Modules

Each component module has its state as VARIABLES, one action per step of the code,
and its properties at its end. Definitions named `Wrong...` are slips in the
definition that follows them; no specification uses them. `MC_*` modules only give
constants their values and choose initial states.

### VmPager (vm.c, entry.S, riscv_test.h) and FlatMemory

`VmPager` is the pager at the granularity at which a hart can observe it: between
two steps of a handler the hart is never interrupted, but every PTE write, flush
and memory access of `handle_fault` is its own action since translations may be
cached in between. Code points are values of `pc`:

| action | code |
|---|---|
| `UserHit`, `HardwareUpdate` | the program's loads, stores, fetches; hardware A/D update |
| `UserFault`, `ECall`, `FpEnable`, with `Trap` | a trap: `medeleg` chooses `trap_entry` and `handle_trap`, or `trap_vector` and `wtf` |
| `BadAddress` | the range assertion of `handle_fault` |
| `MarkPte`, `FlushMarked` | A or D is set, flush, return |
| `PopFrame`, `FlushMapped`, `CopyIn`, `CleanPte`, `FlushCleaned` | take a frame, map it, flush, `memcpy`, clean A/D, flush and `fence.i`, return |
| `Evict`, `EvictSkip`, `EvictDone` | the loop of the ecall branch |
| `PutChar`, `Die`, `Terminate`, `Spin` | `cputstring` of the `assert` macro, one character a step; `terminate(3)` or `wtf`; `do_tohost` with the code; `while (1)` |
| `HostReads` | the host takes a character and clears `tohost` (external) |

The TLB is, per page, the set of PTEs the page has had since the last `sfence.vma`
for it: an access may use any of them, so that a missing flush is noticed and a
superfluous one is not required by accident. `unfenced` are the frames written
since the last `fence.i`, from which a fetch may return anything. The contents of a
page are one value. `freelist_nodes` and `user_mapping` are one array, since
`evict` links nodes of one behind nodes of the other. The write of `user_mapping`
is done with the mapping (the flush in between does not look at it). A failing
assertion sends its message to the host first: each character, and then the exit
code, waits in `do_tohost` until `tohost` is 0 (`vm.c:23-29`, `:58-69`).

The branch of `handle_trap` for illegal instructions (`vm.c:197`) does not appear: its
comment means it for an FP test on a hart without FPU, but `medeleg` (`vm.c:276-280`)
does not delegate that cause, so that no state reaches it. `FpEnable` takes such a
program to `wtf`, as it would any other illegal instruction.

`FlatMemory` is what the environment promises a program: pages that keep what was
stored, loads that return it, and one exit code in `tohost`. The environment
implements it (`FlatMemory == Flat!Spec`); the refinement mapping takes a page's
content from its frame once the copy-in is done and from its image before. That
the code does arrive in `tohost`, also behind the message of an assertion, is a
property of its own (`CodeArrives`). A character on its way to the host is no result:
`FlatMemory` sees 0 in its place.

### VmBoot (vm_boot)

The loop that fills the freelist, one node a step, then `pop_tf`, then the actions of
`VmPager`. The program must always be entered, and in an initial state of `VmPager`
(`BootReachesInit`). In such a state, the freelist follows one of `LfsrRuns`: the
sequences in which every value is the LFSR's successor of the one before.

### TaintTuples, TaintLoader, ElfLoader, Simulation

`TaintTuples` is the class as operators on a list of blocks; a byte mask is the set
of its bits. `TaintLoader` is the DPI library with its three tables. `ElfLoader` is
the other one: a file is a record of what the loader looks at (offsets, sizes,
program headers with their bytes, section headers), `HeadersFit`, `SegmentFits` and
`SectionTableFits` are its assertions, `ReadSegment` is one iteration of its loop.
The loop over section names skips sections of an odd type, so that `.strtab` (type
3) is never found and the symbols are never read in a linker's output; `entry` and
`symbols` have no reader. A segment without bytes in the file is not recorded at all
(`elfloader.cc:214-221`), so that a .bss segment of its own is left as the memory was,
although the zeros are there to clear up to `p_memsz`; what is cleared is the rest of
a segment that has bytes.

`Simulation` composes them with the script that prepares a run and with `ticks.h`:

| actions | code |
|---|---|
| `ParseLine`, `ParseDone` | `parse_taintfile` |
| `Construct` | `SimulationRun.__init__`, which refuses taint for a design without instrumentation |
| `AddTaintbit` | `gen_taintlines` |
| `Launch` | `write_taintfile`, `setup_sim_env`, `check_call` |
| `Main` | `cl_get_tracefile`, `get_sim_length_cycles` |
| `PickMemory`, `ReadElfSegment`, `ReadElfDone` | the `Get_..._ELF_object_filename` functions and `read_elf` |
| `LoadSection`, `StoreSection`, `LoadDone` | a memory's loop over `get_section`, `read_section` |
| `ReadLine`, `ReadDone`, `LoadTaint`, `StoreTaint`, `MemoryDone` | `read_taints`; a memory's loops over `get_taint_section`, `read_taint_section` |
| `Reset`, `TickSimlen`, `TickTrail`, `Finish` | `tb_run_ticks`, the end of `main` |

The memories and `main` are in the designs' submodules and are modelled from the
contract of the functions they call (external): a memory asks for a section, makes a
zeroed buffer of the length it was told, has it filled, and stores it. The order of
the memories is open. A failing assertion, an `exit` and an exception end the run
with the status the caller sees.

Nothing makes a mask as long as the line that it stands on says, or makes two lines or
two segments for one address agree: what is longer than the buffer made for it is
copied behind its end. C says nothing of what comes then, and the model stops there
with the status "overrun". Of a mask's characters the model keeps whether they are
hexadecimal, and even in number (`Digits`): `bytes.fromhex` wants both, the loader's
`char_to_hex` the first. A file that cannot be opened is one without lines. The README
of the repository (`:175`) calls the numbers of a taint file hexadecimal, whereas the
loader and the script read the length as a decimal; the model has numbers.

Two comments of the code disagree with it in words
only: `SIMSRAMELF` and `SIMROMELF` are said to override a default
(`common_functions.cc:14`, `:45`), but without them the simulation exits with 1.

### SimulationRuns, ResourcesRecord, Experiments

`SimulationRuns` is any number of scripts, each working off one experiment: the
experiment is constructed (`Construct` takes the checksum), found complete or asked for
its run (`Requires` takes the checksum again), the run is found complete or its binary
is checked (`CheckHsb`), simulated (`StartSimulation` checks the executable again,
`Spawn` starts it, `Load` is the simulator reading the ELF file; then `FinishSimulation`
or `FailSimulation`), its trace is read and removed, its record stored (`CheckRun`,
`StoreRun`) and reduced (`CheckResult`, `StoreResult`). A script ends with success, with
an exception at any of those steps, or killed between any two. The files are those of
the code: the executable, `trace.vcd` and `stdout.txt` in the run's directory, and the
outputs. A file is abstracted to what it was made from, or to half of it, or to a
mixture. Of the parameters in a name only the checksum and `dotrace` are told apart; the
others behave like `dotrace`. The write to a temporary path is no step, since nobody
reads the path. luigi's check that the output is still missing and its `os.rename` are
two, and the rename replaces what has come in between. Three history variables say where
scripts have got in each other's way: `strayed` the names in use while the binary
changed, `shared` the runs two scripts simulated at once, `met` the outputs two scripts
have both found missing.

`ResourcesRecord` is one recorder and its build. The loop is `List`, `Sample` (which
starts over when a listed process is gone), `Poll`, `Open` (which truncates the
file), `Dump`. The build's own process stays until it is polled, as an unreaped child
does, so that only helpers can disappear. A command that does not exist ends the
recorder before its first record (`BuildMissing`). `Collect` is `get_rss`, which
does not look at `meta_final`: it stores the figure of a running or killed build as
readily as that of a finished one. No property is stated of it.

`Experiments` lets them share the simulation binary: builds (recorded or not) link
it, `make clean` removes it, scripts need it, `CollectRSS` requires it.

### BuildPlan, BuildAll

`BuildPlan` computes the task lists from the designs and options. `BuildAll` is a
user who runs the three scripts in any order with any options. A pool stage is
Python's `multiprocessing.Pool`: the list is cut into chunks of
`ceil(tasks / (4 * workers))`, a free worker takes the next chunk, a raising task
drops the rest of its chunk, and `starmap` returns when all chunks have. A make
builds what is missing among its target and prerequisites, or fails having built
some of it.

### UnusedModules (remove_unused_modules.py)

The text is the set of modules it still defines; what its regular expressions tell
apart is in five sets chosen at the start: instances, instances whose line repeats
the name in a comment, headers with `import` (whose removal finds nothing, as the
second expression lacks it), labelled ends, and names with `$` or a backslash, which
the expressions take for more than a character and never find. What a module needs is
said in terms of its instances, not of the expressions; `Mentions` is what these see
of them. The parallel search of a round is
one step, because every process has the same copy of the text.

### ConcatPasses, VerilogPasses

`ConcatPasses` rewrites one line: what each pass matches, as its expression does (the
right-operand pass also takes reductions), with the operators in it, the widths
`concatbitwidth.py` computes, and the lines it writes. The dividing pass takes `{a, b} &
{c, d}` for one concatenation and cuts it at the commas: `PartAssign` writes what comes
of it, a part with the operator in it being an operation again. If the operator is not
in the first part, the operation is `Torn`: what part 0 has of the left operand is put
before the operation on the rest. A declaration `matches` if `concatbitwidth.py:16`
finds it; lists, ports in a header and `output reg [1:0] q;` do not match, nor do the
wires `[n-1:0]` of the reduction and dividing passes, and the lookup goes on to an
earlier module or settles for one bit. `&&` and `||` and repetitions in the input are
left out, and each pass runs at most once on a file: a second run would number its wires
from 0 again. Compression is stated by the positions at which groups of equal elements,
or of bits that count down, begin (`Groups`), where the code goes through the elements
with a counter. `VerilogPasses` runs passes on files. `VerilogValues` defines what a
line means in Verilog, where a declaration of any form counts and only within its
module, which `ValuesKept`, `WidthsKept` and `TermsKept` compare before and after: the
terms or the bits of a concatenation, with each wire the passes have made up replaced by
what its driver gives it (`WireTerms`, `WireBits`, recursive functions on the names of
those wires).

## 3. Runs

| run | states | question and answer |
|---|---|---|
| `vm` | 109 488 | Does every seed lead into the program, and is the pager flat memory, with frames conserved, no failing assertion, dirty pages marked, every access completed, and the exit code delivered also by an assertion that prints its message first? Yes. |
| `simulation` | 173 258 | Does a simulation only start with complete images and the right taints, for the right number of ticks? Yes, up to segments without bytes in the file and addresses that both files claim, and if the taints go through `taintbits`; and every run ends. |
| `experiments` | 145 640 | Are stored outputs whole, of the binary they are named after, and never replaced? Does the recorder end with a final record? Yes, for runs that scripts do not share and names not in use when the binary changes. |
| `build_all` | 61 631 | Are concurrent makes independent and "Success!" true? Yes. |
| `unused_modules` | 54 212 | Does it keep what is needed and remove the rest? Yes, up to echoed names, labelled and importing modules and odd names. |
| `verilog_passes` | 907 579 | Do passes keep values, widths, terms, and use fresh names? Yes, where no finding below applies. |
| `taint_parse` | violation | `asbytes` returns the last block only. |
| `shared_trace` | violation | a script removes the trace another one of the same run is about to read. |
| `clean_declined` | violation | "Aborted." is printed and the cleaning goes on. |
| `single_ref` | violation | comments and end labels mislead `is_single_ref`: a labelled module is never found unused, and one whose only instances have its name in a comment behind is. Each is enough for a violation; the trace TLC prints is of whichever it meets first. |
| `compress_values` | violation | a decreasing run becomes a slice of other bits. |
| `expand_operands` | violation | the passes that "expand an expression" do not keep its operands: the dividing pass tears `{a} & {b}` apart, and the expand passes cut off a signal whose declaration the lookup of widths misses. |

`ExpandKeepsOperands`, the property of the last run, has two parts for these two
disagreements, each of which is violated by itself.

The restrictions in the properties are where the code makes no provision:

* `OutputsComplete` is said of runs in whose directory one script at a time was at
  work; `shared_trace` shows what happens otherwise.
* `OutputsBelongToNames` is said of names that no script was using when the benchmark
  was compiled anew. The version of the simulation binary is in no name, so that
  outputs survive a rebuild of the design; nothing in the code says they should not.
* `StoredOnce` is said of outputs that no two scripts have both found missing: between
  luigi's check and its rename another script may store its own, which is replaced.
* `MemoriesHoldTheirImages` excepts by name the segments without bytes in the file, and
  in the memory that is filled last those at an address where the other memory's file
  has other bytes (`Contested`): `insert` keeps the ones that came first.
* `SectionsFillTheirBuffers` excepts contested addresses too, and taint files in which a
  line has more bytes in its mask than it, or another line of the same address, makes
  room for (`Fitting`). A job's taint file is one that the script has written, and
  for it nothing is excepted.
* `SuccessMeansSimulated` is said of scripts: a taint file written by hand whose mask
  has a character that is no digit ends a simulation with status 0.
* `NeededStay` is said of modules that need each other by instances without their name
  in a comment behind; `single_ref` shows what happens otherwise.
* `ValuesKept` compares bit by bit, and is said of lines whose signals are declared
  above, in their module and in the form that is looked for (`Supposed`;
  `expand_operands` shows what happens otherwise), for files without decreasing runs
  once `compress` has run, for the two expand passes that compute widths, and for the
  reduction pass on elements of one bit: it declares one bit per element
  (`expand_reduction_operand.py:41`), so that a wider one is cut off. The dividing
  pass is left out: the wire of a part (`divide_concat_into_subconcats.py:55`) has
  room for its terms and one bit of all the parts that follow, which its TODO hints
  at. `TermsKept` covers all passes except compression, which is meant to change
  terms; once the file is divided, the operations that are `Torn` are excepted, with
  `expand_operands` to show that they are lost.

### Bounds

* `vm`: three frames, two pages (one code, one data), two values. Both pages faulting in
  takes the freelist to its last node, where `freelist_tail` becomes 0; two pages are
  enough for one to disturb the other; two values tell an image from what was stored. A
  message of two characters (`Message`), so that one has to wait for the host to take
  the other. All four kinds of hart (Svadu, FPU) and all seeds. That the code's own 63
  pages are the period of its 6-bit LFSR is the assumption `RealPeriod`.
* `simulation`: blocks of two bytes, memories of eight addresses, bytes of two bits.
  Taint files of up to three lines and parameters of up to two pairs: two entries may
  share a block, lie in different blocks, touch a block's last byte or cross its end.
  Programs of up to three segments, of both classes, cut off before and behind every
  offset that matters, with and without a boot ROM of its own (without one, both
  memories load the same file, so that the tables know every address already), with a
  segment of no bytes, and with a ROM whose segment has the address of one of the
  SRAM's and less or more bytes (`Clash`). A design without instrumentation, with and
  without taint. Simulated lengths below, at and above the lead time; shells with any
  of the variables missing, and with taint files whose masks are too short, too long or
  no digits, or in which two lines speak of one address.
* `experiments`: two scripts, two contents of the binary, one helper process. Scripts,
  builds and collections are started twice altogether (`MaxStarts`), builds twice,
  the binary changes once (`MaxRecompiles`). Two starts are every pair of actors
  that can meet: two scripts, two builds, a build and a script. A binary that changes
  and changes back, and more actors, are covered by the theorems.
* `build_all`: two designs, one with glift, two jobs or one, two runs (`MaxRuns`):
  the second run starts from whatever the first has left. With one worker five
  syntheses make chunks of two, so that a failure drops a task.
* `unused_modules`: all instance graphs on three modules (chains of two rounds,
  cycles of two); echoes, labels, imports and odd names in some of them.
* `verilog_passes`: concatenations of one to four elements with
  `MAX_TERMS_IN_BRACKET` 2 (two parts, with and without remainder, and three where two
  operands are divided as one, with the operator in the first or a later part), up to
  two such lines per file, any three passes in any order (`MaxPasses`). One signal is
  declared with another width in an earlier module, one in the earlier module only, and
  one in a form that is not looked for; bitwise operations, reductions by `&` and `^`
  and a comparison.

Deadlock is checked in the runs of `VmBoot` and `UnusedModules`. In the others a
behaviour really stops: the last script has ended, the simulation is over, the last
pass has written its file.

### Fairness

`vm` assumes that the hart goes on: the boot and the handlers run (weak fairness of
`BootNext`, `HandleFault` and `Shutdown`), a trapped access is executed again (weak
fairness of `Retry`), as an uninterrupted hart and `sret` do, and the host takes the
characters it is sent (weak fairness of `HostReads`): `do_tohost` waits for it without
a limit, and the environment has no other way to its end. Nothing is
assumed of a program that does not access memory. `build_all` assumes that makes
end and that a question is answered; not that a script is ever started.
`experiments` assumes that the processes of a script and of a recorder go on (weak
fairness of each script's steps, among them that a simulation ends with one result
or the other, and of the recorder's), not that builds end or that anything is
started: `RecorderEnds` is about builds that have ended, while helpers come and go
as long as the build lasts. The other programs are sequential: weak fairness of
their next step.

## 4. Proofs

What is proved holds for every value of the constants under the assumptions named
in the modules, which TLC also evaluates in every run.

**VmPager_proofs** has the pager's inductive invariant, from `PagesAssumption` (code and
data pages are disjoint pages of the test), `CodesAssumption`, `MessageAssumption` (a
message has some number of characters) and `MaxTestPagesIsLfsrPeriod` (the comment of
`riscv_test.h:52`: the LFSR stays in range and no run of it returns to a value too
early). None of the properties is inductive. `IInv` adds to the types:

* `FreelistInv`: the freelist is a suffix of what `vm_boot` built, and the frames of
  the nodes before it are those in use. That the list is not empty when a page
  without a frame faults (`FrameAvailable`) is a counting argument: as many nodes
  are popped as pages are mapped, and there are more nodes than pages. That the
  LFSR reaches every frame (`LfsrCovers`) is a pigeonhole argument from its period.
* `MappingInv`: PTEs and `user_mapping` agree and no frame backs two pages, also
  while eviction is under way, for the pages it has not reached.
* `TlbInv`: outside the windows between a PTE write and its flush, a cached
  translation grants no more than the PTE, and less only on a hart that sets A and
  D itself. This is what a missing flush breaks.
* `FaultInv`: where `handle_fault` stands, and that it was entered for a reason that
  still holds: without it the assertion of `vm.c:148` could not be shown.
* `DirtyInv`: a page that differs from its image has D set; a page without A is the
  page of the access being retried.

There is one lemma per action, and lemmas for the steps that leave most of the
state alone.

**VmBoot_proofs** extends this to the environment from its start, under the same
assumptions: `Typing`, `HandlersSucceed` (`OnlyWildAccessesPanic`), `DirtyPages`
(`DirtyPagesAreMarked`), `NoFrameLost` (`FramesConserved`) and `EnvironmentIsFlat`
(`FlatMemory`), for `BootSpec`. `BootInv` says that either the loop has filled the first
nodes from a run of the LFSR and touched nothing else (`Booting`), or `IInv` holds; the
step between the two is that `EnterUser` leads to `Init`. The refinement is a step
simulation: `UserHit` is a `Read` or a `Store`, the traps that end the program are
`End`, `Terminate` is `Deliver`, eviction is `Forget`, everything else stutters,
`PutChar` and `HostReads` too. Its hard steps are those where a page goes over from its
image to its frame (`PopFrame`, `CopyIn`) and the accesses: a load uses a cached
translation, which by `TlbInv` leads to the page's own frame, and a fetch must not hit a
frame that is still unfenced, which `EndInv` excludes.

**BuildAll_proofs.** From `ConstantsAssumption` and `ListsAssumption` (a list names
each target once, `before` of every design comes in the first stage, and every
binary's instrumentation is on the second list; TLC checks this of `BuildPlan`'s
lists): `Typing`, `NoSharedMake` (`MakesDisjoint`) and `Success`
(`SuccessMeansBuilt`). The invariant says that the chunks in work are disjoint
intervals of what was handed out, and that a task handed out exists, is in a chunk,
or a failure is on record. Two makes of one stage then can only share what an
earlier stage has built.

**Experiments_proofs.** From `ContentsAssumption` and `BuildsAssumption` (the markers
used for files and codes are no contents and no codes) and `BoundsAssumption`, for
any scripts, contents, helpers, codes and bounds: `Typing`, `WholeOutputs`
(`OutputsComplete`), `RightOutputs` (`OutputsBelongToNames`), `FinalRecords`
(`RecorderLeavesFinalRecord`) and, as an action property, `OutputsStay`
(`StoredOnce`). The invariant adds:

* `Alone`: two scripts at work in one directory are on record in `shared`, so that
  `OwnFiles` can say of every other script that the files in its run's directory are
  those of its own simulation, in the state its next step expects.
* `HeldElapsed`, `OwnNames`: what a script holds is of the content its names have the
  checksum of, from each of the two places where a checksum is taken, or the name is
  in `strayed`; and the two names differ only if one has strayed.
* `StillMissing`: an output that some script has found missing is missing until that
  script stores it, or is in `met`; two scripts that make one output have met there.
  This is what makes `OutputsStay` true of the rename, whose own step checks nothing.
* `RecordInv`: what the recorder's values, the file, the child's code and the history
  of outcomes say about each other at every point of the loop, also with a build that
  is not recorded running after one that was.

**Simulation_proofs.** From `ProgramsAssumption` (the segments of one program that have
bytes in the file do not overlap and are not longer there than in memory; nothing is
assumed of two programs), `TaintFilesAssumption` and `JobsAssumption` (the types of
taint files and of a job's parameters, and that a line has four fields; nothing of how
long its mask is), `TicksAssumption` (tick counts are integers, and `SIMLEN` has at most
one value) and `AlignmentAssumption`, for any programs, also cut off ones, taint files,
jobs, shells, memory sizes and tick counts: `CompleteImages`
(`MemoriesHoldTheirImages`), `FilledBuffers` (`SectionsFillTheirBuffers`) and
`SuccessfulRuns` (`SuccessMeansSimulated`). The image is defined by a file's loadable
segments, without the loader's filter, and what the loader leaves out of it is excepted
in the property. The invariant adds:

* `Environment`: a launched simulation has the script's environment, whose taint lines
  come from the blocks and are hexadecimal, or a shell's.
* `Contents`, `Sections`: every address in the loader's map has the bytes of a segment
  of one of the two programs, and the entries of the shared table that are still to
  come are segments of the memory being filled, never left over from the other one.
* `Images`: a memory that is being filled has the byte of every segment that is
  neither in the table nor requested; when no segment waits, that is the image. The
  contested addresses are left out while the last memory is filled: at those the table
  may still have the bytes of the first one's file.
* `TaintTables`: a taint section on its way is a line of the current file, and the mask
  its address now has is that of a line of this file with the same id and address. Of a
  job's lines each fills its mask, so that the buffer is filled; of a user's, `Fitting`
  says that it is not overrun.
* `Clock`: the ticks made so far, by phase.

**Taints_proofs** follows the taints through the same specification and adds `Typing`,
`CollectedInBlocks` (`NothingLostInBlocks`) and `ExactTaints` (`TaintsReachMemories`).
Its lemmas about `TaintTuples` say what each change of representation does to the
taint of an address: `PrivateAdd` adds the mask's and nothing else (`AddAddsTaint`),
however the mask lies across blocks, and keeps blocks aligned, complete and single
(`AddKeepsBlocks`); `GenTaintLines` keeps the taint (`GeneratedTaint`) in lines that
do not overlap (`GeneratedDisjoint`). The invariant adds to `IInv`:

* `Collected`: while the script collects, its blocks taint what the lines or pairs read
  so far taint; once it has launched the simulation, the environment has the blocks'
  lines.
* `TaintImages`: a memory that is being filled has the taint of each line of its file
  that is neither in the table nor requested, a memory not yet reached has none, and
  one that is done has all. `Heard` and `MaskKept` are about the shared tables: a
  line that was read is in the sections still to come, and the mask at its address is
  its own, whatever the other memory's file left there.
* `MaskTypes`, `Timed`: masks and ticks stay what their readers expect.

For lines that overlap the statement would be false: `read_taints` keeps one mask for
an address. A job's lines never do; for a user's files `Disjoint` is the hypothesis.

**UnusedModules_proofs.** For any set of modules: `Typing`, `NeededModulesStay`
(`NeededStay`) and `NothingUnusedStays` (`NothingUnusedLeft`). The invariant speaks of
sets that the script can see to be needed (`Supported`: each module is to be kept or
mentioned by another of the set): such a set stays in the text, and none of its modules
is waiting to be removed. A set that is needed by its instances and has no echo among
them is supported, which gives the first theorem. The second says that what a round
could not remove was out of reach of the expression that removes.

**VerilogPasses_proofs.** From `MaxTermsAssumption`, `PassesAssumption` and
`FilesAssumption` (no line has a name of the passes' own to start with, lines have
their parts, elements are names, bits, slices or numbers), for any files, any number
of lines, concatenations of any length, any `MAX_TERMS_IN_BRACKET` and any order of
the passes: `Typing`, `WiresStayFresh` (`FreshWires`), `TermsStayInPlace`
(`TermsKept`), `WidthsStay` (`WidthsKept`) and `ValuesStay` (`ValuesKept`).

The lemma `RewriteReplaces` covers each pass on one line: the lines that it writes
declare and drive what the line did, or names with the pass's name and the number
`num_brackets_treated`, and nothing twice; for the dividing pass over any number of
parts. `IInv` adds:

* `FileInv`: a made-up name in the file is one of a pass that was applied, so that the
  pass that runs cannot meet its own names.
* `OutInv`: what the output says was said by a line already read, by one for each, or
  has a number below the counter. Two equal names in the output would thus come from
  two lines of the file, and by `FileInv` from the file before all passes.
* `Counters`: the counter is behind the line number.

The three properties of meaning compare the file with `origin`, which no step can see:
a step knows the file that the pass reads. Two more invariants carry the comparison
over the passes, and over the lines of the one that runs:

* `TermsInv` (for `TermsKept`): whatever stands for the made-up wires as their drivers
  say (`Solves`), each line of the file before the passes has a line in the file now
  with the same terms (`Stays`), and something does stand for them (`Solved`):
  without the latter, wires that drive each other would make the first say nothing.
  The part for the running pass speaks of the lines already read (`ReadStay`). It is
  stated of all solutions, as `WireTerms` is one of the file only, and not of the
  output while it grows; fresh names let a solution be extended line by line. A line
  that the dividing pass has torn apart counts no longer (`Torn`); of the others it
  divides one operand, and the operation on the other stays in part 0.
* `ValuesInv` (for `ValuesKept` and `WidthsKept`): an operand of a line is the one it
  had before, compressed if `compress` has run (`Packed`), or a wire whose driver is
  that and whose declaration is as wide as it is, if its signals are declared as the
  lookup supposes (`Stands`, `Presumed`, `Fits`), and every other net is in the scope
  it was in (`Native`), though declarations were put in between.
  Only such files are `Sound` that the next pass can compute widths for. It is said
  for the combinations of passes that `ValuesKept` speaks of and some more (`Good`:
  without the dividing pass, and without the reduction pass or without compression).
  A wire declared before `compress` runs keeps the width of its operand, as no operand
  changes its own.

That compression keeps widths, and values where nothing counts down, is reasoned
about by groups: a position belongs to the group of its rank among the positions
where a group begins, the elements of a group add up to what replaces it, and the
concatenation is that of the groups (`Regroups`).

The library's induction theorems take an operator as a parameter, which none of the
installed provers can instantiate. Where a lemma needs induction, over the terms of a
bracket, the parts of a divided one or the groups of a compressed one, it is over a set
of numbers (`InductionTo`: a set with 0, and with i if it has i - 1, has all up to n),
which follows from the least element of a set (`WellFoundedInduction`). The recursive
functions of the model (`BracketWidth`, `WireTerms`, `WireBits`) and `FlattenSeq` are
first shown to exist and to satisfy their equation, then used by it.

Only model-checked:

* Liveness under fairness, which is out of the prover's reach: `AccessCompletes`,
  `CodeArrives`, `BootReachesInit`, `EveryRunEnds`, `ScriptsEnd`, `RecorderEnds`,
  `Terminates`. Of `BootReachesInit` the safe half is proved: the boot loop enters the
  program in no state but an initial one of `VmPager` (`BootInvariance`).
* That the 63 of `riscv_test.h` is the period of the LFSR (`RealPeriod`): TLC computes
  it, the proofs have it as an assumption.

## 5. Not modelled

* `coherence_torture` on the other harts: no-op reads and writes, invisible at the level
  of page contents. The page-table levels above the last, PMP and CSR set-up of
  `vm_boot`.
* The text level of the Verilog filters beyond what an expression tells apart, and
  the one-substitution filters altogether.
* The experiment tasks beside `SingleDesignPerformanceExperiment` and `CollectRSS`
  have the same shape and are represented by it. `perfbenchmark-all-...` names its
  output without the checksums of the binaries, so that it is not made again when
  they change; its `get_design_numcycles` returns nothing.
* A simulator that survives its script (`kill -9`), and a recorder killed without its
  build: nothing in the code deals with them.
* `resourcesgenerate.py` and the plots: output only. It evaluates the records as
  Python and expects a field `meta_hostname` that the recorder does not write.
* `elf.h` in `common/dv`: an unused copy of the structures in `elfloader.cc`.
* The multicore debug program: its hand-shake needs a weak memory model, and it is
  upstream code.
* Yosys passes, designs, their Makefiles and testbenches: in empty submodules;
  modelled only by how this repository uses them.
* `benchmarks/debug`'s harness, the ISA tests and kernels, `tiny-malloc.c`:
  upstream or vendored code that the CellIFT flow runs as its workload.
* Plots, tables, installation: output or configuration without steps.

## 6. Plan

Written, in the order of importance: the pager, its abstract memory and its boot; the
simulation with its loaders; the experiments with their runs, builds and records; the
fleet builds; the removal of unused modules; the Verilog passes. Every safety
property that a passing run checks is a theorem.

What is left of the code is listed in section 5 with the reasons; no module is
planned. Left for proofs: an abstract specification of the stored outputs (names that
get a content once) which `Experiments` implements. `StoredOnce`, its step property, is
proved.
