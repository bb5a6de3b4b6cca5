# riscv-uarch-bench in TLA+

riscv-uarch-bench is a suite of RISC-V microbenchmarks: some 390 small test
programs under `src/src`, a Makefile that cross-compiles each of them, and a
command-line tool (`uarch`, under `src/scripts`) that builds, checkpoints, runs
and reports.  The specifications here cover the parts of it that have a state
worth reasoning about.  Paths below are relative to `src/`.

## The system

### Components

| Component | Files | State it keeps | Operations |
|---|---|---|---|
| Run pipeline | `scripts/uarch-run`, `scripts/lib/{config,discover,execute,collect}.sh` | `$CFG_LOGDIR`: one log per test, `.run_one.sh`, `summary.txt`, `results.csv`; in the shell the list, the counters, the exit status | discover, execute (pool or serial loop), collect |
| Build and checkpoints | `Makefile`, `scripts/uarch-build-uarch` | `bin/<dir>/…`, `checkpoints/…` | make per directory, forced make for checkpoints, a pool of Spike processes, `--clean` |
| Graph workloads | `src/workload/graph/*/*.S` | queue, stack, visited bytes, distances in `.data` | one repetition of the search per loop of `main` |
| Pointer chains | `src/cache/{cache_size,tlb_size}`, `src/dependency/load_use_l2/*` | buffers of linked nodes | shuffle, link, check, walk |
| Dynamic-programming workloads | `src/workload/algo/*` | a table on the stack | one repetition fills it |
| Other workloads | `src/workload/{math,bit,string,tree,container,search,other}` | registers, small arrays | one kernel each |
| Counters | `src/common/perf_helpers.[ch]` | two perf_event descriptors or the start values of rdcycle/rdinstret; `use_fallback`; in checkpoint builds the saved image | init, start, stop, close, print |
| Probe and report | `src/common/probe_helpers.c`, `src/probe/ilp_width`, `scripts/probe_report.py` | the number of points emitted; a JSON text between markers | begin, emit, end; extract, detect, evaluate |
| Reference check | `scripts/lib/refcheck.py`, `uarch-check`, `uarch-update` | none | round and compare a CSV with the reference table |
| Third-party and Embench builds | `scripts/uarch-build-{thirdparty,embench}`, `arch/embench/boardsupport.c` | build trees of submodules; the counters around a benchmark | configure, make, scons, copy; `initialise_board`, `start_trigger`, `stop_trigger` |
| Dispatcher, environment | `scripts/uarch`, `lib/common.sh`, `uarch-setup`, `uarch-pack` | none | dispatch, source an env file, check, tar |
| Instruction tests | `src/{latency,throughput,dependency,memory_order,pipeline_depth}` | buffers and operands of `main`, the counters | a `main` each around an unrolled kernel |

### How they interact

`uarch build` calls make, which leaves an executable per test under
`bin/linux`, `bin/spike` and `bin/checkpoint`; Spike turns the last into files
under `checkpoints/`.  `uarch run` finds executables (or checkpoints) with
`find | sort`, starts one process per test through the text file
`.run_one.sh`, and each process leaves a log: a header with the exit status,
then the output of the test.  `collect_results` reads those logs and nothing else: every
interaction of the pipeline is through files that outlive the process that
wrote them, in a directory that several invocations share (the presets of
`uarch init` name fixed logdirs).  Inside a test, `main` calls `perf_init`,
the kernel under test and `perf_print`; the log carries the printed numbers to
`refcheck` and `probe_report`.

### What is hard, and what would be correct

* **Run pipeline.**  A pool of processes ends in any order; a worker may be
  killed, after which `xargs` starts no other and `|| true` hides it; Ctrl-C
  may come at any point; a second invocation may use the same logdir later or
  at the same time, removing `.run_one.sh` and rewriting logs, summary and CSV.
  Correct means: every verdict is what the test did in this invocation; PASS is
  never invented; summary, counters and exit status agree, and the CSV has
  the measurements of the tests that passed and no others; every invocation ends.
* **Build.**  make decides from times alone, and from only some of the files a
  test is made of.  An edit during a compilation, a build that fails half way
  and a killed checkpoint worker all leave files behind that the next
  invocation finds.  Correct means: when a build ends with status 0, what it
  leaves is what it says: executables of this profile and these sources,
  checkpoints of these executables, and no older ones among them.
* **Graph workloads.**  Fixed-size queue and stack in front of other data, a
  `visited` array that must be reset between repetitions, an unreachable vertex
  with distance Inf.  Correct means: exactly the reachable vertices, in the
  right order, in the memory provided; true shortest distances.
* **Pointer chains.**  A measured latency belongs to a working set of N lines
  only when the walk really goes through N lines.  Correct means: one ring
  through all nodes whatever `rand` returns, no load outside it, and for
  several chains a walk that uses them all.
* **Dynamic programming.**  A table on the stack below the saved registers, not
  cleared by every program, and index arithmetic that in edit_distance maps
  many cells to one word.  Correct means: the recurrences hold in every
  repetition, and no store reaches the frame above the table.
* **Counters.**  Either of two events may fail to open; the fallback reads a
  free-running counter that may wrap between its two readings; a perf event must
  be reset before each measurement; a checkpoint is saved inside `perf_init` and
  restored on another machine.  Correct means: what `perf_stop` hands out is the
  one kernel call before it, and nothing stays open.
* **The tests.**  NLOOP, the `.rept` count of the kernel and the two factors given
  to `perf_print` are three separate texts in each of 390 tests; buffers are
  sized in `main` and walked in assembly; floating-point operands are set in
  `main` and read in assembly, with library calls between; allocations fail.
  Correct means: the printed line describes what was executed, no kernel leaves
  its buffer, operands survive, and exit status 0 means every line is there.
* **Probe.**  A JSON document written in pieces to a stream that other output
  goes to.  Correct means: one comma between two points, the same numbers as the
  ##PERF## lines, and nothing else between the markers (which fails).

`PROJECT.json` lists each hazard at its line, with the properties that cover it.

## The modules

| Module | What it is |
|---|---|
| `RunReport` | what a user may rely on from `uarch run`, with no files and no processes |
| `Runner` | discovery, pool and serial loop, logs, collection; refines `RunReport` |
| `MCRunner` | two invocations, `CFG_JOBS` 2 and 1, or 2 and 2; tests that print two lines, one, or none |
| `RunnerProofs` | proofs about `Runner` |
| `Build`, `MCBuild` | make and the checkpoint pool |
| `BuildProofs` | proofs about `Build` |
| `GraphData` | the matrix, reachability, distance in edges |
| `GraphSearch` | what bfs and dfs compute: marks growing along edges; with a proof |
| `Bfs`, `Dfs`, `Dijkstra` | the three programs; the first two refine `GraphSearch` |
| `Tables` | knapsack, lcs and edit_distance, cell by cell |
| `MCGraph` | composes the graph programs and the tables on their inputs |
| `GraphProofs`, `TablesProofs` | proofs about `Bfs`, `Dfs` and `Dijkstra`, and about `Tables` |
| `PointerChain`, `MCPointerChain` | shuffle, link, check and walks of five strategies |
| `ChainProofs` | proofs about `PointerChain` |
| `TestProgram` | the language of the tests: statements, kernels, `CALC_NLOOP`, the frames most `main`s share, and the rules a `main` keeps |
| `LatencyTests`, `ThroughputTests`, `FpThroughputTests`, `DependencyTests`, `WorkloadTests` | the catalogue: one definition per `main.c`, 390 of them |
| `SweepTests` | the programs with a `main` of their own: pipeline_depth, ilp_width, tlb_size, cache_size, and the `main` of Embench |
| `Harness` | runs a program of the catalogue: counters, allocations, output, checkpoint; refines `TestReport` |
| `TestReport` | what a test promises to the readers of its log |
| `MCSuite` | `Harness` on the whole catalogue |
| `HarnessProofs` | proofs about `Harness`, for any program that keeps the rules, and that those of the catalogue do |
| `InductionLemmas` | induction and recursive functions on the natural numbers, in a form the provers can use |

In every module an operator whose name has an underscore, as in
`Shuffle_NoTemp`, is a plausible bug in the definition before the underscore
(its comment starts with "Defect").  Nothing uses it: `PROJECT.json` pairs it
with the property that fails when it takes the place of the original.

### Runner

A test is its rank in the sorted list, so "the next line of `$TESTS`" is the
least element left.  Per invocation `r`: `phase[r]` follows `uarch-run` from
`discover_tests` to `exit`; `todo[r]` is what `xargs` or `read` has not
consumed; `worker[r][t]` is the process of `.run_one.sh`: *starting* (it must
still open the helper), *running* (the command under `timeout`), *logging* (the
log is truncated, not written), *copying* (the log has its header, and some of the
output), *exited*.  `log[t]` with `output[t]`, `helper`, `summary` and
`csv` are the files of the logdir and belong to no invocation.  A log file is
abstracted to what `collect_results` reads of it: its `# Exit:` line (`log`;
`Unknown` stands for a log without one) and how many ##PERF## lines it has
(`output`).  The constant `Prints` says how many a test prints that exits with
0; cache_size and tlb_size print none, pipeline_depth several.  A test reported
PASS adds its lines to the CSV, as many as the log has: none is possible, as
`grep` then fails without consequence (`uarch-run:62` has turned `set -e` off).
The loop over the lines of one test is part of `Collect`, so two invocations that
collect at the same time mix their rows test by test and not line by line; no
property of overlapping invocations speaks of the CSV.

| Action | Code |
|---|---|
| `Start`, `StartEmpty` | config and `discover_tests`, `uarch-run:24-47` |
| `WriteHelper`, `ChmodHelper` | the heredoc and `chmod`, two steps because another invocation may come between, `execute.sh:5-52` |
| `Spawn`, `OpenHelper`, `TestEnds`, `WriteHeader`, `WriteRest` | one test, `execute.sh:12-50`; the log is truncated, then has its header, then all its output, and a worker may die between any two of these |
| `EndExecute` | `xargs` or the loop is done; `rm -f .run_one.sh` |
| `BeginCollect`, `Collect`, `EndCollect` | `collect.sh`: start the CSV, one iteration per test, exit status |
| `Kill` | a worker dies of a signal: `xargs` stops handing out lines; the serial loop goes on (`\|\| true`) |
| `Interrupt` | Ctrl-C.  `timeout` runs the command in its own process group, so a running test is not hit; the shell and `xargs` of a pool die at once, a `run_one.sh` that waits dies without writing a log.  The serial loop's shell dies with its worker |

A command that reads standard input is a member of `StdinReaders`: in the
serial loop it reads the lines that are left of the list; `xargs` gives its
children `/dev/null`.

### Build

Times and contents are kept relative to each other.  An executable carries the
kinds of source (`main`, `asm`, `common`, `header`) edited since its compiler
read them (`stale`) and those edited since the file was written (`newer`);
make sees only `newer`, and of it only `Prereqs`.  Editing a source is an
action and can come at any moment, also between `Compile` and `Link`; gcc keeps
the old output on a compile error and removes it on a link error.  `make -B`
for checkpoints is `Forced`.  The pool works as in `Runner`, except that this
`xargs` has no `|| true`: with `pipefail` and `set -e` a killed worker fails the
invocation.  `ckpt[t]` is what the files `checkpoints/<t>.*` are: none, partial,
of an older executable, of the current one.

### Graph workloads

Registers and labels of each `.S` file are variables and values of a program
counter, at the granularity of the blocks between labels (`neigh` is one
action per vertex scanned).  `bQueue`, `dStack`, `bVisited`, `jDist` keep their
contents between repetitions, as `.data` does; what a reset writes is what the
code resets.  Vertices are 0 .. V-1, `visited` is eight bytes and so `V <= 8` is
an assumption.  The distances are below 2^31 by far and have no width.

### Pointer chains

`order[c]` is the array `order` when chain `c` is built; `mem` maps the address
of a line to the word at its start.  Addresses are numbers: `Buffer[c]` is
aligned to a page, `Slot` is `NODE_PTR` of tlb_size or the plain stride of the
others.  `rand() % (i + 1)` is any number of `0 .. i`.  `Stored` is the exclusive
or of the strategies 1 and 3 and is its own inverse.  The measured loops of all
strategies are `Chase`; with several chains `selector % NumChains` is
`selector & (NUM_CHAINS - 1)`.  `seen` records what was loaded from, for the
properties only.  The loops of load_use_l2 are assembly; its ring is that of
strategy 0.

### Tables

`tTable` maps a word index to its content; each cell computed is one action, as
are the start and the end of a repetition.  Indices are those of the assembly:
`LcsWord` is the row stride of `lcs.S`, `EdWord` the product `i*j` of
`edit_distance.S`, whose row stride is missing.  A table is allocated on the
stack and only knapsack and lcs clear it; a word that was never written holds a
value of `Garbage`, and what one repetition leaves there the next one finds.
`tStored` and `tLoaded` serve the properties only.

### The tests: TestProgram, catalogue, Harness

A `main` is a sequence of statements, a record each: `perf_init`, `alloc`,
a call of a kernel, `perf_print` with the factors its source passes.  A kernel
is reduced to what `main` depends on: the instructions between two tests of its
loop counter (its `.rept` blocks) and those of the loop itself; the bytes it is
given and the bytes it reaches; whether it reads floating-point operands that
`main` must set; the chains it walks.  The frame that most tests share is
`Framed`, so that `latency_ALU_add == Plain(...)` takes one line with the numbers
of that test; the arguments are those of its CALC_NLOOP, of its `.S` file and of
its `perf_print`, so a mismatch between the three texts is a mismatch here.

The catalogue is a set: tests whose `main`s are the same program with the same
numbers are one element of it, and TLC need not tell them apart.

What makes a `main` right can be read off its text, and `KeepsRules` says it,
statement by statement: what a statement relies on is the doing of earlier
statements, whichever path led to it.

| Rule | What it asks of a statement |
|---|---|
| `CallRule` | the kernel stays in the buffer it is given; the chains it walks have been allocated and not freed; the operands it reads have been set with no library call after |
| `AllocRule` | no pointer that may hold a block is overwritten; where `main` goes on without the block, what it skips is nothing that later statements rely on; where it returns instead, nothing has been printed |
| `FreeRule` | what is freed is held |
| `StopRule` | the events are open, and `perf_stop` follows one call that follows `perf_start` |
| `PrintRule` | what is printed has just been measured, and the two factors declare the work of that call but for the control of its loop |
| (in `KeepsRules`) | a result is verified after the last line that is printed; a checkpoint is saved before the first and before any allocation |
| `PointRule`, `ProbeRule` | a point of a probe follows its line and has its number; every line has a point; nothing is said after the end |

and at the end of `main` no pointer holds a block and the events are closed.
`StartsDisciplined` asks `Disciplined` (the rules, and that no call is long enough for
a counter to come round to its start) of the whole catalogue, which
turns a mistake in one of the 390 texts into a rule broken at a line; the theorems
about `Harness` say that the rules are enough, and `FramesAreDisciplined` that
nothing but the numbers on a frame can break them.

`Harness` runs one program of the catalogue, in one build.  `at` is the statement
`main` has reached, and every statement is an action:

| Action | Code |
|---|---|
| `PerfInit`, `InitialiseBoard` | both events open, the first fails, or the second fails and the first is closed; `perf_init` of a checkpoint build then saves the image (`csrw 0x800`) |
| `PerfStart`, `PerfStop` | with the events: reset, enable, disable, read, one after the other; with the fallback: two reads of the machine's counters and a difference modulo their width |
| `PerfPrint`, `StopTrigger`, `PerfClose` | a line of the log; the events are closed |
| `Call` | the kernel runs NLOOP times, or crashes if it leaves its buffer or walks a chain that is not there |
| `SetFpOperands` | the `asm` statement that fills ft0, ft1, ... |
| `AllocOk`, `AllocFails`, `ScratchFails`, `Free` | `posix_memalign` fails for the k-th block of a statement; `malloc` of `order` fails, checked or not; `free` of an undefined pointer crashes |
| `ProbeBegin`, `ProbeEmitPoint`, `ProbeEnd` | the JSON document, in pieces |
| `VerifyBenchmark` | Embench's check of its result: go on, or exit with an error |
| `Return` | `return 0` |
| `Restore` | a checkpoint is loaded into a machine whose counters stand elsewhere |

A statement also executes instructions of its own (one, or as many as it makes
system calls or reads), so that reading a counter late or in another order is
visible in `got`.  `LibraryCall` is the calling convention: any function of the
C library may change the floating-point registers.

The `main` of Embench is in a submodule that is not part of the repository.
`embench` is therefore external: it has the calls of `boardsupport.c` in the order
in which `doc/embench-analysis-methodology.md:23-31` gives them.
`initialise_benchmark` and `warm_caches` are a repetition each, of which nothing but
the instructions matters.  `verify_benchmark` comes after `stop_trigger`, so a
benchmark whose result is wrong exits with an error after its ##PERF## line.
`TestReport` has this as the one exception to "a test that fails has printed
nothing" (`Verifies`): such a test has printed everything it owes.  Its line
does not reach the CSV, as `collect_results` only reads the lines of a PASS.

## The runs

| Run | Instance | What it shows |
|---|---|---|
| `runner_sequential` | 3 tests, 2 invocations one after the other (pool of 2, serial), 1 Ctrl-C | `FreshVerdict`, `HelperOutlivesWorkers`, and the refinement `ImplementsReport` |
| `runner_shared` | 2 tests, 2 overlapping invocations, 1 kill, 1 Ctrl-C, test 1 reads standard input | what survives all of that: `CountsMatch`, `PassHasWitness` |
| `runner_faulty` | 2 tests (of 2 lines and 1), 2 invocations one after the other (pool of 2, serial), 1 kill, 1 Ctrl-C, with fairness | `SerialStartsAll`, `OneLossPerKill`, `ReportIsOwn`, and the liveness property `EveryRunEnds` |
| `runner_stale` | 2 tests, 2 pools of 2 one after the other, 1 kill | **violation** of `PassWasStarted`.  The first pool has a list of one test, which passes and leaves its log.  The second has both tests; the worker of the other test dies before this one is started, `xargs` starts nothing further, `\|\| true` hides it, and the test that was never started is reported as PASS |
| `build` | 2 tests, 2 profiles, 2 builds, 1 edit, 1 kill | `NoOldCheckpoint`, `OkMeansCurrent`, `ForcedBuildIsCurrent`, `MadeIsUpToDate` |
| `build_arch` | 2 builds, nothing else | **violation** of `ArchInjected`: another `ARCH` compiles nothing |
| `build_clean` | 2 builds, nothing else | **violation** of `CleanSucceeds`: `--clean` of checkpoints fails after cleaning |
| `graph` | every digraph on 3 vertices, weights 1 and 3, and the 5-vertex matrices of the sources; knapsacks with 2 items, words of up to 3 letters, and the data of the sources; up to 2 repetitions | `BfsQueueFits`, `BfsInLayers`, `DfsStackIsPath`, `DfsStackFits`, `DjSettled`, two refinements; `KnapsackBest`, `LcsLongest`, `EditStaysInTable` |
| `pointer_chain` | 3 nodes, 4 chains, every shuffle, 5 strategies, 5 loads | `WalksStayInChain`, `OneRing`, `WorkingSetIsChain`, `ChainNeverBroken` |
| `pointer_mixed` | the same, strategy multi | **violation** of `StreamsAreMixed`: only chain 0 is ever walked |
| `suite` | all 395 tests (59 programs that differ), three builds, every failure of an event or an allocation, two settings of the machine's counters, 1 restore | `StartsDisciplined`, `WindowIsKernel`, `ResourcesReturned`, `CrashNeedsFailedAlloc`, `OperandsKept`, `PointsMatchLines`, the refinement `ImplementsTestReport`, and the liveness property `TestEnds` |
| `probe_json` | the same | **violation** of `JsonBetweenMarkers`: ilp_width prints ##PERF## lines inside its JSON document, which `probe_report.py` then cannot parse |

Each run that holds also checks the type invariant of its module, except
`runner_shared` and `runner_faulty`, whose module's is checked in
`runner_sequential` and proved in general.

**Bounds.**  Two invocations are what it takes for one to find the other's
files; with two tests one can be done while the other is not, and three leave one
waiting while a pool of two is full and make the order of the summary visible.  A test
of two lines can have one of them in its log when its worker dies; in
`runner_sequential` two of the three tests print none.  One kill
and one interrupt suffice because each ends the invocation's hand-out or the
invocation itself; a second would meet states that the first already reached.
In `Build`, two tests let make or the pool stop half way, two profiles and two
builds let the second inherit from the first, and one edit is enough for a file
to be lost between a compiler's read and its write.  Three vertices give every
shape of branch, cycle and unreachable part; the matrices of the sources give
the length.  With three nodes a wrong link or exchange can split off a ring or
leave a node out without breaking the walk at once, and five loads go round the
ring and on; lines of 4
bytes and pages of 4 lines keep `Line % NUM_CHAINS = 0` and let the page offset
wrap, as 64, 4096 and 4 do.  In `Tables` the words reach every branch (equal
letters or not, each of the neighbours the least or greatest) and the second
repetition finds what the first has left; the capacity is smaller than the
weights together.  In `MCSuite` the loop counts are the real ones, 200000000 and
100000 instructions; the machine's counters are 2^30 wide instead of 2^64 (TLC's
numbers have 32 bits), wide enough for the longest measurement, and start at 0
or 300000 cycles below the top, so that in the builds for Spike and checkpoints
they wrap in the kernels of most tests.  `Cpi` = 2 tells cycles from
instructions; a processor whose rate varies would only loosen the bound on cycles.
One restore is as good as several: the image never changes after it is saved.
`SIZES` = 2 and `NUM_RUNS` = 2 stand for the 6 to 46 sizes and the 1 or 5
runs of cache_size and tlb_size: the second size is the one that meets what the first
has left.  `Slack` = 5 instructions is the most that the statements around a
kernel add to its window.  Deadlock is not checked: every one of these programs
ends.

**Fairness.**  `FairSpec` of `Runner` has weak fairness of each step of
each invocation and of each worker.  The operating
system schedules every runnable
process, and `timeout` sends SIGTERM to a command that runs too long; a command
that ignores SIGTERM (there is no `-k`) is outside the assumption.  Nothing is
assumed of `Start`, `Kill` and `Interrupt`.  `Spec` of `Harness` has weak fairness
of `Step`: a processor goes on with a process that can go on, and the kernels
are loops with a count.  Nothing is assumed of `Restore`.

## The proofs

Every theorem holds for every value of the constants within the named
assumption of its module (`RunnerAssumption`, `BuildAssumption`,
`GraphAssumption`, `DijkstraAssumption`, `TablesAssumption`, `ChainAssumption`,
`HarnessAssumption`), which TLC evaluates in the runs.  Some have a hypothesis
besides, which is part of the statement.  `TypeOK` is proved for every module
that has one.

**Runner** (`RunnerProofs`), for any number of tests, invocations, job counts,
kills and interrupts:

| Theorem | Property | Hypothesis |
|---|---|---|
| `TypeCorrect` | `TypeOK` | |
| `CountersAreRight` | `CountsMatch` | |
| `PassesAreWitnessed` | `PassHasWitness` | |
| `HelperIsKept` | `HelperOutlivesWorkers` | `~Overlap` |
| `ReportsAreOwn` | `ReportIsOwn` | `~Overlap` |
| `SerialRunsAll` | `SerialStartsAll` | `StdinReaders = {}` |
| `VerdictsAreFresh` | `FreshVerdict` and `PassWasStarted` | `Undisturbed` |
| `RunnerImplementsReport` | `ImplementsReport` | `Undisturbed` |
| `LossesHaveCauses` | | `~Overlap` |
| `SerialLosesOnePerKill` | `OneLossPerKill` | `~Overlap`, `StdinReaders = {}` |
| `RunsDoNotLoop` | | |

`Undisturbed` is `~Overlap`, no killed worker and no command that reads the loop's
input; `runner_stale` shows what a killed worker does to `VerdictsAreFresh`.
A hypothesis is on the use of the tool, not on its code: overlapping
invocations really lose the helper, and a command that reads the loop's input
really swallows tests.

* `CountInv` adds to `CountsMatch` that what has been read is what has a verdict,
  that the counters are the cardinalities of the sets of verdicts (one more
  element, one more in the counter), and that status 0 is set at the end only.
* `WitnessInv` follows the exit status of 0 from the command to the log and on to
  the verdict; it needs that a line is handed out once, or a second process of
  the same test would overwrite the outcome that the log was written from.
* `AloneInv` says that one invocation is live at a time, that a pool with
  workers has its helper, and that a worker that copies the output has written the
  header (`CopyHasHeader`).
* `FreshInv`: `FreshVerdict` does not say why a log is fresh when `collect_results`
  comes to it.  The invariant adds that no pool has stopped, that a listed test
  waits, is with a worker, or has its outcome in its log, and that the
  collection starts when nothing waits.
* `OwnInv` is `AloneInv` and `CountInv` with what the two files hold after each
  iteration of the collecting loop: the tests read so far, in order, once each, and
  for those that pass the lines of their logs, which nobody writes to any more.
* `RefInv` joins `FreshInv`, `CountInv` and `WitnessInv` with `OnlyListed` and
  `AllRun`, so that the step that sets the exit status delivers a complete set
  of verdicts in `RunReport`, and every other step is a stutter or one of its
  actions.
* `LossesHaveCauses` says what is left of `VerdictsAreFresh` when workers are killed.
  A test is misreported when its verdict is not what it did in this
  invocation.  Then it had a worker, and there are at most as many of these as
  kills (`Bereft`); or it waited in a pool that `xargs` gave up, or in a list that a
  command swallowed (`Curtailed`).  And if the test ended here, what is reported
  instead of its outcome is FAIL: the stale PASS of `runner_stale` needs a test
  that was never run, or whose worker died before it ended.  `LossInv` counts the
  workers that ended without their log (`KillsCover`) and says that the log of a
  test that ended is its own or has no `# Exit:` line (`LogsAreOwn`).
* `SerialLosesOnePerKill`: the `|| true` of the serial loop (`execute.sh:64`) keeps it
  going, so that there a kill costs one test its report at most: its verdict, or
  rows of the CSV when the worker dies after the `# Exit:` line of a test that
  passed and before its output.
* `RunsDoNotLoop`: `StepsLeft` adds up the stages before an invocation and, for
  each test, whether it is yet to be started, opened, ended, given its header, its
  output and its report: `6 + 6 |Tests|` steps.  Every step takes from the invocation it belongs to and leaves the
  others as they are.

**Build** (`BuildProofs`), for any tests, profiles, numbers of builds, edits and
kills: `TypeCorrect`, `OldCheckpointsGone`, `OkIsCurrent`,
`CheckpointBuildIsCurrent` and `MakeLeavesUpToDate`, the properties of the run
`build`, all from one inductive invariant.  `BuildInv` follows an invocation:
which phases a plan allows (`TaskInPhase`, `JobsInPhase`); that what a compiler
misses was edited after the invocation began (`MissedWasTouched`); that make has
yet to consider a test, is compiling it, or has left it up to date (`MakeInv`), and
with `-B` built now (`ForcedInv`); that the pool therefore finds only new
executables (`ReadyToSave`); and that a test waits for the pool, is with a
worker that has removed its old files, or has its line (`PoolInv`), so that
nothing old is left when the invocation ends with 0 (`SavedInv`).  `stopped` and
the exit status carry a failure over to the end: each of these parts
excludes an invocation that has failed.

`BuildsDoNotLoop`: an invocation has at most `4 (3 |Tests| + 2) + 1` steps of its own,
whatever fails or is killed; an edit, which may make make's work grow, does not
add to them, because each directory is gone through once.  The measure needs that
no test is considered again while it is being compiled (`CompiledOnce`).

**Harness** (`HarnessProofs`), for every program that keeps the rules, counters
of any width that start anywhere, any number of cycles per instruction, and
every way `perf_event_open` and the allocations can fail.  The theorems have the
hypothesis `AllDisciplined`, which the last two of them discharge for the catalogue.

* `HarnessInvariant`: `HarnessInv` is inductive.  It is the types (`Flags`, `Place`,
  `Machine`); the blocks that are live are those of the pointers (`HeapInv`), and
  a pointer holds a block only where `Holds` reads that off the text; the events
  are open where `Opened` says so and the fallback is not in use (`EventsInv`);
  between `perf_start` and `perf_stop` the counters show the instructions executed
  since, modulo their width with the fallback (`WindowInv`, with lemmas on
  remainders for the counters that wrap); operands are set where `Kept` says so.
  The saved image satisfies the same, so `Restore` keeps it.
* From it `TypeCorrect`, `WindowsAreKernels`, `AllIsReturned`, `CrashesAreDenials` and
  `OperandsReachKernels`.
* `ReportInv` adds what `main` has said: as many lines and points as statements
  that print stand before `at` (`SaidInv`), the latest line is that of the latest
  call (`CallInv`, `LineInv`), and the points are the lines (`PointsInv`).
  `PointsAreLines` follows, and `HarnessImplementsReport`: the steps of a test
  are steps of `TestReport` or stutter, that is, it prints the lines it owes in
  order, passes only after the last, and fails only before the first or, where
  a `main` verifies its result, after the last.  `OwedLines` picks statements of the
  text by rank, and the lemmas on `Nth` and `Picked` say what that sequence is
  when one more statement has been executed.
* `MainGoesForward`: `main` executes no statement twice, and where it goes on without
  a block it only skips; `ToGo` counts the statements ahead and the restores
  that may still come.
* `FramesAreDisciplined`: `InFrame` says what the frames have in common: an argument of
  `CALC_NLOOP` between 20 and 20000, a kernel that stays in its buffer, and factors of
  `perf_print` that declare the instructions the kernel has and are no more than
  `CALC_NLOOP` was told.  Such a program keeps the rules (`FrameKeepsRules`; `Joined`
  says where each statement of a concatenation stands) and executes at most
  `MostWork` = 230000000 instructions in a call, since `NLOOP * cost` stays within
  INSN_BUDGET (`InBudget`).  The hypothesis `WideCounters` is that the counters do not
  come round in so many, `Cpi * (MostWork + Slack) < Modulus`; `suite` has 2 and 2^30,
  a real machine 2^64.
* `CatalogueIsDisciplined`: the definitions of the five catalogue modules are on a
  frame, each with its own numbers, and Embench's `main` keeps the rules too.  It
  is `AllDisciplined` for the 390 tests, so that the theorems above hold of them with
  no other hypothesis than `WideCounters`.  Four programs of `SweepTests` are not on a
  frame: see below.

**Graph** (`GraphSearch`, `GraphProofs`), for any set of graphs of up to eight
vertices, any weights within `DijkstraAssumption`, and any number of repetitions:

* `SearchFindsAll`: the abstract search marks exactly the reachable vertices.
  `BfsIsSearch` and `DfsIsSearch`: the programs implement it, every step a step or
  a stutter of it; `SearchesFindAll` puts the three together.
* `BfsTypeCorrect`, `BfsStaysInQueue`, `DfsStaysInStack`: neither writes outside its
  queue or stack.  `BfsInv` says that as many queue entries are in use as
  vertices are marked, and that a marked vertex has all its successors marked,
  waits in the queue, or is the one being scanned (then its columns so far have
  been); `DfsInv` says the same of the stack, and that there are never more
  entries on it, with the vertex being scanned, than marked vertices.
* `BfsGoesByLayers`: `BfsLayerInv` says that the queue is sorted by level and spans
  two of them, that all vertices of the levels before are in it, and that entry
  k has level k at most, which keeps every level below V.
* `DfsWalksAPath`: between a scan and the next pop the entries alone are a path;
  while a vertex is scanned, the entries and that vertex are.
* `DijkstraFindsDistances`: a settled vertex has the distance of Bellman and
  Ford's recurrence after V - 1 rounds, `Best[V - 1]`.  `DjInv`: every distance is
  the length of a path (`DjLengths`); no path of any length to a settled vertex is
  shorter (`DjShortest`, by induction on the number of its edges, from `DjNearer` and
  `DjEdges`); and what a repetition leaves behind is right (`DjFinished`).
* `BfsEnds`, `DfsEnds`, `DijkstraEnds`: a repetition takes at most `(V + 2) V + 2`,
  `(V + 2) (2V - 1) + 2` and `2V + 2` steps.  bfs scans a row for each vertex it takes
  out of the queue.  dfs scans a row again whenever a vertex is pushed back, so
  `DfsLeft` counts two rows for each vertex not found and one for each entry on
  the stack, which a visit leaves as they are; the bound on the stack in `DfsInv`
  then bounds the rows.

**Tables** (`TablesProofs`), for any data, number of repetitions and contents of
the stack:

* `KnapsackIsBest`: every word of the table is the best value over all subsets of
  the items done so far.  `BestOfItem` is the recurrence (the best choice leaves
  the last item or takes it), from lemmas on sums over sets of items; `KsInv`
  adds the ranges of the two indices.  The word that a cell is computed from
  still lacks the present item because the capacities descend.
* `LcsIsLongest`: a cell is the length of the longest common subsequence of two
  prefixes.  A common subsequence is a set of pairs of places in the same order
  in both words; at most one pair has the last letter of either (`LastPair`),
  which gives the recurrence (`LongestSame`, `LongestOther`).  `LcsInv` says which
  cells hold their value, and `LcsWords` that no two of them share a word.
* `EditIsContained`: edit_distance stores inside its table, whatever the two words
  are, although its cells are `i*j`.

**Pointer chains** (`ChainProofs`), for any number of nodes and chains and any
layout without overlaps: `ChainTypeOK`, `ChainsAreRings`, `WalksAreSafe` and
`ChainsVerify` from `ChainInv`, which keeps `order[c]` injective and surjective
through the exchanges, counts how many nodes are linked (`Progress`; a later
link must not overwrite an earlier one, for which two nodes must not share
an address), and follows the check of tlb_size position by position.  That
`NODE_PTR` stays inside the buffer is `TlbInside`.  `LoadsCoverTheChain`, from
`LoadsInv`: the lines loaded from are an arc of the ring that grows by one with
each load, so N loads are from N lines.

**Induction.**  The provers cannot instantiate the library's induction theorems,
whose parameter is an operator.  `InductionLemmas` states them for sets: a
predicate is the set of the numbers it holds of.  `LeastNat` comes from the
library's `WFMin`, `Induction` from `LeastNat`, and `Iteration`, from both, says
that a function on a set can be iterated, hence that the recursive functions
`Ball`, `Best` and the sum in `Total`, on which `BfsInLayers`, `DjSettled` and
`KnapsackBest` rest, are defined by their equations.

**Only model-checked.**  The liveness properties `EveryRunEnds` and `TestEnds`: the
prover does not handle fairness and ENABLED.  What is proved of them is their
safety half, in `RunsDoNotLoop` and `MainGoesForward`: a natural number falls with
every step, so that an execution that stops short of the end stops because
nothing is scheduled or nothing can move; that something always can is TLC's.
`StartsDisciplined` of pipeline_depth, ilp_width, tlb_size and cache_size: their
`main`s are on no frame and have no parameter, so TLC's evaluation of the four
texts is complete as it stands (for `SIZES` and `NUM_RUNS` as bounded above).
The five disagreements, which TLC's traces show.

## What is not modelled

* Direct mode of `uarch run` (a bare executable or directory): one loop under
  `set -e` with no state of its own.  JSON parsing, colours, `--help`.
* The Makefile's `list`, `spike-run` and `distclean`; the third-party and Embench
  builds, whose sources are submodules; dispatcher, environment, packing: no
  state that outlives a command.
* Medians, tables and CSV files of cache_size and tlb_size: straight-line
  arithmetic on doubles after the measurements.  The quotients that `perf_print`
  and `probe_emit_point` format, likewise.
* What an instruction computes and how long it takes: the tests exist to find
  out, and it is the processor's part.  Which loads hit, miss or bypass a store
  is not an outcome of the program.
* The kernels of the workloads outside `graph` and `algo`: short loops on fixed
  data whose result nothing reads.  Their `main`s are in `WorkloadTests`.
* The detectors of `probe_report.py` and the comparison of `refcheck.py`: pure
  functions of doubles, which neither TLC nor the provers have.
* The perf events' own failure to count (`read` is not checked by `perf_stop`; an
  event that is multiplexed counts less): the kernel is assumed to do what
  `perf_event_open` promises once it has succeeded.

## Observations

Met while modelling; none is a run of its own, because no document states the
contrary as a property of the program that the model could refute.

* The comment of `CALC_NLOOP` speaks of a floor of 100; with USE_SPIKE it is 10
  (`src/common/perf_helpers.h:42`, `:47`).  Spike's
  floor is reached by the workloads with the longest repetitions only.
* The warm-up is 1000 loops whatever NLOOP is.  In a Spike build NLOOP is 1000 or
  less for most tests, so the warm-up executes as much as the measurement or more.
* pipeline_depth computes NLOOP from 150 instructions per loop; the kernels B and
  C execute 300, twice INSN_BUDGET.
* fclass_fcvt sets its operand before `perf_init`, which may be a library call in
  between: `OperandsKept` leaves this test out.  It also leaves out the measured
  call of every test when perf events are open, because `perf_start` then calls
  `ioctl` between the operands and the kernel.
* A log has its exit status before its output.  A worker that dies between the
  two leaves a PASS with rows missing from the CSV (`OneLossPerKill` counts these).
* Two invocations on one logdir can lose one of them its report: `chmod` fails when
  the other has just removed `.run_one.sh`, and `set -e` ends it (`ChmodHelper`).
* `NFAST` of `memory_order/common.h` may be changed "in this one place", but above
  64 the kernels run past the buffers of the `main`s (the defect `NFAST_Longer`).
* edit_distance.S loads words of its table that nothing has written (its cells
  are `i*j`), so its branches depend on what the stack held before.
* When `build_multi_chain` fails half way, cache_size measures and frees pointers
  that were never assigned; `CrashNeedsFailedAlloc` says that a failed allocation
  is the only way to such a crash.

## Plan

The order of work; what is done is above.

1. `Runner` with `RunReport`, composed with itself through the shared logdir: done.
2. `Build`: done.
3. `GraphData`, `GraphSearch`, `Bfs`, `Dfs`, `Dijkstra`: done; `Tables` beside them: done.
4. `PointerChain`: done; allocation failure and the loop over sizes in `Harness`: done.
5. `TestProgram`, the catalogue, `Harness` with `TestReport`: done.
6. Proofs of all safety properties of `Runner`, `Build`, `Harness`, `PointerChain`, the
   graph programs and `Tables`: done.
7. That `Runner` implements `RunReport` and `Harness` implements `TestReport`: done.
8. What a killed worker costs (`LossesHaveCauses`, `SerialLosesOnePerKill`), that no
   process goes round in circles (the measures of `Runner`, `Build`, `Harness` and
   the graph programs), and that the catalogue keeps the rules the theorems about
   `Harness` ask for: done.
9. Further: which verdicts overlapping invocations keep when only one of them is
   collecting.
