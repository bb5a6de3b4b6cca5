------------------------------ MODULE Harness -------------------------------
(***************************************************************************)
(* A test executable from main() to its exit status: the counters of       *)
(* perf_helpers.c, the JSON document of probe_helpers.c, the allocations,  *)
(* and the checkpoint that perf_init has the simulator save.  The programs *)
(* are those of the catalogue; each statement is an action.                *)
(*                                                                         *)
(* A statement takes a few instructions besides the kernel it calls, so    *)
(* that a counter that is read or enabled late, early or in another order  *)
(* counts something else.  The machine's own counters are Modulus wide.    *)
(***************************************************************************)
EXTENDS TestProgram, FiniteSets

CONSTANTS
  Programs,     (* the tests                                                *)
  Builds,       (* the targets of the Makefile: linux, spike, checkpoint   *)
  Modulus,      (* bound: the width of rdcycle and rdinstret, here 2^30    *)
  Starts,       (* what the machine's counters may stand at                *)
  Cpi,          (* cycles of an instruction, to tell the counters apart    *)
  MaxRestores   (* bound: restores of a checkpoint                         *)

Event == {"cycles", "instret"}
Cost  == [cycles |-> Cpi, instret |-> 1]

ASSUME HarnessAssumption ==
  /\ Builds \subseteq {"linux", "spike", "checkpoint"}
  /\ Modulus \in Nat \ {0} /\ Starts \subseteq [Event -> 0 .. Modulus - 1]
  /\ Cpi \in Nat \ {0} /\ MaxRestores \in Nat

VARIABLES
  test, build, (* the program that runs, and the target it was made for    *)
  at,         (* the statement main() has reached                          *)
  status,     (* running, or how the process ended                         *)
  hw,         (* the machine's counters, as rdcycle and rdinstret see them *)
  fallback,   (* use_fallback                                              *)
  fd,         (* is ctx.fd_... a descriptor (or -1)?                       *)
  open,       (* the perf events that are open                             *)
  on, count,  (* is an event enabled, and what has it counted?             *)
  base,       (* fb_cyc_start, fb_inst_start                               *)
  got,        (* the variables cycles and instret of main; -1: never set   *)
  operands,   (* the floating-point registers: none, set or lost           *)
  ptr,        (* the pointers of main: uninit, null, block or freed        *)
  live,       (* blocks allocated and not freed                            *)
  emitted,    (* probe.emitted                                             *)
  log,        (* the lines of standard output the properties tell apart    *)
  image,      (* the checkpoint: none, or the process as it was            *)
  restores,
  last,       (* instructions of the latest call of a kernel, and          *)
  denied      (* has an allocation failed?  Only the properties read them  *)

counters == <<fallback, fd, open, base>>
heap     == <<ptr, live, denied>>
output   == <<emitted, log>>
saved    == <<image, restores>>
fixed    == <<test, build>>
time     == <<hw, on, count>>
vars == <<fixed, at, status, time, counters, got, operands, heap, output, saved, last>>

Statement == test.main[at]
Spike     == build # "linux"
NLOOP     == test.nloop[Spike]

Init ==
  /\ test \in Programs /\ build \in Builds
  /\ at = 1 /\ status = "running"
  /\ hw \in Starts
  /\ fallback = FALSE
  /\ fd = [e \in Event |-> FALSE] /\ open = [e \in Event |-> FALSE]
  /\ on = [e \in Event |-> FALSE] /\ count = [e \in Event |-> 0]
  /\ base = [e \in Event |-> 0] /\ got = [e \in Event |-> -1]
  /\ operands = "none"
  /\ ptr = [s \in test.slots |-> "uninit"] /\ live = 0 /\ denied = FALSE
  /\ emitted = 0 /\ log = <<>>
  /\ image = <<>> /\ restores = 0 /\ last = 0

-----------------------------------------------------------------------------
At(op) == status = "running" /\ at <= Len(test.main) /\ Statement.op = op

(* Defect: the counters of the machine never wrap. *)
HwAfter_NoWrap(n) == [e \in Event |-> hw[e] + n * Cost[e]]

(* n instructions are executed. *)
HwAfter(n) == [e \in Event |-> (hw[e] + n * Cost[e]) % Modulus]

CountAfter(n) == [e \in Event |-> IF on[e] THEN count[e] + n * Cost[e] ELSE count[e]]
Spend(n) == hw' = HwAfter(n) /\ count' = CountAfter(n) /\ UNCHANGED on

Continue == at' = at + 1 /\ UNCHANGED status
Crash    == status' = "crashed" /\ UNCHANGED at

(* Code of the C library may use every floating-point register a caller    *)
(* does not expect to survive.                                             *)
LibraryCall == operands' \in {operands, IF operands = "set" THEN "lost" ELSE operands}

(* perf_event_open for cycles, and if that succeeds for instructions; if   *)
(* this one fails the first is closed.  Both fields are then -1.           *)
OpenCounters(cycles, instret) ==
  /\ fallback' = ~(cycles /\ instret)
  /\ fd'   = [e \in Event |-> cycles /\ instret]
  /\ open' = fd'

(* The simulator that writes a checkpoint has no perf events.              *)
InitCounters ==
  /\ \E cycles, instret \in BOOLEAN :
       /\ Spike => ~cycles
       /\ ~cycles => ~instret
       /\ OpenCounters(cycles, instret)
  /\ Spend(1) /\ LibraryCall /\ Continue
  /\ UNCHANGED <<fixed, base, got, heap, output, restores, last>>

(* The last thing perf_init does in a checkpoint build is to write the     *)
(* register on which the simulator saves the process.                      *)
PerfInit ==
  /\ At("perf_init")
  /\ InitCounters
  /\ image' = IF build = "checkpoint"
              THEN [at |-> at + 1, fallback |-> fallback', fd |-> fd', open |-> open',
                    operands |-> operands', ptr |-> ptr, live |-> live]
              ELSE image

InitialiseBoard == At("initialise_board") /\ InitCounters /\ UNCHANGED image

(* Defect: the events are enabled and not reset. *)
PerfStart_NoReset ==
  /\ At("perf_start")
  /\ IF fallback
     THEN /\ base' = [cycles |-> HwAfter(2).cycles, instret |-> HwAfter(1).instret]
          /\ Spend(3) /\ UNCHANGED operands
     ELSE /\ hw' = HwAfter(4) /\ on' = open
          /\ count' = [count EXCEPT !.cycles = @ + Cpi]
          /\ LibraryCall /\ UNCHANGED base
  /\ Continue
  /\ UNCHANGED <<fixed, fallback, fd, open, got, heap, output, saved, last>>

(* rdinstret, rdcycle; or reset both events, enable cycles, then instret.  *)
PerfStart ==
  /\ At("perf_start")
  /\ IF fallback
     THEN /\ base' = [cycles |-> HwAfter(2).cycles, instret |-> HwAfter(1).instret]
          /\ Spend(3) /\ UNCHANGED operands
     ELSE /\ hw' = HwAfter(4) /\ on' = open
          /\ count' = [e \in Event |-> IF open[e] /\ e = "cycles" THEN Cpi ELSE 0]
          /\ LibraryCall /\ UNCHANGED base
  /\ Continue
  /\ UNCHANGED <<fixed, fallback, fd, open, got, heap, output, saved, last>>

(* rdcycle, rdinstret and the differences; or disable both and read them.  *)
StopCounters ==
  IF fallback
  THEN /\ got' = [cycles  |-> (HwAfter(1).cycles - base.cycles) % Modulus,
                  instret |-> (HwAfter(2).instret - base.instret) % Modulus]
       /\ Spend(3)
  ELSE /\ count' = [cycles |-> CountAfter(1).cycles, instret |-> CountAfter(2).instret]
       /\ got' = [e \in Event |-> IF open[e] THEN count'[e] ELSE got[e]]
       /\ on' = [e \in Event |-> FALSE] /\ hw' = HwAfter(4)

(* Defect: without a fallback, perf_stop waits for events never opened.     *)
PerfStop_NoFallback ==
  /\ At("perf_stop") /\ ~fallback
  /\ StopCounters /\ Continue
  /\ UNCHANGED <<fixed, counters, operands, heap, output, saved, last>>

PerfStop ==
  /\ At("perf_stop")
  /\ StopCounters /\ Continue
  /\ UNCHANGED <<fixed, counters, operands, heap, output, saved, last>>

Line(iters, insns) ==
  [kind |-> "perf", iters |-> iters, insns |-> insns,
   cycles |-> got.cycles, instret |-> got.instret]

PerfPrint ==
  /\ At("perf_print")
  /\ log' = Append(log, Line(NLOOP * Statement.times, Statement.insns))
  /\ Spend(1) /\ LibraryCall /\ Continue
  /\ UNCHANGED <<fixed, counters, got, heap, emitted, saved, last>>

(* Embench's stop_trigger closes the events before it prints.              *)
StopTrigger ==
  /\ At("stop_trigger")
  /\ StopCounters
  /\ open' = IF fallback THEN open ELSE [e \in Event |-> FALSE]
  /\ log' = Append(log, [Line(1, 0) EXCEPT !.cycles = got'.cycles,
                                           !.instret = got'.instret])
  /\ Continue
  /\ UNCHANGED <<fixed, fallback, fd, base, operands, heap, emitted, saved, last>>

PerfClose ==
  /\ At("perf_close")
  /\ open' = [e \in Event |-> open[e] /\ ~fd[e]]
  /\ Spend(1) /\ Continue
  /\ UNCHANGED <<fixed, fallback, fd, base, got, operands, heap, output, saved, last>>

-----------------------------------------------------------------------------
(* A kernel that leaves its buffer, or walks what is no block, crashes the  *)
(* process: it follows an empty or an undefined pointer.                    *)
Safe(kernel) ==
  kernel.reach <= kernel.bytes /\ \A s \in kernel.walks : ptr[s] = "block"

Call ==
  /\ At("call")
  /\ LET k == Statement.kernel
         n == Work(Statement, NLOOP)
     IN  IF Safe(k)
         THEN Spend(n + 1) /\ last' = n /\ Continue
         ELSE Crash /\ UNCHANGED <<time, last>>
  /\ UNCHANGED <<fixed, counters, got, operands, heap, output, saved>>

(* The operands are moved to the registers in one asm statement.           *)
SetFpOperands ==
  /\ At("operands")
  /\ operands' = "set"
  /\ Spend(1) /\ Continue
  /\ UNCHANGED <<fixed, counters, got, heap, output, saved, last>>

(* What main does when a pointer it checks is null. *)
Otherwise ==
  IF Statement.otherwise = 0
  THEN status' = "failed" /\ UNCHANGED at
  ELSE at' = at + Statement.otherwise /\ UNCHANGED status

Slots == Statement.slots
AllocOk ==
  /\ At("alloc")
  /\ ptr' = [s \in DOMAIN ptr |->
               IF \E i \in DOMAIN Slots : Slots[i] = s THEN "block" ELSE ptr[s]]
  /\ live' = live + Len(Slots)
  /\ Spend(1) /\ LibraryCall /\ Continue
  /\ UNCHANGED <<fixed, counters, got, denied, output, saved, last>>

(* posix_memalign fails for the k-th block: those before it are built, it   *)
(* is null, and those after it were never assigned.                         *)
AllocFails ==
  /\ At("alloc")
  /\ \E k \in DOMAIN Slots :
       /\ ptr' = [s \in DOMAIN ptr |->
                    IF \E i \in DOMAIN Slots : Slots[i] = s
                    THEN LET i == CHOOSE i \in DOMAIN Slots : Slots[i] = s
                         IN  IF i < k THEN "block" ELSE IF i = k THEN "null" ELSE "uninit"
                    ELSE ptr[s]]
       /\ live' = live + k - 1
  /\ denied' = TRUE
  /\ Spend(1) /\ LibraryCall /\ Otherwise
  /\ UNCHANGED <<fixed, counters, got, output, saved, last>>

(* Defect: build_tlb_chain returns without free(buf). *)
ScratchFails_Leak ==
  /\ At("alloc") /\ Statement.scratch # "none"
  /\ denied' = TRUE
  /\ IF Statement.scratch = "checked"
     THEN /\ ptr' = [ptr EXCEPT ![Slots[1]] = "null"]
          /\ live' = live + 1
          /\ Spend(1) /\ LibraryCall /\ Otherwise
     ELSE Crash /\ UNCHANGED <<ptr, live, time, operands>>
  /\ UNCHANGED <<fixed, counters, got, output, saved, last>>

(* The array "order" cannot be allocated: a builder that checks it frees    *)
(* its block and returns null, the others write through the null pointer.   *)
ScratchFails ==
  /\ At("alloc") /\ Statement.scratch # "none"
  /\ denied' = TRUE
  /\ IF Statement.scratch = "checked"
     THEN /\ ptr' = [ptr EXCEPT ![Slots[1]] = "null"]
          /\ Spend(1) /\ LibraryCall /\ Otherwise
          /\ UNCHANGED live
     ELSE Crash /\ UNCHANGED <<ptr, live, time, operands>>
  /\ UNCHANGED <<fixed, counters, got, output, saved, last>>

(* free: nothing for a null pointer, a crash for one that is no block.      *)
Free ==
  /\ At("free")
  /\ LET freed == {Slots[i] : i \in DOMAIN Slots}
     IN  IF \A s \in freed : ptr[s] \in {"block", "null"}
         THEN /\ ptr' = [s \in DOMAIN ptr |->
                           IF s \in freed /\ ptr[s] = "block" THEN "freed" ELSE ptr[s]]
              /\ live' = live - Cardinality({s \in freed : ptr[s] = "block"})
              /\ Spend(1) /\ LibraryCall /\ Continue
         ELSE Crash /\ UNCHANGED <<ptr, live, time, operands>>
  /\ UNCHANGED <<fixed, counters, got, denied, output, saved, last>>

-----------------------------------------------------------------------------
(* The result of the benchmark is right, or main exits with an error.      *)
VerifyBenchmark ==
  /\ At("verify_benchmark")
  /\ Continue \/ (status' = "failed" /\ UNCHANGED at)
  /\ Spend(1) /\ LibraryCall
  /\ UNCHANGED <<fixed, counters, got, heap, output, saved, last>>

ProbeBegin ==
  /\ At("probe_begin")
  /\ emitted' = 0
  /\ log' = Append(log, [kind |-> "json_begin"])
  /\ Spend(1) /\ LibraryCall /\ Continue
  /\ UNCHANGED <<fixed, counters, got, heap, saved, last>>

Point == [kind |-> "point", x |-> Statement.x, comma |-> emitted > 0,
          line |-> Line(NLOOP, Statement.insns)]

(* Defect: emitted is not counted. *)
ProbeEmitPoint_NoCount ==
  /\ At("probe_point")
  /\ log' = Append(log, Point)
  /\ Spend(1) /\ LibraryCall /\ Continue
  /\ UNCHANGED <<fixed, counters, got, heap, emitted, saved, last>>

ProbeEmitPoint ==
  /\ At("probe_point")
  /\ log' = Append(log, Point)
  /\ emitted' = emitted + 1
  /\ Spend(1) /\ LibraryCall /\ Continue
  /\ UNCHANGED <<fixed, counters, got, heap, saved, last>>

ProbeEnd ==
  /\ At("probe_end")
  /\ log' = Append(log, [kind |-> "json_end"])
  /\ Spend(1) /\ LibraryCall /\ Continue
  /\ UNCHANGED <<fixed, counters, got, heap, emitted, saved, last>>

(* return 0 *)
Return ==
  /\ status = "running" /\ at > Len(test.main)
  /\ status' = "passed"
  /\ UNCHANGED <<fixed, at, time, counters, got, operands, heap, output, saved, last>>

(* The image is loaded into a machine whose counters stand anywhere; what   *)
(* the process was doing, and had printed, since then is not part of it.    *)
Restore ==
  /\ image # <<>> /\ restores < MaxRestores
  /\ restores' = restores + 1
  /\ at' = image.at /\ status' = "running"
  /\ hw' \in Starts
  /\ fallback' = image.fallback /\ fd' = image.fd /\ open' = image.open
  /\ on' = [e \in Event |-> FALSE] /\ count' = [e \in Event |-> 0]
  /\ base' = [e \in Event |-> 0] /\ got' = [e \in Event |-> -1]
  /\ operands' = image.operands
  /\ ptr' = image.ptr /\ live' = image.live /\ denied' = FALSE
  /\ emitted' = 0 /\ log' = <<>> /\ last' = 0
  /\ UNCHANGED <<fixed, image>>

Step ==
  \/ PerfInit \/ InitialiseBoard \/ PerfStart \/ PerfStop \/ PerfPrint
  \/ StopTrigger \/ PerfClose \/ Call \/ SetFpOperands
  \/ AllocOk \/ AllocFails \/ ScratchFails \/ Free \/ VerifyBenchmark
  \/ ProbeBegin \/ ProbeEmitPoint \/ ProbeEnd \/ Return

Next == Step \/ Restore

(* The processor goes on executing a process that can go on. *)
Spec == Init /\ [][Next]_vars /\ WF_vars(Step)

-----------------------------------------------------------------------------
OfKind(s, kind) == Picked(s, {i \in DOMAIN s : s[i].kind = kind})
Lines  == OfKind(log, "perf")
Points == OfKind(log, "point")

(* What the statements around a kernel may add to its window. *)
Slack == 5

(* Every variable holds a value of its type. *)
TypeOK ==
  /\ build \in Builds
  /\ at \in 1 .. Len(test.main) + 1
  /\ status \in {"running", "passed", "failed", "crashed"}
  /\ hw \in [Event -> 0 .. Modulus - 1]
  /\ fallback \in BOOLEAN
  /\ fd \in [Event -> BOOLEAN] /\ open \in [Event -> BOOLEAN]
  /\ on \in [Event -> BOOLEAN] /\ count \in [Event -> Nat]
  /\ base \in [Event -> 0 .. Modulus - 1] /\ got \in [Event -> Nat \cup {-1}]
  /\ operands \in {"none", "set", "lost"}
  /\ ptr \in [test.slots -> {"uninit", "null", "block", "freed"}]
  /\ live \in Nat /\ denied \in BOOLEAN
  /\ emitted \in Nat /\ Len(log) <= 2 * Len(test.main)
  /\ restores \in 0 .. MaxRestores /\ last \in Nat

(* What perf_stop hands out is the work of the one kernel call before it,   *)
(* in both counters, and at most Slack instructions more: whichever way of  *)
(* counting perf_init settled on, wherever the counters of the machine      *)
(* stood or wrapped, however often it was measured before, and on whatever  *)
(* machine a checkpoint was restored.                                       *)
WindowIsKernel ==
  (status = "running" /\ at > 1 /\ test.main[at - 1].op = "perf_stop") =>
    \A e \in Event : got[e] \in Cost[e] * last .. Cost[e] * (last + Slack)

(* No path through perf_init, an allocation that fails or a sweep that goes *)
(* on without a row leaves an event or a block behind; and perf_stop reads  *)
(* events that are open and enabled, unless the fallback counts.            *)
ResourcesReturned ==
  /\ fallback => \A e \in Event : ~open[e]
  /\ At("perf_stop") /\ ~fallback => \A e \in Event : open[e] /\ on[e]
  /\ status = "passed" => live = 0 /\ \A e \in Event : ~open[e]

(* No kernel leaves the buffer main gives it, and no freed or unbuilt chain *)
(* is walked, unless an allocation failed: the paths on which cache_size    *)
(* goes on without looking (main.c:337) are the only way to a crash.        *)
CrashNeedsFailedAlloc == status = "crashed" => denied

(* The kernels that take floating-point operands from main are warmed up    *)
(* with them, and measured with them when the fallback counts; with perf    *)
(* events there are library calls between, which may use the registers.     *)
(* fclass_fcvt sets its operand before perf_init and is not covered.        *)
InitFirst == test.main[1].op # "operands"
OperandsKept ==
  (At("call") /\ Statement.kernel.needs /\ InitFirst
     /\ (fallback \/ Statement.share = 0)) => operands = "set"

(* The JSON document of a probe and the ##PERF## lines report the same      *)
(* measurements in the same order, one comma between two points.            *)
PointsMatchLines ==
  /\ Len(Points) <= Len(Lines)
  /\ \A i \in DOMAIN Points :
       /\ Points[i].line = Lines[i] /\ Points[i].x = i
       /\ Points[i].comma <=> i > 1
  /\ status = "passed" /\ log # <<>> /\ log[1].kind = "json_begin" =>
       Len(Points) = Len(Lines) /\ log[Len(log)].kind = "json_end"

(* Calls p makes never execute so much that a counter passes its start.    *)
Disciplined(p) ==
  /\ KeepsRules(p)
  /\ \A i \in DOMAIN p.main, spike \in BOOLEAN :
       p.main[i].op = "call" =>
         Cpi * (Work(p.main[i], p.nloop[spike]) + Slack) < Modulus

(* Every main() that starts allocates, frees, starts, stops, prints and     *)
(* jumps in an order that keeps the rules of TestProgram, on every path     *)
(* that its text allows, taken or not.                                      *)
StartsDisciplined == at = 1 => Disciplined(test)

(* The lines a test owes, from the perf_print calls of its main. *)
OwedLines(w) ==
  LET loops  == w[1].nloop[w[2] # "linux"]
      prints == Picked(w[1].main, All(w[1], Prints))
      Owes(s) == IF s.op = "stop_trigger" THEN [iters |-> 1, insns |-> 0, extra |-> 0]
                 ELSE [iters |-> loops * s.times, insns |-> s.insns,
                       extra |-> LoopControl * loops + Slack]
  IN  [i \in DOMAIN prints |-> Owes(prints[i])]

VerifiesLast(w) == All(w[1], {"verify_benchmark"}) # {}

Report == INSTANCE TestReport WITH
            Tests <- Programs \X Builds, Owed <- OwedLines, Verifies <- VerifiesLast,
            which <- <<test, build>>, lines <- Lines

(* A test prints the lines it owes in order, each with a count of           *)
(* instructions that fits the iterations and instructions it declares, and  *)
(* exits with 0 only after the last.  One that exits with an error has      *)
(* printed none, unless it is Embench's rejection of its own result, which  *)
(* comes after all of them.                                                *)
ImplementsTestReport == Report!Spec

(* Every test comes to an end, restored from a checkpoint or not. *)
TestEnds == status = "running" ~> status # "running"

(* probe_helpers.h: "JSON is written between ##PROBE_JSON_BEGIN## /         *)
(* ##PROBE_JSON_END## markers so it can be extracted from a mixed log       *)
(* stream."  No ##PERF## line stands between the markers.                   *)
JsonBetweenMarkers ==
  \A i, j \in DOMAIN log :
    (i < j /\ log[i].kind = "json_begin" /\ log[j].kind = "perf") =>
      \E k \in i .. j : log[k].kind = "json_end"
=============================================================================
