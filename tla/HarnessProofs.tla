--------------------------- MODULE HarnessProofs ----------------------------
(***************************************************************************)
(* Proofs about Harness, for every program that keeps the rules of         *)
(* TestProgram, whatever the width of the machine's counters and wherever   *)
(* they stand: what each statement preserves, that every statement is a     *)
(* step forward, and, last, that the tests of the catalogue keep the rules  *)
(* (the few that have a main() of their own: StartsDisciplined checks).    *)
(***************************************************************************)
EXTENDS Harness, LatencyTests, ThroughputTests, FpThroughputTests,
        DependencyTests, WorkloadTests, SweepTests, FiniteSetTheorems, TLAPS

AllDisciplined == \A p \in Programs : Disciplined(p)

Alive  == status \in {"running", "passed"}
Blocks == {s \in test.slots : ptr[s] = "block"}
IsSequence(s) == \E S : s \in Seq(S)

(* The type invariant, but for what depends on the allocations: the flags  *)
Flags ==
  /\ fallback \in BOOLEAN
  /\ fd \in [Event -> BOOLEAN] /\ open \in [Event -> BOOLEAN]
  /\ on \in [Event -> BOOLEAN]
  /\ denied \in BOOLEAN
  /\ image # <<>> =>
       /\ image.fallback \in BOOLEAN
       /\ image.fd \in [Event -> BOOLEAN] /\ image.open \in [Event -> BOOLEAN]

(* where main is and what it has said,                                     *)
Place ==
  /\ test \in Programs /\ build \in Builds
  /\ at \in 1 .. Len(test.main) + 1
  /\ status \in {"running", "passed", "failed", "crashed"}
  /\ status = "passed" => at = Len(test.main) + 1
  /\ emitted \in Nat /\ IsSequence(log) /\ Len(log) < at
  /\ restores \in 0 .. MaxRestores
  /\ image # <<>> => /\ image.at \in 2 .. Len(test.main) + 1
                     /\ test.main[image.at - 1].op = "perf_init"

(* the counters, and what is in registers and pointers.                    *)
Machine ==
  /\ hw \in [Event -> 0 .. Modulus - 1]
  /\ count \in [Event -> Nat]
  /\ base \in [Event -> 0 .. Modulus - 1] /\ got \in [Event -> Nat \cup {-1}]
  /\ operands \in {"none", "set", "lost"}
  /\ ptr \in [test.slots -> {"uninit", "null", "block", "freed"}]
  /\ live \in Int /\ last \in Nat
  /\ image # <<>> =>
       /\ image.operands \in {"none", "set", "lost"}
       /\ image.ptr \in [test.slots -> {"uninit", "null", "block", "freed"}]
       /\ image.live \in Int

Typed == Place /\ Machine

(* The blocks are counted; main knows from its text which pointers may     *)
(* hold one, and which do if nothing was denied.                           *)
HeapInv ==
  /\ live = Cardinality(Blocks)
  /\ Alive => \A s \in Blocks : Holds(test, at, s)
  /\ Alive /\ ~denied =>
       \A s \in test.slots : Holds(test, at, s) => ptr[s] = "block"
  /\ status = "crashed" => denied
  /\ image # <<>> =>
       image.live = 0 /\ \A s \in test.slots : image.ptr[s] # "block"

EventsInv ==
  /\ \A e \in Event : open[e] <=> Opened(test, at) /\ ~fallback
  /\ \A e \in Event : open[e] => fd[e]
  /\ image # <<>> =>
       \A e \in Event : /\ image.open[e] <=> ~image.fallback
                        /\ image.fd[e] <=> ~image.fallback

After(op, n) == status = "running" /\ at > n /\ test.main[at - n].op = op

(* What the counters show between perf_start and perf_stop: n instructions *)
(* have been executed since each was read or enabled.                      *)
Elapsed(cycles, instret) ==
  IF fallback
  THEN /\ (hw.cycles - base.cycles) % Modulus = Cpi * cycles
       /\ (hw.instret - base.instret) % Modulus = instret + 1
  ELSE /\ on = open
       /\ open.cycles => count.cycles = Cpi * cycles
       /\ open.instret => count.instret = instret

WindowInv ==
  /\ After("perf_start", 1) /\ At("call") =>
       IF fallback THEN Elapsed(1, 1) ELSE Elapsed(1, 0)
  /\ After("perf_start", 2) /\ After("call", 1) =>
       /\ Cpi * (last + Slack) < Modulus
       /\ IF fallback THEN Elapsed(last + 2, last + 2) ELSE Elapsed(last + 2, last + 1)
  /\ After("perf_stop", 1) =>
       \A e \in Event : got[e] \in Cost[e] * last .. Cost[e] * (last + Slack)

OperandsInv ==
  status = "running" /\ Kept(test, at, fallback) => operands = "set"

-----------------------------------------------------------------------------
(* Counters that wrap.                                                     *)

Multiple(z, M) == \E q \in Int : z = q * M

(* A remainder is what is left of a number after a multiple of M.          *)
LEMMA Remainder ==
  ASSUME NEW M \in Nat \ {0}, NEW a \in Int
  PROVE  /\ a % M \in 0 .. M - 1 /\ a % M \in Int
         /\ Multiple(a - (a % M), M)
<1>1. a % M \in 0 .. M - 1
  OBVIOUS
<1>2. a = (M * (a \div M)) + (a % M)
  OBVIOUS
<1>3. a \div M \in Int
  OBVIOUS
<1> DEFINE q == a \div M
           r == a % M
<1>4. q \in Int /\ r \in Int /\ a = (M * q) + r
  BY <1>1, <1>2, <1>3
<1> HIDE DEF q, r
<1>5. a - r = q * M
  BY <1>4
<1>6. Multiple(a - r, M)
  BY <1>4, <1>5 DEF Multiple
<1> QED
  BY <1>1, <1>6 DEF r

(* And it is the only one in that range.                                   *)
LEMMA OnlyRemainder ==
  ASSUME NEW M \in Nat \ {0}, NEW a \in Int, NEW r \in 0 .. M - 1,
         Multiple(a - r, M)
  PROVE  a % M = r
<1>1. PICK q \in Int : a - r = q * M
  BY DEF Multiple
<1>2. a = q * M + r
  BY <1>1
<1>3. (q * M + r) % M = r
  OBVIOUS
<1> QED
  BY <1>2, <1>3

(* The difference of two multiples is one.                                 *)
LEMMA MultipleDiff ==
  ASSUME NEW M \in Nat, NEW x \in Int, NEW y \in Int,
         Multiple(x, M), Multiple(y, M)
  PROVE  Multiple(x - y, M)
<1>1. PICK q \in Int : x = q * M
  BY DEF Multiple
<1>2. PICK r \in Int : y = r * M
  BY DEF Multiple
<1>3. x - y = (q - r) * M
  BY <1>1, <1>2
<1> QED
  BY <1>3, q - r \in Int DEF Multiple

Mod(x) == x % Modulus

(* A counter less where it started: p now, r after n more; q is what the   *)
(* counter would then be if it did not wrap.                               *)
Moves(p, q, r, n) == r - Mod(q) = (p + n) - q

(* A counter that has moved Mod(p) will have moved n more.                 *)
LEMMA MovedOn ==
  ASSUME NEW p \in Int, NEW q \in Int, NEW r \in Int, NEW n \in Nat,
         Mod(p) \in Nat, Mod(p) + n < Modulus, Moves(p, q, r, n)
  PROVE  Mod(r) = Mod(p) + n
<1>0. /\ Modulus \in Nat \ {0}
      /\ \A x \in Int : Mod(x) \in Int /\ Multiple(x - Mod(x), Modulus)
  BY Remainder, HarnessAssumption DEF Mod
<1>1. Mod(p) \in Int /\ Multiple(p - Mod(p), Modulus)
  BY <1>0
<1>2. Mod(q) \in Int /\ Multiple(q - Mod(q), Modulus)
  BY <1>0
<1>3. Multiple((p - Mod(p)) - (q - Mod(q)), Modulus)
  BY <1>0, <1>1, <1>2, MultipleDiff
<1>4. (p - Mod(p)) - (q - Mod(q)) = r - (Mod(p) + n)
  BY <1>1, <1>2 DEF Moves
<1> QED
  BY <1>0, <1>3, <1>4, OnlyRemainder, Mod(p) + n \in 0 .. Modulus - 1 DEF Mod

(* Of a counter that is read m and n instructions from now, the readings   *)
(* differ by n - m.                                                        *)
LEMMA TwoReadings ==
  ASSUME NEW a \in Int, NEW m \in Nat, NEW n \in Nat, m <= n, n - m < Modulus
  PROVE  Mod(Mod(a + n) - Mod(a + m)) = n - m
<1> DEFINE c == Mod(a + n)
           b == Mod(a + m)
<1>0. /\ Modulus \in Nat \ {0}
      /\ \A x \in Int : Mod(x) \in Int /\ Multiple(x - Mod(x), Modulus)
  BY Remainder, HarnessAssumption DEF Mod
<1>1. b \in Int /\ Multiple((a + m) - b, Modulus)
  BY <1>0, a + m \in Int
<1>2. c \in Int /\ Multiple((a + n) - c, Modulus)
  BY <1>0, a + n \in Int
<1> HIDE DEF c, b
<1>3. Multiple(((a + m) - b) - ((a + n) - c), Modulus)
  BY <1>0, <1>1, <1>2, MultipleDiff
<1>4. ((a + m) - b) - ((a + n) - c) = (c - b) - (n - m)
  BY <1>1, <1>2
<1>5. Mod(c - b) = n - m
  BY <1>0, <1>1, <1>2, <1>3, <1>4, OnlyRemainder, n - m \in 0 .. Modulus - 1,
     c - b \in Int
  DEF Mod
<1> QED
  BY <1>5 DEF c, b

-----------------------------------------------------------------------------
(* What the text of a main() says of statement i + 1, from what it says of *)
(* statement i.                                                            *)

(* The events are open after a statement that opens them, and stay so until *)
(* one that closes them.                                                   *)
LEMMA OpenedNext ==
  ASSUME NEW p, NEW i \in Nat \ {0}
  PROVE  Opened(p, i + 1) <=> \/ p.main[i].op \in Inits
                              \/ Opened(p, i) /\ p.main[i].op \notin Closes
  BY DEF Opened, Inits, Closes

(* A pointer has its block after the alloc, until a free names it.         *)
LEMMA HoldsNext ==
  ASSUME NEW p, NEW i \in Nat \ {0}, NEW slot
  PROVE  Holds(p, i + 1, slot) <=>
           \/ p.main[i].op = "alloc" /\ Names(p.main[i], slot)
           \/ /\ Holds(p, i, slot)
              /\ p.main[i].op = "free" => ~Names(p.main[i], slot)
  BY DEF Holds

(* The operands are kept from the statement that sets them, until one that *)
(* may call the library.                                                   *)
LEMMA KeptNext ==
  ASSUME NEW p, NEW i \in Nat \ {0}, NEW direct \in BOOLEAN
  PROVE  Kept(p, i + 1, direct) <=>
           \/ p.main[i].op = "operands"
           \/ /\ Kept(p, i, direct)
              /\ \/ p.main[i].op \in {"call", "perf_stop", "perf_close"}
                 \/ direct /\ p.main[i].op = "perf_start"
  BY DEF Kept

(* Nothing comes before the first statement.                               *)
LEMMA AtFirst ==
  ASSUME NEW p
  PROVE  /\ ~Opened(p, 1)
         /\ \A slot : ~Holds(p, 1, slot)
         /\ \A direct : ~Kept(p, 1, direct)
  BY DEF Opened, Holds, Kept

(* Where a checkpoint is restored: the events are open, main holds what it *)
(* held when it was saved, and the operands are to be set yet.             *)
LEMMA AtImage ==
  ASSUME NEW p, NEW i \in Nat, i > 1, p.main[i - 1].op = "perf_init"
  PROVE  /\ Opened(p, i)
         /\ \A slot : Holds(p, i, slot) <=> Holds(p, i - 1, slot)
         /\ \A direct \in BOOLEAN : ~Kept(p, i, direct)
<1> DEFINE j == i - 1
<1>1. j \in Nat \ {0} /\ i = j + 1 /\ p.main[j].op = "perf_init"
  OBVIOUS
<1> HIDE DEF j
<1> QED
  BY <1>1, OpenedNext, HoldsNext, KeptNext DEF Inits, j

-----------------------------------------------------------------------------
(* Types.                                                                  *)

(* A line more.                                                            *)
LEMMA AppendOne ==
  ASSUME NEW s, IsSequence(s), NEW x
  PROVE  /\ Len(s) \in Nat
         /\ IsSequence(Append(s, x)) /\ Len(Append(s, x)) = Len(s) + 1
<1>1. PICK S : s \in Seq(S)
  BY DEF IsSequence
<1>2. s \in Seq(S \cup {x})
  BY <1>1
<1>3. Append(s, x) \in Seq(S \cup {x}) /\ Len(Append(s, x)) = Len(s) + 1
  BY <1>2
<1> QED
  BY <1>1, <1>3 DEF IsSequence

(* The multiples of a cost, for provers that cannot multiply by a field.   *)
LEMMA Costs ==
  /\ Modulus \in Nat \ {0} /\ Cpi \in Nat \ {0}
  /\ \A n \in Nat, e \in Event : n * Cost[e] \in Nat
  /\ \A n \in Nat : n * Cost["cycles"] = Cpi * n /\ n * Cost["instret"] = n
<1>1. Modulus \in Nat \ {0} /\ Cpi \in Nat \ {0}
  BY HarnessAssumption
<1>2. ASSUME NEW n \in Nat
      PROVE  n * Cost["cycles"] = Cpi * n /\ n * Cost["instret"] = n
                /\ Cpi * n \in Nat
  BY <1>1 DEF Cost
<1> QED
  BY <1>1, <1>2 DEF Event

(* The counters stay in their ranges.                                      *)
LEMMA SpendType ==
  ASSUME Machine, NEW n \in Nat
  PROVE  /\ HwAfter(n) \in [Event -> 0 .. Modulus - 1]
         /\ CountAfter(n) \in [Event -> Nat]
<1>1. ASSUME NEW e \in Event
      PROVE  /\ (hw[e] + n * Cost[e]) % Modulus \in 0 .. Modulus - 1
             /\ count[e] + n * Cost[e] \in Nat /\ count[e] \in Nat
  <2> DEFINE k == n * Cost[e]
  <2>1. k \in Nat
    BY Costs
  <2> HIDE DEF k
  <2>2. hw[e] \in 0 .. Modulus - 1 /\ count[e] \in Nat
    BY DEF Machine
  <2>3. hw[e] + k \in Int /\ count[e] + k \in Nat
    BY <2>1, <2>2, Costs
  <2>4. (hw[e] + k) % Modulus \in 0 .. Modulus - 1
    BY <2>3, Remainder, Costs
  <2> QED
    BY <2>2, <2>3, <2>4 DEF k
<1> QED
  BY <1>1 DEF HwAfter, CountAfter

(* What the rules say of the statement main has reached.                   *)
LEMMA Rules ==
  ASSUME AllDisciplined, Place
  PROVE  /\ Len(test.main) \in Nat /\ IsFiniteSet(test.slots)
         /\ at \in Nat \ {0} /\ at <= Len(test.main) + 1
         /\ \A op : At(op) => at \in DOMAIN test.main /\ at <= Len(test.main)
         /\ At("call")      => CallRule(test, at)
         /\ At("alloc")     => AllocRule(test, at)
         /\ At("free")      => FreeRule(test, at)
         /\ \A op \in Stops : At(op) => StopRule(test, at)
         /\ At("perf_init") => \A slot \in test.slots : ~Holds(test, at, slot)
         /\ \A slot \in test.slots : ~Holds(test, Len(test.main) + 1, slot)
         /\ ~Opened(test, Len(test.main) + 1)
<1>1. KeepsRules(test)
  BY DEF AllDisciplined, Place, Disciplined
<1>2. /\ Len(test.main) \in Nat /\ DOMAIN test.main = 1 .. Len(test.main)
      /\ at \in 1 .. Len(test.main) + 1
  BY <1>1 DEF KeepsRules, Place
<1>3. at \in Nat \ {0} /\ at <= Len(test.main) + 1
  BY <1>2
<1>4. \A op : At(op) => at \in DOMAIN test.main /\ at <= Len(test.main)
  BY <1>2 DEF At
<1> QED
  BY <1>1, <1>2, <1>3, <1>4 DEF KeepsRules, At, Statement

(* No call of a program executes so much that a counter passes its start;  *)
LEMMA CallBound ==
  ASSUME AllDisciplined, NEW p \in Programs, NEW i \in DOMAIN p.main,
         p.main[i].op = "call", NEW spike \in BOOLEAN
  PROVE  /\ Work(p.main[i], p.nloop[spike]) \in Nat
         /\ Cpi * (Work(p.main[i], p.nloop[spike]) + Slack) < Modulus
<1>1. CallRule(p, i)
  BY DEF AllDisciplined, Disciplined, KeepsRules
<1>2. /\ Loops(p.main[i], p.nloop[spike]) \in Nat
      /\ p.main[i].kernel.insns + p.main[i].kernel.control \in Nat
  BY <1>1 DEF CallRule
<1>3. Work(p.main[i], p.nloop[spike]) \in Nat
  BY <1>2 DEF Work
<1> QED
  BY <1>3 DEF AllDisciplined, Disciplined

(* nor does the one main has reached.                                      *)
LEMMA CallWork ==
  ASSUME AllDisciplined, Place, At("call")
  PROVE  /\ Work(Statement, NLOOP) \in Nat
         /\ Cpi * (Work(Statement, NLOOP) + Slack) < Modulus
<1>1. Spike \in BOOLEAN /\ at \in DOMAIN test.main /\ test \in Programs
  BY Rules DEF Spike, Place
<1> QED
  BY <1>1, CallBound DEF At, Statement, NLOOP

(* Initially every variable has a value of its type.                       *)
LEMMA TypedInit == AllDisciplined /\ Init => Typed
<1> SUFFICES ASSUME AllDisciplined, Init PROVE Typed
  OBVIOUS
<1>1. Len(test.main) \in Nat
  BY DEF Init, AllDisciplined, Disciplined, KeepsRules
<1>2. IsSequence(log) /\ Len(log) = 0
  BY <<>> \in Seq({}) DEF Init, IsSequence
<1>3. hw \in [Event -> 0 .. Modulus - 1] /\ 0 \in 0 .. Modulus - 1
  BY HarnessAssumption DEF Init
<1>4. 0 \in 0 .. MaxRestores
  BY HarnessAssumption
<1> QED
  BY <1>1, <1>2, <1>3, <1>4 DEF Init, Typed, Place, Machine

(* Main goes on, here or elsewhere, with or without a line.                *)
LEMMA PlaceMoves ==
  ASSUME AllDisciplined, Place, UNCHANGED <<fixed, saved>>,
         at' \in 1 .. Len(test.main) + 1, at <= at',
         status' \in {"running", "failed", "crashed"}, emitted' \in Nat,
         \/ UNCHANGED log
         \/ at < at' /\ \E x : log' = Append(log, x)
  PROVE  Place'
<1>1. (IsSequence(log) /\ Len(log) < at)'
  <2>1. CASE UNCHANGED log
    BY <2>1, AppendOne, Rules DEF Place
  <2>2. ASSUME at < at', NEW x, log' = Append(log, x)
        PROVE  (IsSequence(log) /\ Len(log) < at)'
    BY <2>2, AppendOne, Rules DEF Place
  <2> QED
    BY <2>1, <2>2
<1> QED
  BY <1>1 DEF Place, fixed, saved

(* Every step leaves main at a statement of its text.                      *)
LEMMA PlaceStep == AllDisciplined /\ Place /\ [Next]_vars => Place'
<1> SUFFICES ASSUME AllDisciplined, Place, [Next]_vars PROVE Place'
  OBVIOUS
<1>r. /\ Len(test.main) \in Nat
      /\ at \in Nat \ {0} /\ at <= Len(test.main) + 1
      /\ \A op : At(op) => status = "running" /\ at <= Len(test.main)
  BY Rules DEF At
<1>m. ASSUME NEW op, At(op), Continue, UNCHANGED <<fixed, saved>>,
             UNCHANGED emitted \/ emitted' = 0 \/ emitted' = emitted + 1,
             UNCHANGED log \/ \E x : log' = Append(log, x)
      PROVE  Place'
  <2>1. /\ at' \in 1 .. Len(test.main) + 1 /\ at < at' /\ status' = "running"
    BY <1>m, <1>r DEF Continue
  <2>2. emitted' \in Nat
    BY <1>m DEF Place
  <2> QED
    BY <1>m, <2>1, <2>2, <1>r, PlaceMoves
<1>k. ASSUME NEW op, At(op), Crash, UNCHANGED <<fixed, output, saved>>
      PROVE  Place'
  BY <1>k, <1>r, PlaceMoves DEF Crash, output, Place
<1>q. ASSUME At("alloc"), Otherwise, UNCHANGED <<fixed, output, saved>>
      PROVE  Place'
  <2>1. /\ at' \in 1 .. Len(test.main) + 1 /\ at <= at'
        /\ status' \in {"running", "failed"}
    BY <1>q, <1>r, Rules DEF Otherwise, AllocRule, Statement
  <2> QED
    BY <1>q, <2>1, PlaceMoves DEF output, Place
<1>1. CASE PerfInit
  <2>1. /\ At("perf_init") /\ Continue /\ restores' = restores
        /\ UNCHANGED <<test, build, emitted, log>>
    BY <1>1 DEF PerfInit, InitCounters, fixed, output
  <2>2. image' # <<>> => /\ image'.at \in 2 .. Len(test.main) + 1
                         /\ test.main[image'.at - 1].op = "perf_init"
    BY <1>1, <2>1, <1>r DEF PerfInit, Place, At, Statement, Continue
  <2> QED
    BY <2>1, <2>2, <1>r DEF Place, Continue
<1>2. CASE InitialiseBoard
  BY <1>2, <1>m DEF InitialiseBoard, InitCounters, output, saved
<1>3. CASE PerfStart \/ PerfStop \/ PerfPrint \/ StopTrigger \/ PerfClose
  BY <1>3, <1>m
  DEF PerfStart, PerfStop, PerfPrint, StopTrigger, PerfClose, output
<1>4. CASE Call \/ SetFpOperands \/ AllocOk \/ Free
  BY <1>4, <1>m, <1>k
  DEF Call, SetFpOperands, AllocOk, Free, output
<1>5. CASE AllocFails \/ ScratchFails
  BY <1>5, <1>k, <1>q DEF AllocFails, ScratchFails
<1>6. CASE ProbeBegin \/ ProbeEmitPoint \/ ProbeEnd
  BY <1>6, <1>m DEF ProbeBegin, ProbeEmitPoint, ProbeEnd
<1>7. CASE Return
  <2>1. /\ at > Len(test.main) /\ status' = "passed"
        /\ UNCHANGED <<test, build, at, emitted, log, image, restores>>
    BY <1>7 DEF Return, fixed, output, saved
  <2> QED
    BY <2>1, <1>r DEF Place
<1>8. CASE Restore
  <2>1. IsSequence(<<>>) /\ Len(<<>>) = 0
    BY <<>> \in Seq({}) DEF IsSequence
  <2>2. restores + 1 \in 0 .. MaxRestores
    BY <1>8, HarnessAssumption DEF Restore, Place
  <2> QED
    BY <1>8, <2>1, <2>2, <1>r DEF Restore, Place, fixed
<1>9. CASE UNCHANGED vars
  BY <1>9 DEF vars, fixed, output, saved, Place
<1>v. CASE VerifyBenchmark
  <2>1. At("verify_benchmark") /\ UNCHANGED <<fixed, saved, emitted, log>>
    BY <1>v DEF VerifyBenchmark, output
  <2>2. CASE Continue
    BY <2>1, <2>2, <1>m
  <2>3. CASE status' = "failed" /\ UNCHANGED at
    BY <2>1, <2>3, <1>r, PlaceMoves DEF Place
  <2> QED
    BY <1>v, <2>2, <2>3 DEF VerifyBenchmark
<1> QED
  BY <1>v, <1>1, <1>2, <1>3, <1>4, <1>5, <1>6, <1>7, <1>8, <1>9 DEF Next, Step

(* A step that changes the counters and the pointers within their types.   *)
LEMMA MachineMoves ==
  ASSUME Machine, UNCHANGED <<test, image>>,
         hw' \in [Event -> 0 .. Modulus - 1], count' \in [Event -> Nat],
         base' \in [Event -> 0 .. Modulus - 1],
         got' \in [Event -> Nat \cup {-1}],
         operands' \in {"none", "set", "lost"},
         ptr' \in [test.slots -> {"uninit", "null", "block", "freed"}],
         live' \in Int, last' \in Nat
  PROVE  Machine'
  BY DEF Machine

(* Every step leaves the counters, registers and pointers in their types.  *)
LEMMA MachineStep ==
  AllDisciplined /\ Place /\ Machine /\ [Next]_vars => Machine'
<1> SUFFICES ASSUME AllDisciplined, Place, Machine, [Next]_vars PROVE Machine'
  OBVIOUS
<1>s. \A n \in Nat : /\ HwAfter(n) \in [Event -> 0 .. Modulus - 1]
                     /\ CountAfter(n) \in [Event -> Nat]
  BY SpendType
<1>m. Modulus \in Nat \ {0} /\ Cpi \in Nat /\ 0 \in 0 .. Modulus - 1
  BY HarnessAssumption
<1>e. Event = {"cycles", "instret"}
  BY DEF Event
<1>o. LibraryCall => operands' \in {"none", "set", "lost"}
  BY DEF LibraryCall, Machine
<1>p. \A n \in Nat : Spend(n) => /\ hw' \in [Event -> 0 .. Modulus - 1]
                                 /\ count' \in [Event -> Nat]
  BY <1>s DEF Spend
<1>c. ASSUME StopCounters
      PROVE  /\ got' \in [Event -> Nat \cup {-1}]
             /\ hw' \in [Event -> 0 .. Modulus - 1]
             /\ count' \in [Event -> Nat]
  <2>1. \A x \in Int : x % Modulus \in Nat
    BY <1>m, Remainder
  <2>2. \A n \in Nat, e \in Event : HwAfter(n)[e] - base[e] \in Int
    BY <1>s, <1>m DEF Machine
  <2>3. \A n \in Nat, e \in Event : (HwAfter(n)[e] - base[e]) % Modulus \in Nat
    BY <2>1, <2>2
  <2>4. CASE fallback
    <3>1. /\ got' = [cycles  |-> (HwAfter(1)["cycles"] - base["cycles"]) % Modulus,
                     instret |-> (HwAfter(2)["instret"] - base["instret"]) % Modulus]
          /\ Spend(3)
      BY <1>c, <2>4 DEF StopCounters
    <3>2. got' \in [Event -> Nat \cup {-1}]
      BY <2>3, <3>1, <1>e
    <3> QED
      BY <3>1, <3>2, <1>p
  <2>5. CASE ~fallback
    <3>1. count' \in [Event -> Nat]
      <4>1. count' = [cycles  |-> CountAfter(1)["cycles"],
                      instret |-> CountAfter(2)["instret"]]
        BY <1>c, <2>5 DEF StopCounters
      <4>2. CountAfter(1)["cycles"] \in Nat /\ CountAfter(2)["instret"] \in Nat
        BY <1>s, <1>e
      <4> QED
        BY <4>1, <4>2, <1>e
    <3>2. got' \in [Event -> Nat \cup {-1}]
      BY <1>c, <2>5, <3>1 DEF StopCounters, Machine
    <3> QED
      BY <1>c, <2>5, <3>1, <3>2, <1>s DEF StopCounters
  <2> QED
    BY <2>4, <2>5
<1>1. CASE PerfInit
  BY <1>1, <1>p, <1>o
  DEF PerfInit, InitCounters, fixed, heap, Machine
<1>2. CASE InitialiseBoard
  BY <1>2, <1>p, <1>o
  DEF InitialiseBoard, InitCounters, fixed, heap, Machine
<1>3. CASE PerfStart
  <2>1. /\ base' \in [Event -> 0 .. Modulus - 1]
        /\ hw' \in [Event -> 0 .. Modulus - 1]
        /\ count' \in [Event -> Nat]
        /\ operands' \in {"none", "set", "lost"}
    <3>1. CASE fallback
      <4>1. /\ base' = [cycles  |-> HwAfter(2)["cycles"],
                        instret |-> HwAfter(1)["instret"]]
            /\ Spend(3) /\ operands' = operands
        BY <1>3, <3>1 DEF PerfStart
      <4>2. base' \in [Event -> 0 .. Modulus - 1]
        <5>1. /\ HwAfter(2)["cycles"] \in 0 .. Modulus - 1
              /\ HwAfter(1)["instret"] \in 0 .. Modulus - 1
          <6>1. /\ HwAfter(2) \in [Event -> 0 .. Modulus - 1]
                /\ HwAfter(1) \in [Event -> 0 .. Modulus - 1]
            BY <1>s
          <6> QED
            BY <6>1, <1>e
        <5> QED
          BY <4>1, <5>1, <1>e
      <4> QED
        BY <4>1, <4>2, <1>p DEF Machine
    <3>2. CASE ~fallback
      <4>1. /\ count' = [e \in Event |-> IF open[e] /\ e = "cycles" THEN Cpi ELSE 0]
            /\ hw' = HwAfter(4) /\ LibraryCall /\ base' = base
        BY <1>3, <3>2 DEF PerfStart
      <4> QED
        BY <4>1, <1>s, <1>m, <1>o DEF Machine
    <3> QED
      BY <3>1, <3>2
  <2> QED
    BY <1>3, <2>1, MachineMoves DEF PerfStart, fixed, heap, saved, Machine
<1>4. CASE PerfStop
  BY <1>4, <1>c, MachineMoves
  DEF PerfStop, fixed, counters, heap, saved, Machine
<1>5. CASE StopTrigger
  BY <1>5, <1>c, MachineMoves DEF StopTrigger, fixed, heap, saved, Machine
<1>6. CASE PerfPrint \/ PerfClose
  BY <1>6, <1>p, <1>o, MachineMoves
  DEF PerfPrint, PerfClose, fixed, counters, heap, saved, Machine
<1>7. CASE Call
  <2>1. Work(Statement, NLOOP) \in Nat
    BY <1>7, CallWork DEF Call
  <2>2. Work(Statement, NLOOP) + 1 \in Nat
    BY <2>1
  <2> QED
    BY <1>7, <2>1, <2>2, <1>p, MachineMoves
    DEF Call, fixed, counters, heap, saved, time, Machine
<1>8. CASE SetFpOperands
  BY <1>8, <1>p, MachineMoves
  DEF SetFpOperands, fixed, counters, heap, saved, Machine
<1>9. CASE AllocOk
  <2>1. Len(Slots) \in Nat
    BY <1>9, Rules DEF AllocOk, AllocRule, SlotsRule, Slots, Statement
  <2> QED
    BY <1>9, <2>1, <1>p, <1>o, MachineMoves
    DEF AllocOk, fixed, counters, saved, Machine
<1>10. CASE AllocFails
  <2>1. DOMAIN Slots \in SUBSET Nat
    BY <1>10, Rules, SMTT(30) DEF AllocFails, AllocRule, SlotsRule, Slots, Statement
  <2>2. ptr' \in [test.slots -> {"uninit", "null", "block", "freed"}]
    BY <1>10 DEF AllocFails, Machine
  <2> QED
    BY <1>10, <2>1, <2>2, <1>p, <1>o, MachineMoves, SMTT(40)
    DEF AllocFails, fixed, counters, saved, Machine
<1>11. CASE ScratchFails
  BY <1>11, <1>p, <1>o, MachineMoves
  DEF ScratchFails, fixed, counters, saved, time, Machine
<1>12. CASE Free
  <2> DEFINE lost == {s \in {Slots[i] : i \in DOMAIN Slots} : ptr[s] = "block"}
  <2>1. lost \in SUBSET test.slots /\ IsFiniteSet(test.slots)
    BY <1>12, Rules DEF Free, FreeRule, SlotsRule, Slots, Statement
  <2>2. Cardinality(lost) \in Int
    BY <2>1, FS_Subset, FS_CardinalityType
  <2> QED
    BY <1>12, <2>2, <1>p, <1>o, MachineMoves
  DEF Free, fixed, counters, saved, time, Machine
<1>13. CASE ProbeBegin \/ ProbeEmitPoint \/ ProbeEnd
  BY <1>13, <1>p, <1>o, MachineMoves
  DEF ProbeBegin, ProbeEmitPoint, ProbeEnd, fixed, counters, heap, saved,
      Machine
<1>14. CASE Return
  BY <1>14, MachineMoves
  DEF Return, fixed, time, counters, heap, saved, Machine
<1>15. CASE Restore
  BY <1>15, <1>m, HarnessAssumption DEF Restore, Machine, fixed
<1>16. CASE UNCHANGED vars
  BY <1>16 DEF vars, fixed, time, counters, heap, saved, Machine
<1>v. CASE VerifyBenchmark
  BY <1>v, <1>p, <1>o, MachineMoves
  DEF VerifyBenchmark, fixed, counters, heap, saved, Machine
<1> QED
  BY <1>v, <1>1, <1>2, <1>3, <1>4, <1>5, <1>6, <1>7, <1>8, <1>9, <1>10, <1>11,
     <1>12, <1>13, <1>14, <1>15, <1>16
  DEF Next, Step

-----------------------------------------------------------------------------
(* Flags and events.                                                       *)

(* Initially the flags are Boolean,                                        *)
LEMMA FlagsInit == Init => Flags
  BY ZenonT(40) DEF Init, Flags

(* and every step leaves them so.                                          *)
LEMMA FlagsStep == Flags /\ [Next]_vars => Flags'
<1> SUFFICES ASSUME Flags, [Next]_vars PROVE Flags'
  OBVIOUS
<1>i. ASSUME InitCounters
      PROVE  /\ fallback' \in BOOLEAN /\ fd' \in [Event -> BOOLEAN]
             /\ open' \in [Event -> BOOLEAN] /\ UNCHANGED <<on, denied>>
  BY <1>i DEF InitCounters, OpenCounters, Spend, heap
<1>1. CASE PerfInit
  <2>1. InitCounters
    BY <1>1 DEF PerfInit
  <2>2. image' # <<>> =>
          /\ image'.fallback \in BOOLEAN
          /\ image'.fd \in [Event -> BOOLEAN] /\ image'.open \in [Event -> BOOLEAN]
    BY <1>1, <2>1, <1>i DEF PerfInit, Flags
  <2> QED
    BY <2>1, <2>2, <1>i DEF Flags
<1>2. CASE InitialiseBoard
  BY <1>2, <1>i DEF InitialiseBoard, Flags
<1>3. CASE PerfStart
  BY <1>3 DEF PerfStart, Spend, heap, saved, Flags
<1>4. CASE PerfStop
  BY <1>4 DEF PerfStop, StopCounters, Spend, counters, heap, saved, Flags
<1>5. CASE StopTrigger
  BY <1>5 DEF StopTrigger, StopCounters, Spend, heap, saved, Flags
<1>6. CASE PerfPrint
  BY <1>6 DEF PerfPrint, Spend, counters, heap, saved, Flags
<1>7. CASE PerfClose
  BY <1>7 DEF PerfClose, Spend, heap, saved, Flags
<1>8. CASE Call
  BY <1>8 DEF Call, Spend, counters, heap, saved, time, Flags
<1>9. CASE SetFpOperands
  BY <1>9 DEF SetFpOperands, Spend, counters, heap, saved, Flags
<1>10. CASE AllocOk
  BY <1>10 DEF AllocOk, Spend, counters, saved, Flags
<1>11. CASE AllocFails
  BY <1>11 DEF AllocFails, Spend, counters, saved, Flags
<1>12. CASE ScratchFails
  BY <1>12 DEF ScratchFails, Spend, counters, saved, time, Flags
<1>13. CASE Free
  BY <1>13 DEF Free, Spend, counters, saved, time, Flags
<1>14. CASE ProbeBegin \/ ProbeEmitPoint \/ ProbeEnd
  BY <1>14
  DEF ProbeBegin, ProbeEmitPoint, ProbeEnd, Spend, counters, heap, saved, Flags
<1>15. CASE Return
  BY <1>15 DEF Return, time, counters, heap, saved, Flags
<1>16. CASE Restore
  BY <1>16 DEF Restore, Flags
<1>17. CASE UNCHANGED vars
  BY <1>17 DEF vars, time, counters, heap, saved, Flags
<1>v. CASE VerifyBenchmark
  BY <1>v DEF VerifyBenchmark, Spend, counters, heap, saved, Flags
<1> QED
  BY <1>v, <1>1, <1>2, <1>3, <1>4, <1>5, <1>6, <1>7, <1>8, <1>9, <1>10, <1>11, <1>12,
     <1>13, <1>14, <1>15, <1>16, <1>17
  DEF Next, Step

(* Initially no event is open, and the text says so.                       *)
LEMMA EventsInit == Init => EventsInv
  BY AtFirst DEF Init, EventsInv

(* A statement that neither opens nor closes events, or main going on      *)
(* elsewhere without a block.                                              *)
LEMMA EventsMoves ==
  ASSUME EventsInv, UNCHANGED <<test, fallback, fd, open, image>>,
         Opened(test, at)' <=> Opened(test, at)
  PROVE  EventsInv'
  BY DEF EventsInv

(* Every step opens and closes the events as the text says.                *)
LEMMA EventsStep ==
  AllDisciplined /\ Place /\ EventsInv /\ [Next]_vars => EventsInv'
<1> SUFFICES ASSUME AllDisciplined, Place, EventsInv, [Next]_vars
             PROVE  EventsInv'
  OBVIOUS
<1>r. at \in Nat \ {0}
  BY Rules
<1>n. ASSUME NEW op, At(op), Continue, test' = test
      PROVE  Opened(test, at)' <=> op \in Inits \/ (Opened(test, at) /\ op \notin Closes)
  BY <1>n, <1>r, OpenedNext DEF At, Continue, Statement
<1>m. ASSUME NEW op, op \notin Inits \cup Closes, At(op), Continue,
             UNCHANGED <<test, fallback, fd, open, image>>
      PROVE  EventsInv'
  BY <1>m, <1>n, EventsMoves
<1>k. ASSUME UNCHANGED <<test, at, fallback, fd, open, image>> PROVE EventsInv'
  BY <1>k, EventsMoves
<1>i. ASSUME NEW op \in Inits, At(op), InitCounters
      PROVE  /\ Opened(test, at)' /\ test' = test
             /\ \A e \in Event : /\ open'[e] <=> ~fallback'
                                 /\ fd'[e] <=> ~fallback'
  <2>1. Opened(test, at)' /\ test' = test
    BY <1>i, <1>n DEF InitCounters, fixed
  <2>2. PICK cycles \in BOOLEAN, instret \in BOOLEAN : OpenCounters(cycles, instret)
    BY <1>i DEF InitCounters
  <2> QED
    BY <2>1, <2>2 DEF OpenCounters
<1>1. CASE PerfInit
  <2>1. InitCounters /\ At("perf_init") /\ "perf_init" \in Inits
    BY <1>1 DEF PerfInit, Inits
  <2>2. \/ UNCHANGED image
        \/ /\ image'.fallback = fallback' /\ image'.fd = fd'
           /\ image'.open = open'
    BY <1>1 DEF PerfInit
  <2>3. image' # <<>> =>
          \A e \in Event : /\ image'.open[e] <=> ~image'.fallback
                           /\ image'.fd[e] <=> ~image'.fallback
    BY <2>1, <2>2, <1>i DEF EventsInv
  <2> QED
    BY <2>1, <2>3, <1>i DEF EventsInv
<1>2. CASE InitialiseBoard
  <2>1. InitCounters /\ At("initialise_board") /\ "initialise_board" \in Inits
           /\ UNCHANGED image
    BY <1>2 DEF InitialiseBoard, Inits
  <2> QED
    BY <2>1, <1>i DEF EventsInv
<1>3. CASE PerfStart \/ PerfStop \/ PerfPrint \/ Call \/ SetFpOperands \/ AllocOk \/ Free
  BY <1>3, <1>m, <1>k
  DEF PerfStart, PerfStop, PerfPrint, Call, Crash, SetFpOperands, AllocOk, Free,
      Inits, Closes, fixed, counters, saved
<1>4. CASE StopTrigger \/ PerfClose
  <2>1. \A e \in Event : ~open'[e]
    BY <1>4 DEF StopTrigger, PerfClose, EventsInv
  <2>2. ~Opened(test, at)' /\ UNCHANGED <<test, fallback, image>>
    BY <1>4, <1>n DEF StopTrigger, PerfClose, Inits, Closes, fixed, saved
  <2> QED
    BY <2>1, <2>2 DEF EventsInv
<1>5. CASE AllocFails \/ ScratchFails
  <2>1. CASE Otherwise /\ At("alloc") /\ UNCHANGED <<fixed, counters, saved>>
    <3>1. Opened(test, at)' <=> Opened(test, at)
      BY <2>1, Rules DEF Otherwise, AllocRule, Statement, fixed
    <3> QED
      BY <2>1, <3>1, EventsMoves DEF fixed, counters, saved
  <2>2. CASE Crash /\ UNCHANGED <<fixed, counters, saved>>
    BY <2>2, <1>k DEF Crash, fixed, counters, saved
  <2> QED
    BY <1>5, <2>1, <2>2 DEF AllocFails, ScratchFails
<1>6. CASE ProbeBegin \/ ProbeEmitPoint \/ ProbeEnd
  BY <1>6, <1>m
  DEF ProbeBegin, ProbeEmitPoint, ProbeEnd, Inits, Closes, fixed, counters, saved
<1>7. CASE Return \/ UNCHANGED vars
  BY <1>7, <1>k DEF Return, vars, fixed, counters, saved
<1>8. CASE Restore
  <2>1. Opened(test, at)'
    <3>1. /\ at' \in 2 .. Len(test.main) + 1 /\ test' = test
          /\ test.main[at' - 1].op = "perf_init"
      BY <1>8 DEF Restore, Place, fixed
    <3>2. at' \in Nat /\ at' > 1
      <4>1. Len(test.main) \in Nat
        BY Rules
      <4> QED
        BY <3>1, <4>1
    <3> QED
      BY <3>1, <3>2, AtImage
  <2> QED
    BY <1>8, <2>1 DEF Restore, EventsInv
<1>v. CASE VerifyBenchmark
  BY <1>v, <1>m, <1>k DEF VerifyBenchmark, Inits, Closes, fixed, counters, saved
<1> QED
  BY <1>v, <1>1, <1>2, <1>3, <1>4, <1>5, <1>6, <1>7, <1>8 DEF Next, Step

-----------------------------------------------------------------------------
(* Blocks.                                                                 *)

(* As many names as positions, when no name comes twice.                   *)
LEMMA Counted ==
  ASSUME NEW s, NEW n \in Nat,
         \A k, m \in 1 .. n : s[k] = s[m] => k = m
  PROVE  /\ IsFiniteSet({s[k] : k \in 1 .. n})
         /\ Cardinality({s[k] : k \in 1 .. n}) = n
<1> DEFINE T == {s[k] : k \in 1 .. n}
           f == [k \in 1 .. n |-> s[k]]
<1>1. f \in Bijection(1 .. n, T)
  BY DEF Bijection, Injection, Surjection, IsInjective
<1>2. ExistsBijection(1 .. n, T)
  BY <1>1 DEF ExistsBijection
<1> QED
  BY <1>2, FS_NatBijection, FS_CountingElements

(* Disjoint sets of blocks add up.                                         *)
LEMMA DisjointUnion ==
  ASSUME NEW S, NEW T, IsFiniteSet(S), IsFiniteSet(T), S \cap T = {}
  PROVE  Cardinality(S \cup T) = Cardinality(S) + Cardinality(T)
<1>1. Cardinality(S \cap T) = 0
  BY FS_EmptySet
<1>2. Cardinality(S) \in Nat /\ Cardinality(T) \in Nat
  BY FS_CardinalityType
<1>3. Cardinality(S \cup T) =
        Cardinality(S) + Cardinality(T) - Cardinality(S \cap T)
  BY FS_Union
<1> QED
  BY <1>1, <1>2, <1>3

(* Initially no pointer holds a block.                                     *)
LEMMA HeapInit == Init => HeapInv
<1> SUFFICES ASSUME Init PROVE HeapInv
  OBVIOUS
<1>1. Blocks = {} /\ Cardinality({}) = 0
  BY FS_EmptySet DEF Init, Blocks
<1> QED
  BY <1>1, AtFirst DEF Init, HeapInv

(* A statement that neither allocates nor frees.                           *)
LEMMA HeapMoves ==
  ASSUME HeapInv, UNCHANGED <<test, ptr, live, denied, image>>,
         status = "running", Alive',
         \A s \in test.slots : Holds(test, at, s)' <=> Holds(test, at, s)
  PROVE  HeapInv'
<1>1. Blocks' = Blocks
  BY DEF Blocks
<1> QED
  BY <1>1 DEF HeapInv, Alive, Blocks

(* Every step counts its blocks: those alloc assigns, one by one up to the *)
(* one that fails, and those free takes back.                              *)
LEMMA HeapStep ==
  AllDisciplined /\ Place /\ Machine /\ HeapInv /\ [Next]_vars => HeapInv'
<1> SUFFICES ASSUME AllDisciplined, Place, Machine, HeapInv, [Next]_vars
             PROVE  HeapInv'
  OBVIOUS
<1>r. at \in Nat \ {0} /\ IsFiniteSet(test.slots) /\ Len(test.main) \in Nat
  BY Rules
<1>b. Blocks \in SUBSET test.slots /\ IsFiniteSet(Blocks)
  BY <1>r, FS_Subset DEF Blocks
<1>n. ASSUME NEW op, At(op), Continue, test' = test, NEW s
      PROVE  Holds(test, at, s)' <=>
               \/ op = "alloc" /\ Names(Statement, s)
               \/ Holds(test, at, s) /\ (op = "free" => ~Names(Statement, s))
  BY <1>n, <1>r, HoldsNext DEF At, Continue, Statement
<1>m. ASSUME NEW op, op \notin {"alloc", "free"}, At(op), Continue,
             UNCHANGED <<test, ptr, live, denied, image>>
      PROVE  HeapInv'
  <2>1. \A s \in test.slots : Holds(test, at, s)' <=> Holds(test, at, s)
    BY <1>m, <1>n
  <2> QED
    BY <1>m, <2>1, HeapMoves DEF At, Continue, Alive
<1>k. ASSUME UNCHANGED <<test, ptr, live, image>>, status' = "crashed", denied'
      PROVE  HeapInv'
  BY <1>k DEF HeapInv, Alive, Blocks
<1>u. ASSUME UNCHANGED <<test, at, ptr, live, denied, image, status>> PROVE HeapInv'
  BY <1>u DEF HeapInv, Alive, Blocks
<1>1. CASE PerfInit
  <2>1. /\ At("perf_init") /\ Continue
        /\ UNCHANGED <<test, ptr, live, denied>>
    BY <1>1 DEF PerfInit, InitCounters, fixed, heap
  <2>2. \A s \in test.slots : ~Holds(test, at, s) /\ ~Holds(test, at, s)'
    BY <2>1, <1>n, Rules
  <2>3. Blocks = {} /\ live = 0
    BY <2>1, <2>2, FS_EmptySet DEF HeapInv, Alive, At, Blocks
  <2>4. UNCHANGED image \/ (image'.live = live /\ image'.ptr = ptr)
    BY <1>1 DEF PerfInit
  <2>5. (image # <<>> =>
           image.live = 0 /\ \A s \in test.slots : image.ptr[s] # "block")'
    BY <2>1, <2>3, <2>4 DEF HeapInv, Blocks
  <2> QED
    BY <2>1, <2>2, <2>3, <2>5 DEF HeapInv, Alive, At, Continue, Blocks
<1>2. CASE InitialiseBoard
  BY <1>2, <1>m DEF InitialiseBoard, InitCounters, fixed, heap
<1>3. CASE PerfStart \/ PerfStop \/ PerfPrint \/ StopTrigger \/ PerfClose \/ SetFpOperands
  BY <1>3, <1>m
  DEF PerfStart, PerfStop, PerfPrint, StopTrigger, PerfClose, SetFpOperands,
      fixed, heap, saved
<1>4. CASE ProbeBegin \/ ProbeEmitPoint \/ ProbeEnd
  BY <1>4, <1>m DEF ProbeBegin, ProbeEmitPoint, ProbeEnd, fixed, heap, saved
<1>5. CASE Call
  <2>1. CASE Safe(Statement.kernel)
    BY <1>5, <2>1, <1>m DEF Call, fixed, heap, saved
  <2>2. CASE ~Safe(Statement.kernel)
    <3>1. denied
      BY <1>5, <2>2, Rules
      DEF Call, Safe, CallRule, Statement, HeapInv, Alive, At
    <3> QED
      BY <1>5, <2>2, <3>1, <1>k DEF Call, Crash, fixed, heap, saved
  <2> QED
    BY <2>1, <2>2
<1> DEFINE Named == {Slots[i] : i \in DOMAIN Slots}
<1>a. ASSUME At("alloc")
      PROVE  /\ DOMAIN Slots = 1 .. Len(Slots) /\ Len(Slots) \in Nat \ {0}
             /\ \A i, j \in DOMAIN Slots : Slots[i] = Slots[j] => i = j
             /\ Named \in SUBSET test.slots
             /\ \A s \in Named : s \notin Blocks
  <2>1. AllocRule(test, at) /\ status = "running"
    BY <1>a, Rules DEF At
  <2>2. /\ Slots \in Seq(test.slots) /\ Slots # <<>>
        /\ \A i, j \in DOMAIN Slots : Slots[i] = Slots[j] => i = j
        /\ \A s \in test.slots : Names(Statement, s) => ~Holds(test, at, s)
    BY <2>1 DEF AllocRule, SlotsRule, Slots, Statement
  <2>3. Named \in SUBSET test.slots
    BY <2>2
  <2>4. \A s \in Named : s \notin Blocks
    BY <2>1, <2>2, <2>3 DEF Names, Slots, HeapInv, Alive
  <2> QED
    BY <2>2, <2>3, <2>4
<1>6. CASE AllocOk
  <2>1. /\ At("alloc") /\ Continue /\ UNCHANGED <<test, denied, image>>
        /\ live' = live + Len(Slots)
        /\ ptr' = [s \in DOMAIN ptr |->
                     IF \E i \in DOMAIN Slots : Slots[i] = s THEN "block" ELSE ptr[s]]
    BY <1>6 DEF AllocOk, fixed, saved
  <2>2. Blocks' = Blocks \cup Named
    BY <2>1, <1>a DEF Blocks, Machine
  <2>3. IsFiniteSet(Named) /\ Cardinality(Named) = Len(Slots)
    <3> DEFINE n == Len(Slots)
    <3>1. n \in Nat /\ \A i, j \in 1 .. n : Slots[i] = Slots[j] => i = j
      BY <2>1, <1>a
    <3>2. Named = {Slots[i] : i \in 1 .. n}
      BY <2>1, <1>a
    <3> HIDE DEF n
    <3>3. IsFiniteSet({Slots[i] : i \in 1 .. n}) /\ Cardinality({Slots[i] : i \in 1 .. n}) = n
      BY ONLY <3>1, Counted
    <3> QED
      BY <3>2, <3>3 DEF n
  <2>4. Cardinality(Blocks') = live + Len(Slots)
    <3>1. Blocks \cap Named = {}
      BY <2>1, <1>a
    <3> QED
      BY <2>2, <2>3, <3>1, <1>b, DisjointUnion DEF HeapInv
  <2>5. \A s \in test.slots :
          Holds(test, at, s)' <=> s \in Named \/ Holds(test, at, s)
    BY <2>1, <1>n DEF Names, Slots
  <2>6. status = "running" /\ status' = "running"
    BY <2>1 DEF At, Continue
  <2>7. \A s \in Blocks' : Holds(test, at, s)'
    BY <2>2, <2>5, <2>6, <1>b, <1>a, <2>1 DEF HeapInv, Alive
  <2>8. ~denied' => \A s \in test.slots : Holds(test, at, s)' => ptr'[s] = "block"
    BY <2>1, <2>5, <2>6 DEF HeapInv, Alive, Machine
  <2> QED
    BY <2>1, <2>4, <2>6, <2>7, <2>8 DEF HeapInv, Alive
<1>q. ASSUME At("alloc"), Otherwise, UNCHANGED <<test, image>>, denied',
             live' = Cardinality(Blocks'),
             Statement.otherwise # 0 =>
               \A s \in Blocks' : s \in Blocks \/ (s \in Named /\ Statement.otherwise = 1)
      PROVE  HeapInv'
  <2>1. CASE Statement.otherwise = 0
    BY <1>q, <2>1 DEF Otherwise, HeapInv, Alive
  <2>2. CASE Statement.otherwise # 0
    <3>1. AllocRule(test, at) /\ status = "running" /\ status' = "running"
             /\ at' = at + Statement.otherwise
      BY <1>q, <2>2, Rules DEF At, Otherwise
    <3>2. \A s \in test.slots : Holds(test, at, s) => Holds(test, at, s)'
      BY <1>q, <2>2, <3>1 DEF AllocRule, Statement
    <3>3. ASSUME NEW s \in Named, Statement.otherwise = 1
          PROVE  Holds(test, at, s)'
      BY <1>q, <3>1, <3>3, <1>r, HoldsNext DEF At, Statement, Names, Slots
    <3>4. \A s \in Blocks' : Holds(test, at, s)'
      BY <1>q, <2>2, <3>1, <3>2, <3>3, <1>b DEF HeapInv, Alive
    <3> QED
      BY <1>q, <3>1, <3>4 DEF HeapInv, Alive
  <2> QED
    BY <2>1, <2>2
<1>7. CASE AllocFails
  <2>1. /\ At("alloc") /\ Otherwise /\ UNCHANGED <<test, image>> /\ denied'
    BY <1>7 DEF AllocFails, fixed, saved
  <2>2. PICK k \in DOMAIN Slots :
          /\ ptr' = [s \in DOMAIN ptr |->
                    IF \E i \in DOMAIN Slots : Slots[i] = s
                    THEN LET i == CHOOSE i \in DOMAIN Slots : Slots[i] = s
                         IN  IF i < k THEN "block" ELSE IF i = k THEN "null" ELSE "uninit"
                    ELSE ptr[s]]
          /\ live' = live + k - 1
    BY <1>7 DEF AllocFails
  <2> DEFINE Built == {Slots[i] : i \in 1 .. k - 1}
  <2>3. k \in 1 .. Len(Slots) /\ k - 1 \in Nat
    BY <2>1, <1>a
  <2>4. Built \in SUBSET Named
    BY <2>3, <2>1, <1>a
  <2>5. ASSUME NEW i \in DOMAIN Slots
        PROVE  (CHOOSE j \in DOMAIN Slots : Slots[j] = Slots[i]) = i
    BY <2>1, <1>a
  <2>6. \A i \in DOMAIN Slots : ptr'[Slots[i]] = "block" <=> i < k
    BY <2>1, <2>2, <2>5, <1>a DEF Machine
  <2>7. \A s \in test.slots \ Named : ptr'[s] = ptr[s]
    BY <2>2 DEF Machine
  <2>8. \A s \in Named : s \in Built <=> ptr'[s] = "block"
    BY <2>1, <2>3, <2>6, <1>a
  <2>9. Blocks' = Blocks \cup Built
    BY <2>1, <2>4, <2>7, <2>8, <1>a DEF Blocks
  <2>10. IsFiniteSet(Built) /\ Cardinality(Built) = k - 1
    <3>1. \A i, j \in 1 .. k - 1 : Slots[i] = Slots[j] => i = j
      BY <2>1, <2>3, <1>a
    <3> DEFINE n == k - 1
    <3>2. n \in Nat
      BY <2>3
    <3>3. \A i, j \in 1 .. n : Slots[i] = Slots[j] => i = j
      BY <3>1
    <3> HIDE DEF n
    <3>4. IsFiniteSet({Slots[i] : i \in 1 .. n}) /\ Cardinality({Slots[i] : i \in 1 .. n}) = n
      BY ONLY <3>2, <3>3, Counted
    <3> QED
      BY <3>4 DEF n
  <2>11. live' = Cardinality(Blocks')
    <3>1. Blocks \cap Built = {}
      BY <2>1, <2>4, <1>a
    <3>2. Cardinality(Blocks') = Cardinality(Blocks) + (k - 1)
      BY <2>9, <2>10, <3>1, <1>b, DisjointUnion
    <3>3. Cardinality(Blocks) \in Nat
      BY <1>b, FS_CardinalityType
    <3> QED
      BY <2>2, <2>3, <3>2, <3>3 DEF HeapInv
  <2>12. Statement.otherwise # 0 => Statement.otherwise = 1 \/ Built = {}
    <3>1. AllocRule(test, at)
      BY <2>1, Rules
    <3>2. Statement.otherwise # 0 => Statement.otherwise = 1 \/ Len(Slots) = 1
      BY <3>1 DEF AllocRule, Statement, Slots
    <3> QED
      BY <3>2, <2>3
  <2> QED
    BY <2>1, <2>4, <2>9, <2>11, <2>12, <1>q
<1>8. CASE ScratchFails
  <2>1. CASE Statement.scratch = "checked"
    <3>1. /\ At("alloc") /\ Otherwise /\ UNCHANGED <<test, image, live>> /\ denied'
          /\ ptr' = [ptr EXCEPT ![Slots[1]] = "null"]
      BY <1>8, <2>1 DEF ScratchFails, fixed, saved
    <3>2. Slots[1] \in Named
      BY <3>1, <1>a
    <3>3. Blocks' = Blocks
      BY <3>1, <3>2, <1>a DEF Blocks, Machine
    <3> QED
      BY <3>1, <3>3, <1>q DEF HeapInv
  <2>2. CASE Statement.scratch # "checked"
    BY <1>8, <2>2, <1>k DEF ScratchFails, Crash, fixed, saved
  <2> QED
    BY <2>1, <2>2
<1>9. CASE Free
  <2>0. /\ At("free") /\ UNCHANGED <<test, image, denied>> /\ status = "running"
    BY <1>9 DEF Free, fixed, saved, At
  <2>r. /\ Named \in SUBSET test.slots
        /\ \A s \in Named : Holds(test, at, s)
    <3>1. FreeRule(test, at)
      BY <2>0, Rules
    <3>2. Named \in SUBSET test.slots
      BY <3>1 DEF FreeRule, SlotsRule, Slots, Statement
    <3> QED
      BY <3>1, <3>2 DEF FreeRule, Names, Slots, Statement
  <2>1. CASE \A s \in Named : ptr[s] \in {"block", "null"}
    <3> DEFINE Lost == {s \in Named : ptr[s] = "block"}
    <3>1. /\ Continue /\ live' = live - Cardinality(Lost)
          /\ ptr' = [s \in DOMAIN ptr |->
                       IF s \in Named /\ ptr[s] = "block" THEN "freed" ELSE ptr[s]]
      BY <1>9, <2>1 DEF Free
    <3>2. Blocks' = Blocks \ Lost /\ Lost \subseteq Blocks
      BY <3>1, <2>0, <2>r DEF Blocks, Machine
    <3>3. live' = Cardinality(Blocks')
      <4>1. IsFiniteSet(Lost) /\ IsFiniteSet(Blocks \ Lost)
        BY <3>2, <1>b, FS_Subset
      <4>2. Cardinality(Blocks) = Cardinality(Blocks \ Lost) + Cardinality(Lost)
        <5>1. (Blocks \ Lost) \cup Lost = Blocks /\ (Blocks \ Lost) \cap Lost = {}
          BY <3>2
        <5> HIDE DEF Lost
        <5> QED
          BY <4>1, <5>1, DisjointUnion
      <4>3. Cardinality(Blocks \ Lost) \in Nat /\ Cardinality(Lost) \in Nat
        BY <4>1, FS_CardinalityType
      <4> HIDE DEF Lost
      <4> QED
        BY <3>1, <3>2, <4>2, <4>3 DEF HeapInv
    <3>4. \A s \in test.slots :
            Holds(test, at, s)' <=> Holds(test, at, s) /\ s \notin Named
      BY <2>0, <3>1, <1>n DEF Names, Slots
    <3>5. \A s \in Blocks' : Holds(test, at, s)'
      BY <3>2, <3>4, <2>0, <1>b DEF HeapInv, Alive, Blocks
    <3>6. ~denied' => \A s \in test.slots : Holds(test, at, s)' => ptr'[s] = "block"
      BY <3>1, <3>4, <2>0 DEF HeapInv, Alive, Machine
    <3> QED
      BY <2>0, <3>1, <3>3, <3>5, <3>6 DEF HeapInv, Alive, Continue
  <2>2. CASE ~ \A s \in Named : ptr[s] \in {"block", "null"}
    <3>1. denied
      BY <2>0, <2>2, <2>r DEF HeapInv, Alive
    <3> QED
      BY <1>9, <2>0, <2>2, <3>1, <1>k DEF Free, Crash
  <2> QED
    BY <2>1, <2>2
<1>10. CASE Return
  <2>1. /\ status = "running" /\ status' = "passed"
        /\ UNCHANGED <<test, at, ptr, live, denied, image>>
    BY <1>10 DEF Return, fixed, heap, saved
  <2> QED
    BY <2>1, HeapMoves DEF Alive
<1>11. CASE Restore
  <2>1. /\ image # <<>> /\ UNCHANGED <<test, image>> /\ at' = image.at
        /\ ptr' = image.ptr /\ live' = image.live /\ status' = "running"
    BY <1>11 DEF Restore, fixed
  <2>2. Blocks' = {} /\ live' = 0
    BY <2>1 DEF HeapInv, Blocks
  <2>3. \A s \in test.slots : ~Holds(test, at, s)'
    <3> DEFINE i == image.at
    <3>1. i \in 2 .. Len(test.main) + 1 /\ test.main[i - 1].op = "perf_init"
      BY <2>1 DEF Place
    <3>2. KeepsRules(test)
      BY DEF AllDisciplined, Disciplined, Place
    <3> HIDE DEF i
    <3>3. i \in Nat /\ i > 1 /\ i - 1 \in 1 .. Len(test.main)
      BY <3>1, <1>r
    <3>4. \A s \in test.slots : ~Holds(test, i - 1, s)
      BY <3>1, <3>2, <3>3 DEF KeepsRules
    <3>5. \A s \in test.slots : ~Holds(test, i, s)
      BY <3>1, <3>3, <3>4, AtImage
    <3> QED
      BY <2>1, <3>5 DEF i
  <2> QED
    BY <2>1, <2>2, <2>3, FS_EmptySet DEF HeapInv, Alive
<1>12. CASE UNCHANGED vars
  BY <1>12, <1>u DEF vars, fixed, heap, saved
<1>v. CASE VerifyBenchmark
  <2>1. At("verify_benchmark") /\ UNCHANGED <<test, ptr, live, denied, image>>
    BY <1>v DEF VerifyBenchmark, fixed, heap, saved
  <2>2. CASE Continue
    BY <2>1, <2>2, <1>m
  <2>3. CASE status' = "failed"
    BY <2>1, <2>3 DEF HeapInv, Alive, Blocks
  <2> QED
    BY <1>v, <2>2, <2>3 DEF VerifyBenchmark
<1> QED
  BY <1>v, <1>1, <1>2, <1>3, <1>4, <1>5, <1>6, <1>7, <1>8, <1>9, <1>10, <1>11, <1>12
  DEF Next, Step

-----------------------------------------------------------------------------
(* The window.                                                             *)

(* Outside a window there is nothing to know.                              *)
LEMMA NoWindow ==
  ASSUME NEW i \in Nat \ {0}, NEW op, test.main[i].op = op,
         op \notin {"perf_start", "call", "perf_stop"},
         test' = test, at' = i + 1 \/ status' # "running"
  PROVE  WindowInv'
  BY DEF WindowInv, After

(* n instructions on, the counters show n more, if they were started in    *)
(* time.                                                                   *)
LEMMA CountsOn ==
  ASSUME Machine, NEW n \in Nat, NEW c \in Nat, NEW i \in Nat, Elapsed(c, i),
         Cpi * (c + n) < Modulus, i + 1 + n < Modulus
  PROVE  /\ fallback =>
              /\ (HwAfter(n).cycles - base.cycles) % Modulus = Cpi * (c + n)
              /\ (HwAfter(n).instret - base.instret) % Modulus = i + n + 1
         /\ ~fallback =>
              /\ open.cycles  => CountAfter(n).cycles = Cpi * (c + n)
              /\ open.instret => CountAfter(n).instret = i + n
<1> DEFINE x == Cpi * c
           y == Cpi * n
<1>1. /\ Modulus \in Nat \ {0} /\ x \in Nat /\ y \in Nat /\ Cpi * (c + n) = x + y
  BY HarnessAssumption
<1>2. /\ HwAfter(n)["cycles"] = Mod(hw["cycles"] + y)
      /\ HwAfter(n)["instret"] = Mod(hw["instret"] + n)
  BY Costs DEF HwAfter, Event, Mod
<1>3. /\ CountAfter(n)["cycles"] = IF on["cycles"] THEN count["cycles"] + y
                                                  ELSE count["cycles"]
      /\ CountAfter(n)["instret"] = IF on["instret"] THEN count["instret"] + n
                                                    ELSE count["instret"]
  BY Costs DEF CountAfter, Event
<1>4. /\ hw["cycles"] \in Int /\ hw["instret"] \in Int
      /\ base["cycles"] \in Int /\ base["instret"] \in Int
  BY <1>1 DEF Machine, Event
<1>5. ASSUME fallback
      PROVE  /\ Mod(hw["cycles"] - base["cycles"]) = x
             /\ Mod(hw["instret"] - base["instret"]) = i + 1
  BY <1>5 DEF Elapsed, Mod
<1>6. ASSUME ~fallback
      PROVE  /\ open["cycles"] => on["cycles"] /\ count["cycles"] = x
             /\ open["instret"] => on["instret"] /\ count["instret"] = i
  BY <1>6 DEF Elapsed
<1> HIDE DEF x, y
<1>7. ASSUME fallback
      PROVE  /\ Mod(HwAfter(n)["cycles"] - base["cycles"]) = x + y
             /\ Mod(HwAfter(n)["instret"] - base["instret"]) = i + n + 1
  <2> DEFINE p == hw["cycles"] - base["cycles"]
             q == hw["cycles"] + y
             r == Mod(q) - base["cycles"]
             u == hw["instret"] - base["instret"]
             v == hw["instret"] + n
             w == Mod(v) - base["instret"]
  <2>0. \A z \in Int : Mod(z) \in Int
    BY <1>1, Remainder DEF Mod
  <2>1. /\ p \in Int /\ q \in Int /\ r \in Int /\ Moves(p, q, r, y)
        /\ Mod(p) = x /\ x + y < Modulus
    BY <1>1, <1>4, <1>5, <1>7, <2>0 DEF Moves
  <2>2. /\ u \in Int /\ v \in Int /\ w \in Int /\ Moves(u, v, w, n)
        /\ Mod(u) = i + 1 /\ (i + 1) + n < Modulus
    BY <1>4, <1>5, <1>7, <2>0 DEF Moves
  <2>3. Mod(r) = x + y /\ Mod(w) = i + n + 1
    <3> HIDE DEF p, q, r, u, v, w
    <3>1. Mod(r) = Mod(p) + y
      BY <1>1, <2>1, MovedOn
    <3>2. Mod(w) = Mod(u) + n
      <4>1. Mod(u) \in Nat /\ Mod(u) + n < Modulus
        BY <2>2
      <4> QED
        BY <2>2, <4>1, MovedOn
    <3> QED
      BY <2>1, <2>2, <3>1, <3>2
  <2> QED
    BY <1>2, <2>3
<1>8. ASSUME ~fallback
      PROVE  /\ open["cycles"]  => CountAfter(n)["cycles"] = x + y
             /\ open["instret"] => CountAfter(n)["instret"] = i + n
  BY <1>3, <1>6, <1>8
<1> QED
  <2> USE DEF Mod
  <2> QED
    BY <1>1, <1>7, <1>8

(* Initially there is no window.                                           *)
LEMMA WindowInit == Init => WindowInv
  BY DEF Init, WindowInv, After

(* When main comes to the call, the counters show what perf_start itself   *)
(* takes after it has read or enabled them.                                *)
LEMMA StartElapsed ==
  ASSUME Machine, PerfStart, 5 * Cpi < Modulus
  PROVE  (IF fallback THEN Elapsed(1, 1) ELSE Elapsed(1, 0))'
<1>1. Modulus \in Nat \ {0} /\ Cpi \in Nat \ {0}
  BY HarnessAssumption
<1>2. fallback' = fallback
  BY DEF PerfStart
<1>3. CASE fallback
  <2>1. /\ base' = [cycles |-> HwAfter(2).cycles, instret |-> HwAfter(1).instret]
        /\ hw' = HwAfter(3)
    BY <1>3 DEF PerfStart, Spend
  <2>2. /\ hw'["cycles"] = Mod(hw["cycles"] + 3 * Cpi)
        /\ base'["cycles"] = Mod(hw["cycles"] + 2 * Cpi)
        /\ hw'["instret"] = Mod(hw["instret"] + 3)
        /\ base'["instret"] = Mod(hw["instret"] + 1)
    BY <2>1, <1>1 DEF HwAfter, Event, Cost, Mod
  <2>3. hw["cycles"] \in Int /\ hw["instret"] \in Int
    BY <1>1 DEF Machine, Event
  <2>4. Mod(Mod(hw["cycles"] + 3 * Cpi) - Mod(hw["cycles"] + 2 * Cpi)) = Cpi
    <3>1. /\ 2 * Cpi \in Nat /\ 3 * Cpi \in Nat /\ 2 * Cpi <= 3 * Cpi
          /\ 3 * Cpi - 2 * Cpi < Modulus /\ 3 * Cpi - 2 * Cpi = Cpi
      BY <1>1
    <3> QED
      BY <2>3, <3>1, TwoReadings
  <2>5. Mod(Mod(hw["instret"] + 3) - Mod(hw["instret"] + 1)) = 2
    <3>1. 1 <= 3 /\ 3 - 1 < Modulus /\ 3 - 1 = 2
      BY <1>1
    <3> QED
      BY <2>3, <3>1, TwoReadings
  <2> QED
    BY <1>1, <1>2, <1>3, <2>2, <2>4, <2>5 DEF Elapsed, Mod
<1>4. CASE ~fallback
  <2>1. /\ on' = open /\ open' = open
        /\ count' = [e \in Event |-> IF open[e] /\ e = "cycles" THEN Cpi ELSE 0]
    BY <1>4 DEF PerfStart
  <2> QED
    BY <1>1, <1>2, <1>4, <2>1 DEF Elapsed, Event
<1> QED
  BY <1>3, <1>4

(* What perf_stop hands out when the window holds one call.                *)
LEMMA StopReads ==
  ASSUME Machine, EventsInv, StopCounters, Opened(test, at), last' = last,
         Cpi * (last + Slack) < Modulus,
         IF fallback THEN Elapsed(last + 2, last + 2)
                     ELSE Elapsed(last + 2, last + 1)
  PROVE  \A e \in Event : got'[e] \in Cost[e] * last .. Cost[e] * (last + Slack)
<1>1. Modulus \in Nat \ {0} /\ Cpi \in Nat \ {0} /\ last \in Nat
  BY HarnessAssumption DEF Machine
<1>2. /\ Cpi * (last + 3) \in Cpi * last .. Cpi * (last + Slack)
      /\ Cpi * (last + 3) < Modulus
      /\ last + Slack < Modulus
      /\ last + 3 \in 1 * last .. 1 * (last + Slack)
      /\ last + 5 \in 1 * last .. 1 * (last + Slack)
  <2> DEFINE z == Cpi * last
  <2>1. z \in Nat /\ z >= last
    BY <1>1
  <2>2. Cpi * (last + 3) = z + 3 * Cpi /\ Cpi * (last + Slack) = z + 5 * Cpi
    BY <1>1 DEF Slack
  <2> HIDE DEF z
  <2>3. z + 3 * Cpi \in z .. z + 5 * Cpi /\ z + 3 * Cpi < Modulus /\ last + 5 < Modulus
    BY <1>1, <2>1, <2>2
  <2> QED
    BY <1>1, <2>2, <2>3 DEF Slack, z
<1>3. Cost["cycles"] = Cpi /\ Cost["instret"] = 1
  BY DEF Cost
<1>4. CASE fallback
  <2>1. /\ got'["cycles"]  = (HwAfter(1).cycles - base.cycles) % Modulus
        /\ got'["instret"] = (HwAfter(2).instret - base.instret) % Modulus
    BY <1>4 DEF StopCounters
  <2>2. Elapsed(last + 2, last + 2) /\ last + 2 \in Nat
    BY <1>1, <1>4
  <2>3. (HwAfter(1).cycles - base.cycles) % Modulus = Cpi * ((last + 2) + 1)
    BY <1>1, <1>2, <1>4, <2>2, CountsOn DEF Slack
  <2>4. (HwAfter(2).instret - base.instret) % Modulus = (last + 2) + 2 + 1
    <3>1. Cpi * ((last + 2) + 2) < Modulus /\ (last + 2) + 1 + 2 < Modulus
      BY <1>1, <1>2 DEF Slack
    <3> QED
      BY <1>1, <1>4, <2>2, <3>1, CountsOn
  <2> QED
    BY <1>1, <1>2, <1>3, <2>1, <2>3, <2>4 DEF Event
<1>5. CASE ~fallback
  <2>1. open["cycles"] /\ open["instret"]
    BY <1>5 DEF EventsInv, Event
  <2>2. /\ got'["cycles"]  = CountAfter(1).cycles
        /\ got'["instret"] = CountAfter(2).instret
    BY <1>5, <2>1 DEF StopCounters, Event
  <2>3. Elapsed(last + 2, last + 1) /\ last + 2 \in Nat /\ last + 1 \in Nat
    BY <1>1, <1>5
  <2>4. CountAfter(1).cycles = Cpi * ((last + 2) + 1)
    BY <1>1, <1>2, <1>5, <2>1, <2>3, CountsOn DEF Slack
  <2>5. CountAfter(2).instret = (last + 1) + 2
    <3>1. Cpi * ((last + 2) + 2) < Modulus /\ (last + 1) + 1 + 2 < Modulus
      BY <1>1, <1>2 DEF Slack
    <3> QED
      BY <1>1, <1>5, <2>1, <2>3, <3>1, CountsOn
  <2> QED
    BY <1>1, <1>2, <1>3, <2>2, <2>4, <2>5 DEF Event
<1> QED
  BY <1>4, <1>5

(* Every step leaves the window as the statements before it made it.       *)
LEMMA WindowStep ==
  AllDisciplined /\ Place /\ Machine /\ EventsInv /\ WindowInv /\ [Next]_vars
    => WindowInv'
<1> SUFFICES ASSUME AllDisciplined, Place, Machine, EventsInv, WindowInv,
                    [Next]_vars
             PROVE  WindowInv'
  OBVIOUS
<1>r. at \in Nat \ {0}
  BY Rules
<1>c. Cpi \in Nat \ {0}
  BY HarnessAssumption
<1>m. ASSUME NEW op, op \notin {"perf_start", "call", "perf_stop"}, At(op),
             Continue \/ status' # "running", test' = test
      PROVE  WindowInv'
  BY <1>m, <1>r, NoWindow DEF At, Statement, Continue
<1>1. CASE PerfInit \/ InitialiseBoard
  BY <1>1, <1>m DEF PerfInit, InitialiseBoard, InitCounters, fixed
<1>2. CASE PerfStart
  <2>1. At("perf_start") /\ Continue /\ test' = test
    BY <1>2 DEF PerfStart, fixed
  <2>2. ~After("call", 1)' /\ ~After("perf_stop", 1)'
    BY <2>1, <1>r DEF At, Statement, Continue, After
  <2>3. ASSUME At("call")'
        PROVE  (IF fallback THEN Elapsed(1, 1) ELSE Elapsed(1, 0))'
    <3>1. /\ at + 1 \in DOMAIN test.main /\ test.main[at + 1].op = "call"
          /\ test \in Programs
      <4>1. DOMAIN test.main = 1 .. Len(test.main) /\ Len(test.main) \in Nat
        BY DEF AllDisciplined, Disciplined, KeepsRules, Place
      <4> QED
        BY <2>1, <2>3, <1>r, <4>1 DEF At, Statement, Continue, Place
    <3>2. PICK w \in Nat : Cpi * (w + Slack) < Modulus
      BY <3>1, CallBound, TRUE \in BOOLEAN
    <3>3. 5 * Cpi < Modulus
      BY <1>c, <3>2, HarnessAssumption DEF Slack
    <3> QED
      BY <1>2, <3>3, StartElapsed
  <2> QED
    BY <2>2, <2>3 DEF WindowInv
<1>3. CASE Call
  <2>1. At("call") /\ test' = test /\ status = "running"
    BY <1>3 DEF Call, fixed, At
  <2>2. CASE ~Safe(Statement.kernel)
    BY <1>3, <2>2 DEF Call, Crash, WindowInv, After, At
  <2>3. CASE Safe(Statement.kernel)
    <3> DEFINE n == Work(Statement, NLOOP)
    <3>1. /\ Continue /\ hw' = HwAfter(n + 1) /\ count' = CountAfter(n + 1)
          /\ on' = on /\ last' = n
          /\ UNCHANGED <<test, fallback, open, base>>
      BY <1>3, <2>3 DEF Call, Spend, fixed, counters
    <3>2. n \in Nat /\ Cpi * (n + Slack) < Modulus
      BY <2>1, CallWork
    <3> HIDE DEF n
    <3>3. ~After("perf_start", 1)' /\ ~After("perf_stop", 1)'
      BY <2>1, <3>1, <1>r DEF At, Statement, Continue, After
    <3>4. ASSUME After("perf_start", 2)'
          PROVE  After("perf_start", 1)
      BY <2>1, <3>1, <3>4, <1>r DEF Continue, After
    <3>5. ASSUME After("perf_start", 1)
          PROVE  (IF fallback THEN Elapsed(last + 2, last + 2)
                              ELSE Elapsed(last + 2, last + 1))'
      <4>1. IF fallback THEN Elapsed(1, 1) ELSE Elapsed(1, 0)
        BY <2>1, <3>5 DEF WindowInv
      <4>2. /\ Cpi * (1 + (n + 1)) < Modulus /\ 1 + 1 + (n + 1) < Modulus
            /\ n + 1 \in Nat
        <5> DEFINE z == Cpi * n
        <5>1. z \in Nat /\ z >= n
          BY <1>c, <3>2
        <5>2. /\ Cpi * (n + Slack) = z + 5 * Cpi
              /\ Cpi * (1 + (n + 1)) = z + 2 * Cpi
          BY <1>c, <3>2 DEF Slack
        <5> HIDE DEF z
        <5> QED
          BY <1>c, <3>2, <5>1, <5>2, HarnessAssumption
      <4>3. CASE fallback
        <5>1. /\ (HwAfter(n + 1).cycles - base.cycles) % Modulus = Cpi * (1 + (n + 1))
              /\ (HwAfter(n + 1).instret - base.instret) % Modulus = 1 + (n + 1) + 1
          BY <4>1, <4>2, <4>3, CountsOn
        <5>2. 1 + (n + 1) = n + 2 /\ 1 + (n + 1) + 1 = (n + 2) + 1
          BY <3>2
        <5> QED
          BY <3>1, <4>3, <5>1, <5>2 DEF Elapsed
      <4>4. CASE ~fallback
        <5>1. /\ on = open
              /\ open.cycles  => CountAfter(n + 1).cycles = Cpi * (1 + (n + 1))
              /\ open.instret => CountAfter(n + 1).instret = 0 + (n + 1)
          <6>1. Elapsed(1, 0) /\ 0 + 1 + (n + 1) < Modulus
            <7>1. Elapsed(1, 0)
              BY <4>1, <4>4
            <7>2. 0 + 1 + (n + 1) < 1 + 1 + (n + 1)
              BY <3>2
            <7> QED
              BY <3>2, <4>2, <7>1, <7>2, HarnessAssumption
          <6> QED
            BY <4>2, <4>4, <6>1, CountsOn DEF Elapsed
        <5>2. 1 + (n + 1) = n + 2 /\ 0 + (n + 1) = n + 1
          BY <3>2
        <5> QED
          BY <3>1, <4>4, <5>1, <5>2 DEF Elapsed
      <4> QED
        BY <4>3, <4>4
    <3> QED
      BY <3>1, <3>2, <3>3, <3>4, <3>5 DEF WindowInv
  <2> QED
    BY <2>2, <2>3
<1>4. CASE PerfStop
  <2>1. /\ At("perf_stop") /\ Continue /\ StopCounters /\ last' = last
        /\ test' = test /\ StopRule(test, at)
    BY <1>4, Rules DEF PerfStop, fixed, Stops
  <2>2. After("perf_start", 2) /\ After("call", 1) /\ Opened(test, at)
    BY <2>1, <1>r DEF StopRule, After, At
  <2>3. ~After("perf_start", 1)' /\ ~After("call", 1)'
    BY <2>1, <1>r DEF At, Statement, Continue, After
  <2>4. \A e \in Event : got'[e] \in Cost[e] * last .. Cost[e] * (last + Slack)
    BY <2>1, <2>2, StopReads DEF WindowInv
  <2> QED
    BY <2>1, <2>3, <2>4 DEF WindowInv
<1>5. CASE PerfPrint \/ StopTrigger \/ PerfClose \/ SetFpOperands \/ AllocOk \/ Free
  BY <1>5, <1>m
  DEF PerfPrint, StopTrigger, PerfClose, SetFpOperands, AllocOk, Free, Crash,
      fixed
<1>6. CASE ProbeBegin \/ ProbeEmitPoint \/ ProbeEnd
  BY <1>6, <1>m DEF ProbeBegin, ProbeEmitPoint, ProbeEnd, fixed
<1>7. CASE AllocFails \/ ScratchFails
  <2>1. CASE status' # "running"
    BY <2>1 DEF WindowInv, After, At
  <2>2. CASE status' = "running"
    <3>1. /\ At("alloc") /\ Otherwise /\ test' = test
      BY <1>7, <2>2 DEF AllocFails, ScratchFails, Crash, fixed
    <3>2. /\ AllocRule(test, at) /\ Statement.otherwise # 0
          /\ at' = at + Statement.otherwise
      BY <3>1, <2>2, Rules DEF Otherwise
    <3> DEFINE o == Statement.otherwise
               i == (at + o) - 1
    <3>4. o \in Nat \ {0} /\ at' = at + o
      BY <3>2 DEF AllocRule, Statement
    <3>3. test.main[(at + o) - 1].op
            \notin Inits \cup Stops \cup {"perf_start", "call"}
      <4>1. \A s : s = test.main[at] /\ s.otherwise # 0 =>
              test.main[(at + s.otherwise) - 1].op
                \notin Inits \cup Stops \cup {"perf_start", "call"}
        BY <3>2 DEF AllocRule
      <4> QED
        BY <3>2, <4>1 DEF Statement
    <3>5. i \in Nat \ {0} /\ at' = i + 1
      <4> HIDE DEF o
      <4> QED
        BY <3>4, <1>r
    <3>6. test.main[i].op \notin Inits \cup Stops \cup {"perf_start", "call"}
      BY <3>3
    <3> HIDE DEF i
    <3> QED
      <4>1. test.main[i].op \notin {"perf_start", "call", "perf_stop"}
        BY <3>6 DEF Stops
      <4> QED
        BY <3>1, <3>5, <4>1, NoWindow
  <2> QED
    BY <2>1, <2>2
<1>8. CASE Return
  BY <1>8 DEF Return, WindowInv, After, At
<1>9. CASE Restore
  <2> DEFINE i == image.at - 1
  <2>1. image.at \in 2 .. Len(test.main) + 1 /\ test.main[i].op = "perf_init"
    BY <1>9 DEF Restore, Place
  <2>2. i \in Nat \ {0} /\ image.at = i + 1
    <3>1. Len(test.main) \in Nat
      BY Rules
    <3> QED
      BY <2>1, <3>1
  <2>3. at' = image.at /\ test' = test
    BY <1>9 DEF Restore, fixed
  <2> HIDE DEF i
  <2> QED
    BY <2>1, <2>2, <2>3, NoWindow
<1>10. CASE UNCHANGED vars
  BY <1>10
  DEF vars, fixed, time, counters, WindowInv, After, Elapsed, At, Statement
<1>v. CASE VerifyBenchmark
  BY <1>v, <1>m DEF VerifyBenchmark, fixed
<1> QED
  BY <1>v, <1>1, <1>2, <1>3, <1>4, <1>5, <1>6, <1>7, <1>8, <1>9, <1>10 DEF Next, Step

-----------------------------------------------------------------------------
(* Operands.                                                               *)

(* Initially no operands are promised.                                     *)
LEMMA OperandsInit == Init => OperandsInv
<1> SUFFICES ASSUME Init PROVE OperandsInv
  OBVIOUS
<1>1. at = 1 /\ fallback = FALSE
  BY DEF Init
<1>2. ~Kept(test, 1, FALSE)
  BY AtFirst
<1>3. ~Kept(test, at, fallback)
  BY <1>1, <1>2
<1> QED
  BY <1>3 DEF OperandsInv

(* What is kept through library calls is kept without them.                *)
LEMMA KeptWeaker ==
  ASSUME NEW p, NEW i, NEW direct \in BOOLEAN, Kept(p, i, direct)
  PROVE  Kept(p, i, TRUE)
  BY DEF Kept

(* Every step that may touch the registers ends the promise.               *)
LEMMA OperandsStep ==
  AllDisciplined /\ Flags /\ Place /\ OperandsInv /\ [Next]_vars => OperandsInv'
<1> SUFFICES ASSUME AllDisciplined, Flags, Place, OperandsInv, [Next]_vars
             PROVE  OperandsInv'
  OBVIOUS
<1>r. at \in Nat \ {0} /\ fallback \in BOOLEAN
  BY Rules DEF Flags
<1>n. ASSUME NEW op, At(op), Continue, test' = test, NEW direct \in BOOLEAN
      PROVE  Kept(test, at', direct) <=>
               \/ op = "operands"
               \/ /\ Kept(test, at, direct)
                  /\ \/ op \in {"call", "perf_stop", "perf_close"}
                     \/ direct /\ op = "perf_start"
  BY <1>n, <1>r, KeptNext DEF At, Continue, Statement
<1>m. ASSUME NEW op, At(op), Continue, test' = test, fallback' \in BOOLEAN,
             op \notin {"operands", "call", "perf_stop", "perf_close", "perf_start"}
      PROVE  OperandsInv'
  <2>1. ~Kept(test, at', fallback')
    BY <1>m, <1>n
  <2> QED
    BY <1>m, <2>1 DEF OperandsInv
<1>k. ASSUME NEW op, op \in {"call", "perf_stop", "perf_close"}, At(op), Continue,
             UNCHANGED <<test, fallback, operands>>
      PROVE  OperandsInv'
  BY <1>k, <1>n, <1>r DEF OperandsInv, At
<1>s. ASSUME status' # "running" PROVE OperandsInv'
  BY <1>s DEF OperandsInv
<1>1. CASE PerfInit \/ InitialiseBoard
  <2>1. InitCounters /\ (At("perf_init") \/ At("initialise_board"))
    BY <1>1 DEF PerfInit, InitialiseBoard
  <2>2. fallback' \in BOOLEAN /\ Continue /\ test' = test
    BY <2>1 DEF InitCounters, OpenCounters, fixed
  <2> QED
    BY <2>1, <2>2, <1>m
<1>2. CASE PerfStart
  <2>1. At("perf_start") /\ Continue /\ UNCHANGED <<test, fallback>>
    BY <1>2 DEF PerfStart, fixed
  <2>2. CASE fallback
    <3>1. operands' = operands
      BY <1>2, <2>2 DEF PerfStart
    <3>2. Kept(test, at', fallback) => Kept(test, at, fallback)
      BY <2>1, <1>n, <1>r
    <3> QED
      BY <2>1, <3>1, <3>2 DEF OperandsInv, At
  <2>3. CASE ~fallback
    <3>1. ~Kept(test, at', fallback)
      BY <2>1, <2>3, <1>n, <1>r
    <3> QED
      BY <2>1, <3>1 DEF OperandsInv
  <2> QED
    BY <2>2, <2>3
<1>3. CASE PerfStop \/ PerfClose
  BY <1>3, <1>k DEF PerfStop, PerfClose, fixed, counters
<1>4. CASE PerfPrint \/ StopTrigger
  BY <1>4, <1>m, <1>r DEF PerfPrint, StopTrigger, fixed, counters
<1>5. CASE Call
  BY <1>5, <1>k, <1>s DEF Call, Crash, fixed, counters
<1>6. CASE SetFpOperands
  BY <1>6 DEF SetFpOperands, OperandsInv
<1>7. CASE AllocOk \/ Free
  BY <1>7, <1>m, <1>s, <1>r DEF AllocOk, Free, Crash, fixed, counters
<1>8. CASE AllocFails \/ ScratchFails
  <2>1. CASE status' # "running"
    BY <2>1, <1>s
  <2>2. CASE status' = "running"
    <3>1. At("alloc") /\ Otherwise /\ UNCHANGED <<test, fallback>>
      BY <1>8, <2>2 DEF AllocFails, ScratchFails, Crash, fixed, counters
    <3>2. /\ AllocRule(test, at) /\ Statement.otherwise # 0
          /\ at' = at + Statement.otherwise
      BY <3>1, <2>2, Rules DEF Otherwise
    <3>3. ~Kept(test, at', TRUE)
      BY <3>2 DEF AllocRule, Statement
    <3>4. ~Kept(test, at', fallback)
      BY <3>3, <1>r, KeptWeaker
    <3> QED
      BY <3>1, <3>4 DEF OperandsInv
  <2> QED
    BY <2>1, <2>2
<1>9. CASE ProbeBegin \/ ProbeEmitPoint \/ ProbeEnd
  BY <1>9, <1>m, <1>r DEF ProbeBegin, ProbeEmitPoint, ProbeEnd, fixed, counters
<1>10. CASE Return
  BY <1>10, <1>s DEF Return
<1>11. CASE Restore
  <2>1. /\ image.at \in 2 .. Len(test.main) + 1 /\ image # <<>>
        /\ test.main[image.at - 1].op = "perf_init"
    BY <1>11 DEF Restore, Place
  <2>2. image.at \in Nat /\ image.at > 1
    <3>1. Len(test.main) \in Nat
      BY Rules
    <3> QED
      BY <2>1, <3>1
  <2>3. \A direct \in BOOLEAN : ~Kept(test, image.at, direct)
    BY <2>1, <2>2, AtImage
  <2>4. /\ at' = image.at /\ test' = test /\ fallback' = image.fallback
        /\ image.fallback \in BOOLEAN
    BY <1>11, <2>1 DEF Restore, fixed, Flags
  <2> QED
    BY <2>3, <2>4 DEF OperandsInv
<1>12. CASE UNCHANGED vars
  BY <1>12 DEF vars, fixed, counters, OperandsInv
<1>v. CASE VerifyBenchmark
  BY <1>v, <1>m, <1>s, <1>r DEF VerifyBenchmark, fixed, counters
<1> QED
  BY <1>v, <1>1, <1>2, <1>3, <1>4, <1>5, <1>6, <1>7, <1>8, <1>9, <1>10, <1>11, <1>12
  DEF Next, Step

-----------------------------------------------------------------------------
(* Elements picked from a sequence by their indices.                       *)

(* Ranks number the members of a finite set of indices.                    *)
LEMMA Ranks ==
  ASSUME NEW n \in Nat, NEW I \in SUBSET (1 .. n)
  PROVE  /\ IsFiniteSet(I) /\ Cardinality(I) \in Nat
         /\ \A i \in I : Rank(I, i) \in 1 .. Cardinality(I)
         /\ \A i, j \in I : i < j => Rank(I, i) < Rank(I, j)
         /\ \A k \in 1 .. Cardinality(I) : \E i \in I : Rank(I, i) = k
<1>0. \A i \in I : i \in Int
  OBVIOUS
<1>1. IsFiniteSet(I) /\ Cardinality(I) \in Nat
  <2>1. IsFiniteSet(1 .. n)
    BY FS_Interval
  <2>2. IsFiniteSet(I)
    BY <2>1, FS_Subset
  <2> QED
    BY <2>2, FS_CardinalityType
<1> DEFINE Upto(i) == {j \in I : j <= i}
<1>2. \A i : /\ IsFiniteSet(Upto(i)) /\ Cardinality(Upto(i)) \in Nat
             /\ Cardinality(Upto(i)) <= Cardinality(I)
  BY <1>1, FS_Subset, FS_CardinalityType
<1>3. ASSUME NEW i \in I, NEW j \in I, i < j
      PROVE  Cardinality(Upto(i)) < Cardinality(Upto(j))
  <2>1. Upto(i) \in SUBSET Upto(j) /\ j \in Upto(j) /\ j \notin Upto(i)
    <3>1. i \in Int /\ j \in Int
      BY <1>0
    <3>2. \A l \in I : l <= i => l <= j
      BY <1>0, <1>3, <3>1
    <3>3. i < j => ~(j <= i) /\ j <= j
      BY <3>1
    <3> QED
      BY <1>3, <3>2, <3>3, Zenon
  <2> HIDE DEF Upto
  <2>2. Cardinality(Upto(i)) # Cardinality(Upto(j))
    BY <1>2, <2>1, FS_Subset
  <2>3. Cardinality(Upto(i)) <= Cardinality(Upto(j))
    BY <1>2, <2>1, FS_Subset
  <2> QED
    BY <1>2, <2>2, <2>3
<1>4. ASSUME NEW i \in I PROVE Cardinality(Upto(i)) # 0
  <2>1. i \in Upto(i)
    OBVIOUS
  <2> HIDE DEF Upto
  <2> QED
    BY <1>2, <2>1, FS_EmptySet
<1>5. \A i : Rank(I, i) = Cardinality(Upto(i))
  BY DEF Rank
<1> HIDE DEF Upto
<1>6. \A i \in I : Rank(I, i) \in 1 .. Cardinality(I)
  BY <1>1, <1>2, <1>4, <1>5
<1>7. \A i, j \in I : i < j => Rank(I, i) < Rank(I, j)
  BY <1>3, <1>5
<1>8. \A k \in 1 .. Cardinality(I) : \E i \in I : Rank(I, i) = k
  <2> DEFINE f == [i \in I |-> Rank(I, i)]
             T == 1 .. Cardinality(I)
  <2>1. IsFiniteSet(T) /\ Cardinality(T) = Cardinality(I)
    BY <1>1, FS_Interval
  <2>2. f \in Injection(I, T)
    <3>1. f \in [I -> T]
      BY <1>6
    <3>2. \A i, j \in I : f[i] = f[j] => i = j
      <4> SUFFICES ASSUME NEW i \in I, NEW j \in I, i # j PROVE Rank(I, i) # Rank(I, j)
        OBVIOUS
      <4>1. i < j \/ j < i
        OBVIOUS
      <4> QED
        BY <1>1, <1>6, <1>7, <4>1
    <3> QED
      BY <3>1, <3>2 DEF Injection, IsInjective
  <2> HIDE DEF f, T
  <2>3. f \in Surjection(I, T)
    BY <2>1, <2>2, FS_Injection
  <2> QED
    BY <2>3 DEF Surjection, f, T
<1> QED
  BY <1>1, <1>6, <1>7, <1>8

(* The member of a rank is the only one of that rank.                      *)
LEMMA NthIs ==
  ASSUME NEW n \in Nat, NEW I \in SUBSET (1 .. n)
  PROVE  /\ \A k \in 1 .. Cardinality(I) : Nth(I, k) \in I /\ Rank(I, Nth(I, k)) = k
         /\ \A i \in I : Nth(I, Rank(I, i)) = i
<1>1. \A k \in 1 .. Cardinality(I) : Nth(I, k) \in I /\ Rank(I, Nth(I, k)) = k
  BY Ranks DEF Nth
<1>2. ASSUME NEW i \in I PROVE Nth(I, Rank(I, i)) = i
  <2> DEFINE j == Nth(I, Rank(I, i))
  <2>1. j \in I /\ Rank(I, j) = Rank(I, i)
    BY <1>1, Ranks
  <2> HIDE DEF j
  <2>2. i \in Nat /\ j \in Nat
    BY <2>1
  <2>r. /\ Rank(I, i) \in Int
        /\ i < j => Rank(I, i) < Rank(I, j)
        /\ j < i => Rank(I, j) < Rank(I, i)
    <3>1. /\ Rank(I, i) \in 1 .. Cardinality(I)
          /\ i < j => Rank(I, i) < Rank(I, j)
          /\ j < i => Rank(I, j) < Rank(I, i)
      BY <2>1, Ranks, Zenon
    <3>2. \A m : m \in 1 .. Cardinality(I) => m \in Int
      OBVIOUS
    <3> QED
      BY <3>1, <3>2
  <2>3. ~(i < j) /\ ~(j < i)
    BY <2>1, <2>r
  <2>4. i = j
    BY <2>2, <2>3
  <2> QED
    BY <2>4 DEF j
<1> QED
  BY <1>1, <1>2

(* Nothing is picked from nothing; *)
LEMMA PickedNone == ASSUME NEW s PROVE Picked(s, {}) = <<>>
  BY FS_EmptySet DEF Picked

(* an element that is picked comes as many places from the front as there  *)
(* are indices picked up to its own;                                       *)
LEMMA PickedAt ==
  ASSUME NEW s, NEW n \in Nat, NEW I \in SUBSET (1 .. n)
  PROVE  /\ Len(Picked(s, I)) = Cardinality(I) /\ DOMAIN Picked(s, I) = 1 .. Cardinality(I)
         /\ \A i \in I : Picked(s, I)[Rank(I, i)] = s[i]
<1>1. Cardinality(I) \in Nat /\ \A i \in I : Rank(I, i) \in 1 .. Cardinality(I)
  BY Ranks
<1>2. \A i \in I : Nth(I, Rank(I, i)) = i
  BY NthIs
<1>3. DOMAIN Picked(s, I) = 1 .. Cardinality(I)
  BY DEF Picked
<1>4. Len(Picked(s, I)) = Cardinality(I)
  BY <1>1 DEF Picked
<1> QED
  BY <1>1, <1>2, <1>3, <1>4 DEF Picked

(* what is picked depends on no other elements;                            *)
LEMMA PickedSame ==
  ASSUME NEW n \in Nat, NEW I \in SUBSET (1 .. n), NEW s, NEW t,
         \A i \in 1 .. n : t[i] = s[i]
  PROVE  Picked(t, I) = Picked(s, I)
<1>1. \A k \in 1 .. Cardinality(I) : Nth(I, k) \in 1 .. n
  BY NthIs
<1> QED
  BY <1>1 DEF Picked

(* and one more at the end is one more of those that are picked.           *)
LEMMA PickedMore ==
  ASSUME NEW n \in Nat, NEW I \in SUBSET (1 .. n), NEW s, NEW t,
         \A i \in 1 .. n : t[i] = s[i]
  PROVE  Picked(t, I \cup {n + 1}) = Append(Picked(s, I), t[n + 1])
<1>1. \A k \in 1 .. Cardinality(I) : Nth(I, k) \in 1 .. n
  BY NthIs
<1> DEFINE J == I \cup {n + 1}
           c == Cardinality(I)
<1>3. c \in Nat /\ J \in SUBSET (1 .. n + 1) /\ n + 1 \in Nat
  <2>0. \A i \in I : i \in 1 .. n
    OBVIOUS
  <2>1. \A i \in I : i \in 1 .. n + 1
    <3>1. \A i \in 1 .. n : i \in 1 .. n + 1
      OBVIOUS
    <3> QED
      BY <2>0, <3>1
  <2>2. c \in Nat
    BY Ranks
  <2> QED
    BY <2>1, <2>2
<1>4. Cardinality(J) = c + 1
  BY Ranks, FS_AddElement
<1>5. \A i \in I : Rank(J, i) = Rank(I, i)
  <2> SUFFICES ASSUME NEW i \in I PROVE {j \in J : j <= i} = {j \in I : j <= i}
    BY DEF Rank
  <2> QED
    OBVIOUS
<1>6. Rank(J, n + 1) = c + 1
  <2>1. \A j \in J : j <= n + 1
    BY <1>3
  <2> QED
    BY <1>4, <2>1, Zenon DEF Rank
<1> HIDE DEF J
<1>7. \A k \in 1 .. c : Nth(J, k) = Nth(I, k)
  <2> SUFFICES ASSUME NEW k \in 1 .. c PROVE Nth(J, k) = Nth(I, k)
    OBVIOUS
  <2>1. Nth(I, k) \in I /\ Rank(I, Nth(I, k)) = k /\ I \subseteq J
    BY NthIs DEF J
  <2>2. Rank(J, Nth(I, k)) = k /\ Nth(I, k) \in J
    BY <1>5, <2>1
  <2> QED
    BY <1>3, <2>2, NthIs
<1>8. Nth(J, c + 1) = n + 1
  <2>1. n + 1 \in J
    BY DEF J
  <2> QED
    BY <1>3, <1>6, <2>1, NthIs
<1> HIDE DEF c
<1>9. Picked(s, I) = [k \in 1 .. c |-> s[Nth(I, k)]]
  BY DEF Picked, c
<1>10. Picked(t, J) = [k \in 1 .. c + 1 |-> t[Nth(J, k)]]
  BY <1>4 DEF Picked
<1>11. \A k \in 1 .. c : t[Nth(J, k)] = s[Nth(I, k)]
  BY <1>1, <1>7 DEF c
<1>12. Append(Picked(s, I), t[n + 1]) = [k \in 1 .. c + 1 |-> IF k <= c THEN s[Nth(I, k)] ELSE t[n + 1]]
  BY <1>3, <1>9
<1>13. Picked(t, J) = Append(Picked(s, I), t[n + 1])
  BY <1>3, <1>8, <1>10, <1>11, <1>12
<1> QED
  BY <1>13 DEF J

-----------------------------------------------------------------------------
(* What main says, in its text and in its log.                             *)

(* A statement more, of those before.                                      *)
LEMMA BeforeNext ==
  ASSUME NEW p, NEW i \in Nat \ {0}, NEW ops
  PROVE  /\ Before(p, ops, i) \in SUBSET (1 .. i - 1)
         /\ IsFiniteSet(Before(p, ops, i)) /\ Cardinality(Before(p, ops, i)) \in Nat
         /\ Before(p, ops, i + 1) = IF p.main[i].op \in ops THEN Before(p, ops, i) \cup {i}
                                                            ELSE Before(p, ops, i)
         /\ Cardinality(Before(p, ops, i + 1)) =
              IF p.main[i].op \in ops THEN Cardinality(Before(p, ops, i)) + 1
                                      ELSE Cardinality(Before(p, ops, i))
<1>1. Before(p, ops, i) \in SUBSET (1 .. i - 1)
  BY DEF Before
<1>2. IsFiniteSet(Before(p, ops, i)) /\ Cardinality(Before(p, ops, i)) \in Nat
  <2>1. i - 1 \in Nat
    OBVIOUS
  <2> QED
    BY <1>1, <2>1, Ranks
<1>3. Before(p, ops, i + 1) = IF p.main[i].op \in ops THEN Before(p, ops, i) \cup {i}
                                                      ELSE Before(p, ops, i)
  <2>1. 1 .. (i + 1) - 1 = (1 .. i - 1) \cup {i}
    OBVIOUS
  <2> QED
    BY <2>1 DEF Before
<1>4. i \notin Before(p, ops, i)
  BY DEF Before
<1>5. Cardinality(Before(p, ops, i) \cup {i}) = Cardinality(Before(p, ops, i)) + 1
  BY <1>2, <1>4, FS_AddElement
<1> QED
  BY <1>1, <1>2, <1>3, <1>5

(* What is before one statement as before another is so of every kind.     *)
LEMMA BeforeSame ==
  ASSUME NEW p, NEW i, NEW j, Before(p, Says, i) = Before(p, Says, j),
         NEW ops \in SUBSET Says
  PROVE  Before(p, ops, i) = Before(p, ops, j)
BY DEF Before

(* A line more, in the log.                                                *)
LEMMA KindMore ==
  ASSUME NEW s, IsSequence(s), NEW x, NEW kind
  PROVE  OfKind(Append(s, x), kind) = IF x.kind = kind THEN Append(OfKind(s, kind), x)
                                                       ELSE OfKind(s, kind)
<1> DEFINE n == Len(s)
           t == Append(s, x)
           I == {i \in 1 .. n : s[i].kind = kind}
           J == {i \in 1 .. n + 1 : t[i].kind = kind}
<1>1. PICK S : s \in Seq(S)
  BY DEF IsSequence
<1>2. /\ n \in Nat /\ DOMAIN s = 1 .. n /\ DOMAIN t = 1 .. n + 1
      /\ \A i \in 1 .. n : t[i] = s[i]
      /\ t[n + 1] = x
  BY <1>1
<1>3. OfKind(s, kind) = Picked(s, I) /\ OfKind(t, kind) = Picked(t, J)
  BY <1>2, Zenon DEF OfKind
<1>4. 1 .. n + 1 = (1 .. n) \cup {n + 1}
  BY <1>2
<1> HIDE DEF n, t
<1>5. J = IF x.kind = kind THEN I \cup {n + 1} ELSE I
  BY <1>2, <1>4
<1>6. I \in SUBSET (1 .. n)
  OBVIOUS
<1> HIDE DEF I, J
<1>7. /\ Picked(t, I) = Picked(s, I)
      /\ Picked(t, I \cup {n + 1}) = Append(Picked(s, I), t[n + 1])
  <2>1. n \in Nat /\ I \in SUBSET (1 .. n) /\ \A i \in 1 .. n : t[i] = s[i]
    BY <1>2, <1>6
  <2>2. Picked(t, I) = Picked(s, I)
    BY ONLY <2>1, PickedSame
  <2>3. Picked(t, I \cup {n + 1}) = Append(Picked(s, I), t[n + 1])
    BY ONLY <2>1, PickedMore
  <2> QED
    BY <2>2, <2>3
<1>8. OfKind(t, kind) = IF x.kind = kind THEN Append(OfKind(s, kind), x) ELSE OfKind(s, kind)
  BY <1>2, <1>3, <1>5, <1>7
<1> QED
  BY <1>8 DEF t

(* An empty log has no lines, and no lines have no length.                 *)
LEMMA KindNone ==
  ASSUME NEW kind
  PROVE  OfKind(<<>>, kind) = <<>>
<1>1. {i \in DOMAIN <<>> : <<>>[i].kind = kind} = {}
  OBVIOUS
<1> QED
  BY <1>1, PickedNone DEF OfKind

(* The lines picked are a sequence of lines of the log.                    *)
LEMMA KindIs ==
  ASSUME NEW s, IsSequence(s), NEW kind
  PROVE  /\ IsSequence(OfKind(s, kind)) /\ Len(OfKind(s, kind)) \in Nat
         /\ DOMAIN OfKind(s, kind) = 1 .. Len(OfKind(s, kind))
<1> DEFINE I == {i \in 1 .. Len(s) : s[i].kind = kind}
<1>1. PICK S : s \in Seq(S)
  BY DEF IsSequence
<1>2. Len(s) \in Nat /\ DOMAIN s = 1 .. Len(s) /\ \A i \in 1 .. Len(s) : s[i] \in S
  BY <1>1
<1>3. OfKind(s, kind) = Picked(s, I)
  BY <1>2, Zenon DEF OfKind
<1>4. I \in SUBSET (1 .. Len(s))
  OBVIOUS
<1> HIDE DEF I
<1>5. /\ Cardinality(I) \in Nat
      /\ \A k \in 1 .. Cardinality(I) : Nth(I, k) \in I
  BY ONLY <1>2, <1>4, Ranks, NthIs
<1>6. Picked(s, I) \in [1 .. Cardinality(I) -> S]
  BY <1>2, <1>4, <1>5 DEF Picked
<1>7. Picked(s, I) \in Seq(S)
  BY <1>5, <1>6
<1> QED
  BY <1>3, <1>7 DEF IsSequence

-----------------------------------------------------------------------------
(* The report.  What main has said is what its text says it would have     *)
(* said by now.                                                            *)
SaidInv ==
  /\ Alive => /\ Len(Lines) = Cardinality(Before(test, Prints, at))
              /\ Len(Points) = Cardinality(Before(test, {"probe_point"}, at))
              /\ \A i \in Before(test, {"probe_end"}, at) :
                   Before(test, Says, at) \subseteq 1 .. i =>
                     log # <<>> /\ log[Len(log)].kind = "json_end"
  /\ log # <<>> /\ log[1].kind = "json_begin" =>
       All(test, {"probe_begin"}) # {}

(* The latest call and the latest line are those main's text shows.        *)
CallInv ==
  /\ After("call", 1)      => last = Work(test.main[at - 1], NLOOP)
  /\ After("perf_stop", 1) => last = Work(test.main[at - 2], NLOOP)

LineInv ==
  After("perf_print", 1) =>
    LET s == test.main[at - 1]
    IN  Len(Lines) > 0 /\ Lines[Len(Lines)] = Line(NLOOP * s.times, s.insns)

PointsInv ==
  /\ emitted = Len(Points) /\ Len(Points) <= Len(Lines)
  /\ \A i \in DOMAIN Points :
       /\ Points[i].line = Lines[i] /\ Points[i].x = i
       /\ Points[i].comma <=> i > 1

ReportInv == SaidInv /\ CallInv /\ LineInv /\ PointsInv

(* Before main says anything.                                              *)
LEMMA ReportInit == AllDisciplined /\ Init => ReportInv
<1> SUFFICES ASSUME AllDisciplined, Init PROVE ReportInv
  OBVIOUS
<1>1. Lines = <<>> /\ Points = <<>> /\ log = <<>>
  BY KindNone DEF Init, Lines, Points
<1>2. \A ops : Before(test, ops, 1) = {}
  BY DEF Before
<1>3. Len(Lines) = 0 /\ Len(Points) = 0 /\ DOMAIN Points = {} /\ Cardinality({}) = 0
  BY <1>1, FS_EmptySet
<1>4. at = 1 /\ emitted = 0 /\ log = <<>> /\ \A op, n \in {1} : ~After(op, n)
  BY DEF Init, After
<1>5. SaidInv
  BY <1>1, <1>2, <1>3, <1>4 DEF SaidInv
<1>6. CallInv /\ LineInv
  BY <1>4 DEF CallInv, LineInv, After
<1>7. PointsInv
  BY <1>3, <1>4 DEF PointsInv
<1> QED
  BY <1>5, <1>6, <1>7 DEF ReportInv

(* The last call is the one in the window.                                 *)
LEMMA CallStep ==
  AllDisciplined /\ Place /\ CallInv /\ [Next]_vars => CallInv'
<1> SUFFICES ASSUME AllDisciplined, Place, CallInv, [Next]_vars PROVE CallInv'
  OBVIOUS
<1>r. /\ at \in Nat \ {0} /\ UNCHANGED <<test, build>>
  BY Rules DEF Next, Step, PerfInit, InitialiseBoard, InitCounters, PerfStart, PerfStop, PerfPrint,
     StopTrigger, PerfClose, Call, SetFpOperands, AllocOk, AllocFails, ScratchFails, Free,
     VerifyBenchmark, ProbeBegin, ProbeEmitPoint, ProbeEnd, Return, Restore, fixed, vars
<1>n. NLOOP' = NLOOP
  BY <1>r DEF NLOOP, Spike
<1>1. CASE UNCHANGED vars
  BY <1>1, <1>n DEF vars, fixed, CallInv, After
<1>2. CASE Call
  <2>1. At("call") /\ (Crash \/ (Continue /\ last' = Work(Statement, NLOOP)))
    BY <1>2 DEF Call
  <2>2. CASE Crash
    BY <2>2 DEF Crash, CallInv, After
  <2>3. CASE Continue /\ last' = Work(Statement, NLOOP)
    <3>1. /\ at' = at + 1 /\ at' - 1 = at /\ test.main[at].op = "call"
          /\ status' = "running"
      BY <2>1, <2>3, <1>r DEF Continue, At, Statement
    <3> QED
      BY <2>3, <3>1, <1>r, <1>n DEF CallInv, After, Statement
  <2> QED
    BY <2>1, <2>2, <2>3
<1>3. CASE PerfStop
  <2>1. At("perf_stop") /\ Continue /\ last' = last
    BY <1>3 DEF PerfStop
  <2>2. /\ at' = at + 1 /\ at' - 1 = at /\ at' - 2 = at - 1 /\ test.main[at].op = "perf_stop"
        /\ status' = "running" /\ status = "running"
    BY <2>1, <1>r DEF Continue, At, Statement
  <2>3. StopRule(test, at)
    BY <2>1, Rules DEF Stops
  <2>4. After("call", 1)
    BY <2>2, <2>3 DEF StopRule, After
  <2> QED
    BY <2>1, <2>2, <2>4, <1>r, <1>n DEF CallInv, After
<1>4. ASSUME NEW op, At(op), op \notin {"call", "perf_stop"}, Continue
      PROVE  CallInv'
  BY <1>4, <1>r DEF CallInv, After, At, Continue, Statement
<1>5. ASSUME At("alloc"), Otherwise
      PROVE  CallInv'
  <2>1. CASE status' = "failed"
    BY <2>1 DEF CallInv, After
  <2>2. CASE at' = at + Statement.otherwise /\ Statement.otherwise # 0
    <3>1. AllocRule(test, at)
      BY <1>5, Rules
    <3>2. /\ test.main[at' - 1].op \notin {"call", "perf_stop"}
      BY <2>2, <3>1 DEF AllocRule, Statement, Stops
    <3> QED
      BY <3>2, <1>r DEF CallInv, After
  <2> QED
    BY <1>5, <2>1, <2>2 DEF Otherwise
<1>6. ASSUME Crash PROVE CallInv'
  BY <1>6 DEF Crash, CallInv, After
<1>7. CASE Restore
  <2>1. at' = image.at /\ image # <<>>
    BY <1>7 DEF Restore
  <2>2. test.main[at' - 1].op = "perf_init"
    BY <2>1 DEF Place
  <2> QED
    BY <2>2, <1>r DEF CallInv, After
<1>8. CASE Return
  BY <1>8 DEF Return, CallInv, After
<1>9. CASE PerfInit \/ InitialiseBoard \/ PerfStart \/ PerfPrint \/ StopTrigger \/ PerfClose
  BY <1>4, <1>9 DEF PerfInit, InitialiseBoard, InitCounters, PerfStart, PerfPrint, StopTrigger,
                    PerfClose
<1>10. CASE SetFpOperands \/ AllocOk \/ Free \/ ProbeBegin \/ ProbeEmitPoint \/ ProbeEnd
  BY <1>4, <1>6, <1>10 DEF SetFpOperands, AllocOk, Free, ProbeBegin, ProbeEmitPoint, ProbeEnd
<1>11. CASE AllocFails \/ ScratchFails
  BY <1>5, <1>6, <1>11 DEF AllocFails, ScratchFails
<1>v. CASE VerifyBenchmark
  <2>1. CASE status' = "failed"
    BY <2>1 DEF CallInv, After
  <2> QED
    BY <1>4, <1>v, <2>1 DEF VerifyBenchmark
<1> QED
  BY <1>v, <1>1, <1>2, <1>3, <1>7, <1>8, <1>9, <1>10, <1>11 DEF Next, Step

(* A step on which main says nothing.                                      *)
LEMMA Quiet ==
  ASSUME Place, SaidInv, PointsInv, UNCHANGED <<test, log, emitted>>,
         Alive' => Alive /\ Before(test, Says, at') = Before(test, Says, at)
  PROVE  SaidInv' /\ PointsInv'
<1>1. Lines' = Lines /\ Points' = Points
  BY DEF Lines, Points
<1>3. ASSUME Alive', NEW ops \in SUBSET Says
      PROVE  Before(test, ops, at') = Before(test, ops, at)
  BY <1>3, BeforeSame
<1>4. Prints \in SUBSET Says /\ {"probe_point"} \in SUBSET Says
      /\ {"probe_end"} \in SUBSET Says /\ Says \in SUBSET Says
  BY DEF Says
<1>5. SaidInv'
  BY <1>1, <1>3, <1>4 DEF SaidInv, All, Before
<1>6. PointsInv'
  BY <1>1 DEF PointsInv
<1> QED
  BY <1>5, <1>6

(* A statement in which main says x.                                       *)
LEMMA Speaks ==
  ASSUME AllDisciplined, Place, SaidInv, NEW op \in Says, At(op), Continue, UNCHANGED test,
         NEW x, log' = Append(log, x),
         x.kind = "perf" <=> op \in Prints, x.kind = "point" <=> op = "probe_point",
         op = "probe_begin" <=> x.kind = "json_begin", op = "probe_end" => x.kind = "json_end"
  PROVE  /\ SaidInv'
         /\ Lines' = IF op \in Prints THEN Append(Lines, x) ELSE Lines
         /\ Points' = IF op = "probe_point" THEN Append(Points, x) ELSE Points
<1>1. Lines' = IF op \in Prints THEN Append(Lines, x) ELSE Lines
  BY KindMore DEF Lines, Place
<1>2. Points' = IF op = "probe_point" THEN Append(Points, x) ELSE Points
  BY KindMore DEF Points, Place
<1>3. /\ at \in Nat \ {0} /\ at \in 1 .. Len(test.main) /\ test.main[at].op = op
      /\ at' = at + 1 /\ Alive
      /\ Len(test.main) \in Nat
  BY Rules DEF At, Continue, Statement, Alive
<1>4. /\ IsSequence(Lines) /\ IsSequence(Points)
      /\ Len(Append(Lines, x)) = Len(Lines) + 1 /\ Len(Append(Points, x)) = Len(Points) + 1
  BY KindIs, AppendOne DEF Lines, Points, Place
<1>5. /\ Len(Lines') = Cardinality(Before(test, Prints, at'))
      /\ Len(Points') = Cardinality(Before(test, {"probe_point"}, at'))
  <2>1. /\ Len(Lines) = Cardinality(Before(test, Prints, at))
        /\ Len(Points) = Cardinality(Before(test, {"probe_point"}, at))
    BY <1>3 DEF SaidInv
  <2>n. \A ops : Cardinality(Before(test, ops, at')) =
                 IF op \in ops THEN Cardinality(Before(test, ops, at)) + 1
                               ELSE Cardinality(Before(test, ops, at))
    BY <1>3, BeforeNext
  <2>2. Len(Lines') = Cardinality(Before(test, Prints, at'))
    BY <1>1, <1>4, <2>1, <2>n
  <2>3. Len(Points') = Cardinality(Before(test, {"probe_point"}, at'))
    BY <1>2, <1>4, <2>1, <2>n
  <2> QED
    BY <2>2, <2>3
<1>6. /\ log' # <<>> /\ Len(log) \in Nat /\ Len(log') = Len(log) + 1 /\ log'[Len(log')] = x
      /\ log # <<>> => log'[1] = log[1]
      /\ log = <<>> => log'[1] = x
  <2>1. PICK S : log \in Seq(S)
    BY DEF Place, IsSequence
  <2>2. log \in Seq(S \cup {x}) /\ x \in S \cup {x}
    BY <2>1
  <2> QED
    BY <2>2
<1>7. ASSUME NEW i \in Before(test, {"probe_end"}, at'), Before(test, Says, at') \subseteq 1 .. i
      PROVE  log' # <<>> /\ log'[Len(log')].kind = "json_end"
  <2>1. at \in Before(test, Says, at')
    BY <1>3 DEF Before
  <2>2. i \in 1 .. at /\ test.main[i].op = "probe_end"
    BY <1>3, <1>7 DEF Before
  <2>3. i = at
    BY <1>3, <1>7, <2>1, <2>2
  <2> QED
    BY <1>3, <1>6, <2>2, <2>3
<1>8. log'[1].kind = "json_begin" => All(test, {"probe_begin"}) # {}
  <2>1. CASE log = <<>> /\ x.kind = "json_begin"
    <3>1. at \in All(test, {"probe_begin"})
      BY <1>3, <2>1 DEF All, Before
    <3> QED
      BY <3>1
  <2> QED
    BY <1>6, <2>1 DEF SaidInv
<1>9. SaidInv'
  BY <1>5, <1>7, <1>8 DEF SaidInv
<1> QED
  BY <1>1, <1>2, <1>9

(* What the rules say of the report.                                       *)
LEMMA ReportRules ==
  ASSUME AllDisciplined, Place
  PROVE  /\ NLOOP \in Nat
         /\ \A i \in DOMAIN test.main : test.main[i].op = "perf_init" => Before(test, Says, i) = {}
         /\ At("perf_print")  => PrintRule(test, at)
         /\ At("probe_point") => PointRule(test, at)
         /\ \A i \in DOMAIN test.main :
              test.main[i].op = "probe_begin" =>
                ProbeRule(test) /\ Before(test, {"probe_point"}, i) = {}
         /\ \A i \in DOMAIN test.main :
              test.main[i].op = "verify_benchmark" =>
                Before(test, Prints, i) = All(test, Prints)
<1>1. KeepsRules(test)
  BY DEF AllDisciplined, Disciplined, Place
<1>2. NLOOP \in Nat
  BY <1>1 DEF KeepsRules, NLOOP, Spike
<1>3. \A op : At(op) => at \in DOMAIN test.main /\ test.main[at].op = op
  BY Rules DEF At, Statement
<1>4. \A i \in DOMAIN test.main :
        /\ test.main[i].op = "perf_init" => Before(test, Says, i) = {}
        /\ test.main[i].op = "perf_print"  => PrintRule(test, i)
        /\ test.main[i].op = "probe_point" => PointRule(test, i)
        /\ test.main[i].op = "probe_begin" =>
             ProbeRule(test) /\ Before(test, {"probe_point"}, i) = {}
        /\ test.main[i].op = "verify_benchmark" =>
             Before(test, Prints, i) = All(test, Prints)
  BY <1>1 DEF KeepsRules
<1> QED
  BY <1>2, <1>3, <1>4

(* A checkpoint is saved before main says anything.                        *)
LEMMA NothingSaid ==
  ASSUME AllDisciplined, Place, image # <<>>
  PROVE  /\ image.at \in Nat \ {0} /\ test.main[image.at - 1].op = "perf_init"
         /\ \A ops \in SUBSET Says : Before(test, ops, image.at) = {}
<1> DEFINE i == image.at - 1
<1>1. /\ image.at \in 2 .. Len(test.main) + 1 /\ test.main[i].op = "perf_init"
      /\ Len(test.main) \in Nat /\ DOMAIN test.main = 1 .. Len(test.main)
  BY Rules DEF Place, AllDisciplined, Disciplined, KeepsRules
<1>2. i \in Nat \ {0} /\ i + 1 = image.at /\ i \in DOMAIN test.main
  BY <1>1
<1>3. Before(test, Says, i) = {}
  BY <1>1, <1>2, ReportRules
<1>4. "perf_init" \notin Says
  BY DEF Says, Prints
<1> HIDE DEF i
<1>5. Before(test, Says, i + 1) = {}
  <2>1. Before(test, Says, i + 1) = IF test.main[i].op \in Says THEN Before(test, Says, i) \cup {i}
                                                               ELSE Before(test, Says, i)
    BY <1>2, BeforeNext, Zenon
  <2> QED
    BY <1>1, <1>3, <1>4, <2>1
<1>6. Before(test, Says, image.at) = {}
  BY <1>2, <1>5
<1>7. test.main[image.at - 1].op = "perf_init"
  BY <1>1 DEF i
<1>8. \A ops \in SUBSET Says : Before(test, ops, image.at) \subseteq Before(test, Says, image.at)
  BY DEF Before
<1> QED
  BY <1>2, <1>6, <1>7, <1>8

(* Every statement of main says what it should, or nothing.                *)
LEMMA ReportStep ==
  AllDisciplined /\ Place /\ ReportInv /\ [Next]_vars => ReportInv'
<1> SUFFICES ASSUME AllDisciplined, Place, ReportInv, [Next]_vars PROVE ReportInv'
  OBVIOUS
<1> DEFINE Rest == SaidInv /\ LineInv /\ PointsInv
<1>i. SaidInv /\ LineInv /\ PointsInv /\ CallInv
  BY DEF ReportInv
<1>c. CallInv'
  BY <1>i, CallStep
<1> SUFFICES Rest'
  BY <1>c DEF ReportInv
<1>r. /\ at \in Nat \ {0}
      /\ \A op : At(op) => /\ status = "running" /\ test.main[at].op = op
                          /\ at \in DOMAIN test.main
  BY Rules DEF At, Statement
<1>l. \A ops : /\ IsFiniteSet(Before(test, ops, at))
                /\ Cardinality(Before(test, ops, at)) \in Nat
  BY <1>r, BeforeNext
<1>s. /\ IsSequence(Lines) /\ Len(Lines) \in Nat /\ DOMAIN Lines = 1 .. Len(Lines)
      /\ IsSequence(Points) /\ Len(Points) \in Nat /\ DOMAIN Points = 1 .. Len(Points)
  BY KindIs DEF Lines, Points, Place
<1>q. ASSUME NEW op, At(op), op \notin Says, Continue, UNCHANGED <<test, log, emitted>>
      PROVE  Rest'
  <2>1. at' = at + 1 /\ at' - 1 = at /\ Alive /\ test.main[at].op # "perf_print"
    BY <1>q, <1>r DEF Continue, Alive, Says, Prints
  <2>2. Before(test, Says, at') = Before(test, Says, at)
    <3>1. Before(test, Says, at + 1) = IF test.main[at].op \in Says
                                       THEN Before(test, Says, at) \cup {at}
                                       ELSE Before(test, Says, at)
      BY <1>r, BeforeNext, Zenon
    <3> QED
      BY <1>q, <1>r, <2>1, <3>1
  <2>3. SaidInv' /\ PointsInv'
    BY <1>i, <1>q, <2>1, <2>2, Quiet
  <2>4. LineInv'
    BY <1>q, <2>1 DEF LineInv, After
  <2> QED
    BY <2>3, <2>4
<1>k. ASSUME status' \in {"failed", "crashed"}, UNCHANGED <<test, log, emitted>>
      PROVE  Rest'
  <2>1. ~Alive' /\ LineInv'
    BY <1>k DEF Alive, LineInv, After
  <2> QED
    BY <1>i, <1>k, <2>1, Quiet
<1>o. ASSUME At("alloc"), Otherwise, UNCHANGED <<test, log, emitted>>
      PROVE  Rest'
  <2>1. CASE Statement.otherwise = 0
    BY <1>k, <1>o, <2>1 DEF Otherwise
  <2>2. CASE Statement.otherwise # 0
    <3>1. /\ at' = at + Statement.otherwise /\ Alive /\ AllocRule(test, at)
      BY <1>o, <2>2, <1>r, Rules DEF Otherwise, Alive
    <3>2. /\ Statement.otherwise \in Nat /\ at' - 1 \in Nat /\ at' - 1 >= at
          /\ at' - 1 \in 1 .. at' - 1
          /\ Before(test, Says, at') = Before(test, Says, at)
      <4>1. /\ Statement.otherwise \in Nat
            /\ Before(test, Says, at + Statement.otherwise) = Before(test, Says, at)
        BY <3>1, <2>2 DEF AllocRule, Statement
      <4>2. Statement.otherwise >= 1
        BY <4>1, <2>2
      <4> HIDE DEF Statement
      <4> QED
        BY <4>1, <4>2, <3>1, <1>r
    <3>3. SaidInv' /\ PointsInv'
      BY <1>i, <1>o, <3>1, <3>2, Quiet
    <3>4. test.main[at' - 1].op # "perf_print"
      <4> SUFFICES ASSUME test.main[at' - 1].op = "perf_print" PROVE FALSE
        OBVIOUS
      <4>1. at' - 1 \in Before(test, Says, at')
        BY <3>2 DEF Before, Says, Prints
      <4>2. at' - 1 \in 1 .. at - 1
        BY <3>2, <4>1 DEF Before
      <4> QED
        BY <3>2, <4>2, <1>r
    <3>5. LineInv'
      BY <1>o, <3>4 DEF LineInv, After
    <3> QED
      BY <3>3, <3>5
  <2> QED
    BY <2>1, <2>2
<1>1. CASE PerfInit \/ InitialiseBoard \/ PerfStart \/ PerfStop \/ PerfClose
  BY <1>1, <1>q
  DEF PerfInit, InitialiseBoard, InitCounters, PerfStart, PerfStop, PerfClose, output, fixed,
      Says, Prints
<1>2. CASE Call \/ SetFpOperands \/ AllocOk \/ Free
  <2>1. CASE Crash
    BY <1>2, <1>k, <2>1 DEF Crash, Call, SetFpOperands, AllocOk, Free, output, fixed
  <2>2. CASE Continue
    BY <1>2, <1>q, <2>2 DEF Call, SetFpOperands, AllocOk, Free, output, fixed, Says, Prints
  <2> QED
    BY <1>2, <2>1, <2>2 DEF Call, SetFpOperands, AllocOk, Free
<1>3. CASE AllocFails \/ ScratchFails
  BY <1>3, <1>k, <1>o DEF AllocFails, ScratchFails, Crash, output, fixed
<1>4. CASE Return
  <2>1. UNCHANGED <<test, log, emitted, at>> /\ Alive /\ status' = "passed"
    BY <1>4 DEF Return, output, fixed, Alive
  <2>2. SaidInv' /\ PointsInv'
    BY <1>i, <2>1, Quiet
  <2> QED
    BY <2>1, <2>2 DEF LineInv, After
<1>5. CASE Restore
  <2>1. /\ log' = <<>> /\ emitted' = 0 /\ at' = image.at /\ image # <<>> /\ test' = test
    BY <1>5 DEF Restore, fixed
  <2>2. /\ Lines' = <<>> /\ Points' = <<>> /\ Len(<<>>) = 0 /\ DOMAIN <<>> = {}
        /\ Cardinality({}) = 0
    BY <2>1, KindNone, FS_EmptySet DEF Lines, Points
  <2>3. /\ Before(test, Prints, at') = {} /\ Before(test, {"probe_point"}, at') = {}
        /\ Before(test, {"probe_end"}, at') = {}
        /\ test.main[at' - 1].op = "perf_init"
    BY <2>1, NothingSaid DEF Says
  <2>4. SaidInv'
    BY <2>1, <2>2, <2>3 DEF SaidInv
  <2>5. LineInv'
    BY <2>1, <2>3 DEF LineInv, After
  <2>6. PointsInv'
    BY <2>1, <2>2 DEF PointsInv
  <2> QED
    BY <2>4, <2>5, <2>6
<1>6. CASE UNCHANGED vars
  <2>1. UNCHANGED <<test, log, emitted, at, status, got, build>>
    BY <1>6 DEF vars, output, fixed
  <2>2. Lines' = Lines /\ Points' = Points
    BY <2>1 DEF Lines, Points
  <2>3. SaidInv' /\ PointsInv'
    BY <1>i, <2>1, Quiet DEF Alive
  <2>4. LineInv'
    BY <1>i, <2>1, <2>2 DEF LineInv, After, NLOOP, Spike, Line
  <2> QED
    BY <2>3, <2>4
<1>p. ASSUME NEW op \in Prints, At(op), Continue, UNCHANGED <<test, emitted>>,
             NEW x, x.kind = "perf", log' = Append(log, x)
      PROVE  /\ SaidInv' /\ PointsInv' /\ Lines' = Append(Lines, x)
             /\ Len(Lines') = Len(Lines) + 1 /\ Lines'[Len(Lines')] = x
  <2>1. /\ SaidInv' /\ Lines' = Append(Lines, x) /\ Points' = Points
    BY <1>i, <1>p, Speaks DEF Prints, Says
  <2>2. /\ Len(Lines') = Len(Lines) + 1 /\ Lines'[Len(Lines')] = x
        /\ \A i \in 1 .. Len(Lines) : Lines'[i] = Lines[i]
    <3>1. PICK S : Lines \in Seq(S)
      BY <1>s DEF IsSequence
    <3>2. Lines \in Seq(S \cup {x}) /\ x \in S \cup {x}
      BY <3>1
    <3> QED
      BY <2>1, <3>2
  <2>3. PointsInv'
    BY <1>i, <1>p, <1>s, <2>1, <2>2 DEF PointsInv
  <2> QED
    BY <2>1, <2>2, <2>3
<1>7. CASE PerfPrint
  <2>1. /\ At("perf_print") /\ Continue /\ UNCHANGED <<test, build, emitted, got>>
        /\ log' = Append(log, Line(NLOOP * Statement.times, Statement.insns))
    BY <1>7 DEF PerfPrint, fixed
  <2> DEFINE x == Line(NLOOP * Statement.times, Statement.insns)
  <2>2. x.kind = "perf"
    BY DEF Line
  <2>3. "perf_print" \in Prints
    BY DEF Prints
  <2>4. /\ SaidInv' /\ PointsInv' /\ Len(Lines') = Len(Lines) + 1 /\ Lines'[Len(Lines')] = x
    <3> HIDE DEF x
    <3> QED
      BY <2>1, <2>2, <2>3, <1>p DEF x
  <2>5. at' - 1 = at
    BY <2>1, <1>r DEF Continue
  <2>6. LineInv'
    BY <2>1, <2>4, <2>5, <1>s DEF LineInv, Line, NLOOP, Spike, Statement
  <2> QED
    BY <2>4, <2>6
<1>8. CASE StopTrigger
  <2> DEFINE x == [Line(1, 0) EXCEPT !.cycles = got'.cycles, !.instret = got'.instret]
  <2>1. /\ At("stop_trigger") /\ Continue /\ UNCHANGED <<test, emitted>>
        /\ log' = Append(log, x)
    BY <1>8 DEF StopTrigger, fixed
  <2>2. x.kind = "perf" /\ "stop_trigger" \in Prints
    BY DEF Line, Prints
  <2> HIDE DEF x
  <2>3. SaidInv' /\ PointsInv'
    BY <2>1, <2>2, <1>p
  <2>4. at' - 1 = at /\ test.main[at].op = "stop_trigger"
    BY <2>1, <1>r DEF Continue
  <2>5. LineInv'
    BY <2>1, <2>4 DEF LineInv, After
  <2> QED
    BY <2>3, <2>5
<1>9. CASE ProbeBegin
  <2> DEFINE x == [kind |-> "json_begin"]
  <2>1. /\ At("probe_begin") /\ Continue /\ UNCHANGED test /\ emitted' = 0
        /\ log' = Append(log, x)
    BY <1>9 DEF ProbeBegin, fixed
  <2>2. x.kind = "json_begin" /\ "probe_begin" \in Says /\ "probe_begin" \notin Prints
    BY DEF Says, Prints
  <2> HIDE DEF x
  <2>3. SaidInv' /\ Lines' = Lines /\ Points' = Points
    BY <1>i, <2>1, <2>2, Speaks
  <2>4. Before(test, {"probe_point"}, at) = {}
    BY <2>1, <1>r, ReportRules
  <2>5. Len(Points) = 0
    BY <2>1, <2>4, <1>i, <1>r, FS_EmptySet DEF SaidInv, Alive
  <2>6. PointsInv'
    BY <1>i, <2>1, <2>3, <2>5 DEF PointsInv
  <2>7. LineInv'
    BY <2>1, <1>r DEF LineInv, After, Continue
  <2> QED
    BY <2>3, <2>6, <2>7
<1>10. CASE ProbeEnd
  <2> DEFINE x == [kind |-> "json_end"]
  <2>1. /\ At("probe_end") /\ Continue /\ UNCHANGED <<test, emitted>>
        /\ log' = Append(log, x)
    BY <1>10 DEF ProbeEnd, fixed
  <2>2. x.kind = "json_end" /\ "probe_end" \in Says /\ "probe_end" \notin Prints
    BY DEF Says, Prints
  <2> HIDE DEF x
  <2>3. SaidInv' /\ Lines' = Lines /\ Points' = Points
    BY <1>i, <2>1, <2>2, Speaks
  <2>6. PointsInv'
    BY <1>i, <2>1, <2>3 DEF PointsInv
  <2>7. LineInv'
    BY <2>1, <1>r DEF LineInv, After, Continue
  <2> QED
    BY <2>3, <2>6, <2>7
<1>11. CASE ProbeEmitPoint
  <2> DEFINE x == Point
  <2>1. /\ At("probe_point") /\ Continue /\ UNCHANGED test /\ emitted' = emitted + 1
        /\ log' = Append(log, x)
    BY <1>11 DEF ProbeEmitPoint, fixed
  <2>2. /\ x.kind = "point" /\ x.x = Statement.x /\ (x.comma <=> emitted > 0)
        /\ x.line = Line(NLOOP, Statement.insns)
        /\ "probe_point" \in Says /\ "probe_point" \notin Prints
    BY DEF Says, Prints, Point
  <2> HIDE DEF x
  <2>3. SaidInv' /\ Lines' = Lines /\ Points' = Append(Points, x)
    BY <1>i, <2>1, <2>2, Speaks
  <2>4. PointRule(test, at) /\ NLOOP \in Nat
    BY <2>1, ReportRules
  <2>5. After("perf_print", 1)
    BY <2>1, <2>4, <1>r DEF PointRule, After
  <2>6. Len(Lines) = Statement.x /\ Len(Points) + 1 = Statement.x
    BY <1>i, <1>r, <2>1, <2>4 DEF PointRule, SaidInv, Alive, Statement
  <2>7. Lines[Len(Lines)] = x.line
    <3>1. Lines[Len(Lines)] = Line(NLOOP * test.main[at - 1].times, test.main[at - 1].insns)
      BY <1>i, <2>5 DEF LineInv
    <3>2. NLOOP * test.main[at - 1].times = NLOOP
      BY <2>4 DEF PointRule
    <3> QED
      BY <3>1, <3>2, <2>2, <2>4 DEF PointRule, Statement
  <2>8. /\ Len(Points') = Len(Points) + 1 /\ DOMAIN Points' = 1 .. Len(Points) + 1
        /\ Points'[Len(Points) + 1] = x
        /\ \A i \in 1 .. Len(Points) : Points'[i] = Points[i]
    <3>1. PICK S : Points \in Seq(S)
      BY <1>s DEF IsSequence
    <3>2. Points \in Seq(S \cup {x}) /\ x \in S \cup {x}
      BY <3>1
    <3> QED
      BY <2>3, <3>2
  <2>9. PointsInv'
    <3>1. emitted = Len(Points)
      BY <1>i DEF PointsInv
    <3>2. emitted' = Len(Points') /\ Len(Points') <= Len(Lines')
      BY <1>s, <2>1, <2>3, <2>6, <2>8, <3>1
    <3>3. ASSUME NEW i \in DOMAIN Points'
          PROVE  /\ Points'[i].line = Lines'[i] /\ Points'[i].x = i
                 /\ Points'[i].comma <=> i > 1
      <4>1. CASE i = Len(Points) + 1
        <5>1. Points'[i] = x /\ i = Len(Lines) /\ (i > 1 <=> emitted > 0)
          BY <4>1, <1>s, <2>6, <2>8, <3>1
        <5>2. Points'[i].line = Lines'[i] /\ Points'[i].x = i
          BY <5>1, <2>2, <2>3, <2>6, <2>7
        <5>3. Points'[i].comma <=> i > 1
          BY <5>1, <2>2, Zenon
        <5> QED
          BY <5>2, <5>3
      <4>2. CASE i \in 1 .. Len(Points)
        BY <4>2, <1>i, <1>s, <2>3, <2>8 DEF PointsInv
      <4> QED
        BY <3>3, <4>1, <4>2, <1>s, <2>8
    <3> QED
      BY <3>2, <3>3 DEF PointsInv
  <2>10. LineInv'
    BY <2>1, <1>r DEF LineInv, After, Continue
  <2> QED
    BY <2>3, <2>9, <2>10
<1>v. CASE VerifyBenchmark
  <2>1. At("verify_benchmark") /\ UNCHANGED <<test, log, emitted>>
    BY <1>v DEF VerifyBenchmark, output, fixed
  <2> QED
    BY <1>v, <2>1, <1>k, <1>q DEF VerifyBenchmark, Says, Prints
<1> QED
  BY <1>v, <1>1, <1>2, <1>3, <1>4, <1>5, <1>6, <1>7, <1>8, <1>9, <1>10, <1>11 DEF Next, Step

(* The line a print statement owes is the next one, of as many as main has. *)
LEMMA OwedNext ==
  ASSUME AllDisciplined, Place
  PROVE  /\ Len(OwedLines(<<test, build>>)) = Cardinality(All(test, Prints))
         /\ \A op \in Prints : At(op) =>
              LET k == Cardinality(Before(test, Prints, at)) + 1
              IN  /\ k <= Cardinality(All(test, Prints))
                  /\ OwedLines(<<test, build>>)[k] =
                       IF op = "stop_trigger"
                       THEN [iters |-> 1, insns |-> 0, extra |-> 0]
                       ELSE [iters |-> NLOOP * Statement.times,
                             insns |-> Statement.insns,
                             extra |-> LoopControl * NLOOP + Slack]
<1> DEFINE n == Len(test.main)
           I == All(test, Prints)
           prints == Picked(test.main, I)
           Owes(s) == IF s.op = "stop_trigger" THEN [iters |-> 1, insns |-> 0, extra |-> 0]
                      ELSE [iters |-> NLOOP * s.times, insns |-> s.insns,
                            extra |-> LoopControl * NLOOP + Slack]
<1>1. n \in Nat
  BY Rules
<1>2. I \in SUBSET (1 .. n)
  BY <1>1 DEF All, Before
<1>3. OwedLines(<<test, build>>) = [i \in DOMAIN prints |-> Owes(prints[i])]
  BY DEF OwedLines, NLOOP, Spike
<1> HIDE DEF n, I, prints, Owes
<1>4. /\ DOMAIN prints = 1 .. Cardinality(I) /\ Cardinality(I) \in Nat
      /\ \A i \in I : /\ Rank(I, i) \in 1 .. Cardinality(I)
                      /\ prints[Rank(I, i)] = test.main[i]
  BY <1>1, <1>2, PickedAt, Ranks DEF prints
<1>5. Len(OwedLines(<<test, build>>)) = Cardinality(I)
  BY <1>3, <1>4
<1>6. ASSUME NEW op \in Prints, At(op)
      PROVE  LET k == Cardinality(Before(test, Prints, at)) + 1
             IN  k <= Cardinality(I) /\ OwedLines(<<test, build>>)[k] = Owes(Statement)
  <2> DEFINE k == Cardinality(Before(test, Prints, at)) + 1
  <2>1. at \in Nat \ {0} /\ at <= n /\ test.main[at].op = op
    BY <1>6, Rules DEF At, Statement, n
  <2>2. at \in I
    BY <2>1, <1>1 DEF I, All, Before, n
  <2>3. {j \in I : j <= at} = Before(test, Prints, at + 1)
    BY <2>1, <1>1 DEF I, All, Before, n
  <2>4. Rank(I, at) = Cardinality(Before(test, Prints, at + 1))
    BY <2>3 DEF Rank
  <2>5. Rank(I, at) = k
    BY <2>1, <2>4, BeforeNext
  <2> HIDE DEF k
  <2>6. k \in 1 .. Cardinality(I) /\ prints[k] = Statement
    BY <1>4, <2>2, <2>5 DEF Statement
  <2>7. OwedLines(<<test, build>>)[k] = Owes(Statement)
    BY <1>3, <1>4, <2>6
  <2> QED
    BY <2>6, <2>7, <1>4 DEF k
<1> QED
  BY <1>5, <1>6 DEF I, Owes, At

(* What perf_print prints fits what it declares.                           *)
LEMMA PrintFits ==
  ASSUME AllDisciplined, Place, Machine, WindowInv, CallInv, At("perf_print")
  PROVE  LET work == (NLOOP * Statement.times) * Statement.insns
         IN  work = 0 \/ (/\ work <= got.instret
                          /\ got.instret <= work + (LoopControl * NLOOP + Slack))
<1>1. at \in Nat \ {0} /\ PrintRule(test, at) /\ NLOOP \in Nat
  BY Rules, ReportRules
<1>2. After("perf_stop", 1)
  BY <1>1 DEF PrintRule, After, At
<1>3. last = Work(test.main[at - 2], NLOOP) /\ last \in Nat
  BY <1>2 DEF CallInv, Machine
<1>4. last <= got.instret /\ got.instret <= last + Slack /\ got.instret \in Int
  <2>1. got["instret"] \in Cost["instret"] * last .. Cost["instret"] * (last + Slack)
    BY <1>2 DEF WindowInv, Event
  <2>2. Cost["instret"] = 1
    BY DEF Cost
  <2> QED
    BY <1>3, <2>1, <2>2 DEF Slack
<1> DEFINE work == (NLOOP * Statement.times) * Statement.insns
           extra == LoopControl * NLOOP
<1>5. work = 0 \/ work \in last - extra .. last
  <2>1. Spike \in BOOLEAN
    BY DEF Spike
  <2> QED
    BY <1>1, <1>3, <2>1 DEF PrintRule, NLOOP, Statement
<1>6. extra \in Nat
  BY <1>1 DEF LoopControl
<1> HIDE DEF work, extra
<1>7. work = 0 \/ (work <= got.instret /\ got.instret <= work + (extra + Slack))
  BY <1>3, <1>4, <1>5, <1>6 DEF Slack
<1> QED
  BY <1>7 DEF work, extra

(* A statement that prints a line x prints the next of those the test owes. *)
LEMMA PrintOwed ==
  ASSUME AllDisciplined, Place, SaidInv, NEW op \in Prints, At(op), Continue,
         UNCHANGED <<test, build>>, NEW x, x.kind = "perf", log' = Append(log, x),
         Report!Fits(IF op = "stop_trigger"
                     THEN [iters |-> 1, insns |-> 0, extra |-> 0]
                     ELSE [iters |-> NLOOP * Statement.times,
                           insns |-> Statement.insns,
                           extra |-> LoopControl * NLOOP + Slack], x)
  PROVE  Report!PrintLine
<1>1. /\ IsSequence(Lines) /\ Len(Lines) \in Nat
      /\ Lines' = Append(Lines, x)
  <2>1. IsSequence(log) /\ x.kind = "perf"
    BY DEF Place
  <2>2. OfKind(Append(log, x), "perf") = Append(OfKind(log, "perf"), x)
    BY <2>1, KindMore
  <2> QED
    BY <2>1, <2>2, KindIs DEF Lines
<1>2. /\ Len(Lines') = Len(Lines) + 1 /\ Lines'[Len(Lines')] = x
      /\ SubSeq(Lines', 1, Len(Lines)) = Lines
  <2>1. PICK S : Lines \in Seq(S)
    BY <1>1 DEF IsSequence
  <2>2. Lines \in Seq(S \cup {x}) /\ x \in S \cup {x}
    BY <2>1
  <2> QED
    BY <1>1, <2>2
<1>3. Len(Lines) = Cardinality(Before(test, Prints, at)) /\ status = "running"
  BY DEF SaidInv, Alive, At
<1>4. /\ Len(Lines) < Len(OwedLines(<<test, build>>))
      /\ Report!Fits(OwedLines(<<test, build>>)[Len(Lines')], Lines'[Len(Lines')])
  <2> DEFINE k == Cardinality(Before(test, Prints, at)) + 1
  <2>1. k = Len(Lines') /\ Cardinality(All(test, Prints)) \in Nat
    <3>1. All(test, Prints) \in SUBSET (1 .. Len(test.main)) /\ Len(test.main) \in Nat
      BY Rules DEF All, Before
    <3> QED
      BY <1>1, <1>2, <1>3, <3>1, Ranks
  <2> DEFINE r == IF op = "stop_trigger"
                  THEN [iters |-> 1, insns |-> 0, extra |-> 0]
                  ELSE [iters |-> NLOOP * Statement.times,
                        insns |-> Statement.insns,
                        extra |-> LoopControl * NLOOP + Slack]
             w == OwedLines(<<test, build>>)
  <2>2. /\ Len(w) = Cardinality(All(test, Prints))
        /\ k <= Cardinality(All(test, Prints)) /\ w[k] = r
    BY OwedNext
  <2>3. Report!Fits(r, x)
    OBVIOUS
  <2> HIDE DEF k, r, w
  <2>4. Report!Fits(w[Len(Lines')], Lines'[Len(Lines')])
    BY <1>2, <2>1, <2>2, <2>3
  <2>5. Len(Lines) < Len(w)
    BY <1>1, <1>2, <2>1, <2>2
  <2> QED
    BY <2>4, <2>5 DEF w
<1>5. UNCHANGED <<<<test, build>>, status>>
  BY DEF Continue, At
<1> QED
  BY <1>2, <1>3, <1>4, <1>5 DEF Report!PrintLine

-----------------------------------------------------------------------------
(* The inductive invariant, and what follows from it.                      *)

HarnessInv ==
  Flags /\ Typed /\ HeapInv /\ EventsInv /\ WindowInv /\ OperandsInv

(* It holds in every state of programs that keep the rules.                *)
THEOREM HarnessInvariant == AllDisciplined => (Spec => []HarnessInv)
<1> SUFFICES ASSUME AllDisciplined PROVE Spec => []HarnessInv
  OBVIOUS
<1>1. Init => HarnessInv
  BY FlagsInit, TypedInit, HeapInit, EventsInit, WindowInit, OperandsInit
  DEF HarnessInv
<1>2. HarnessInv /\ [Next]_vars => HarnessInv'
  BY FlagsStep, PlaceStep, MachineStep, HeapStep, EventsStep, WindowStep,
     OperandsStep
  DEF HarnessInv, Typed
<1> QED
  BY <1>1, <1>2, PTL DEF Spec

(* Every variable holds a value of its type; fewer blocks are live than    *)
(* main has pointers, and it says at most one thing in a statement.        *)
THEOREM TypeCorrect == AllDisciplined => (Spec => []TypeOK)
<1> SUFFICES ASSUME AllDisciplined PROVE Spec => []TypeOK
  OBVIOUS
<1>1. HarnessInv => TypeOK
  <2> SUFFICES ASSUME HarnessInv PROVE TypeOK
    OBVIOUS
  <2>1. live \in Nat
    <3>1. Place /\ HeapInv /\ Blocks \subseteq test.slots
      BY DEF HarnessInv, Typed, Blocks
    <3>2. IsFiniteSet(Blocks)
      BY <3>1, Rules, FS_Subset
    <3> QED
      BY <3>1, <3>2, FS_CardinalityType DEF HeapInv
  <2>2. Len(log) <= 2 * Len(test.main)
    <3>1. /\ Place /\ IsSequence(log) /\ Len(log) < at
      BY DEF HarnessInv, Typed, Place
    <3>2. /\ Len(test.main) \in Nat
          /\ at \in Nat \ {0} /\ at <= Len(test.main) + 1
      BY <3>1, Rules
    <3>3. Len(log) \in Nat
      BY <3>1, AppendOne
    <3> QED
      BY <3>1, <3>2, <3>3
  <2>3. Flags /\ Place /\ Machine
    BY DEF HarnessInv, Typed
  <2> QED
    BY <2>1, <2>2, <2>3 DEF TypeOK, Flags, Place, Machine
<1> QED
  BY <1>1, HarnessInvariant, PTL

(* What perf_stop hands out is the work of the kernel, and at most Slack   *)
(* instructions more, in both counters and both ways of counting.          *)
THEOREM WindowsAreKernels == AllDisciplined => (Spec => []WindowIsKernel)
<1> SUFFICES ASSUME AllDisciplined PROVE Spec => []WindowIsKernel
  OBVIOUS
<1>1. HarnessInv => WindowIsKernel
  BY DEF HarnessInv, WindowInv, After, WindowIsKernel
<1> QED
  BY <1>1, HarnessInvariant, PTL

(* No path leaves an event or a block behind, and perf_stop reads events   *)
(* that are open and enabled.                                              *)
THEOREM AllIsReturned == AllDisciplined => (Spec => []ResourcesReturned)
<1> SUFFICES ASSUME AllDisciplined PROVE Spec => []ResourcesReturned
  OBVIOUS
<1>1. HarnessInv => ResourcesReturned
  <2> SUFFICES ASSUME HarnessInv PROVE ResourcesReturned
    OBVIOUS
  <2>1. Flags /\ Place /\ HeapInv /\ EventsInv /\ WindowInv
    BY DEF HarnessInv, Typed
  <2>2. ASSUME At("perf_stop"), ~fallback, NEW e \in Event
        PROVE  open[e] /\ on[e]
    <3>1. StopRule(test, at) /\ at \in Nat
      BY <2>1, <2>2, Rules DEF Stops
    <3>2. Opened(test, at) /\ After("perf_start", 2) /\ After("call", 1)
      BY <2>2, <3>1 DEF StopRule, After, At
    <3>3. on = open
      BY <2>1, <2>2, <3>2 DEF WindowInv, Elapsed
    <3> QED
      BY <2>1, <2>2, <3>2, <3>3 DEF EventsInv
  <2>3. ASSUME status = "passed"
        PROVE  live = 0 /\ \A e \in Event : ~open[e]
    <3>1. at = Len(test.main) + 1
      BY <2>1, <2>3 DEF Place
    <3>2. \A s \in Blocks : s \in test.slots /\ Holds(test, at, s)
      BY <2>1, <2>3 DEF HeapInv, Alive, Blocks
    <3>3. Blocks = {}
      BY <2>1, <3>1, <3>2, Rules
    <3>4. live = 0
      BY <2>1, <3>3, FS_EmptySet DEF HeapInv
    <3>5. \A e \in Event : ~open[e]
      BY <2>1, <3>1, Rules DEF EventsInv
    <3> QED
      BY <3>4, <3>5
  <2> QED
    BY <2>1, <2>2, <2>3 DEF ResourcesReturned, EventsInv
<1> QED
  BY <1>1, HarnessInvariant, PTL

(* A test that no allocation was denied does not crash.                    *)
THEOREM CrashesAreDenials == AllDisciplined => (Spec => []CrashNeedsFailedAlloc)
<1> SUFFICES ASSUME AllDisciplined PROVE Spec => []CrashNeedsFailedAlloc
  OBVIOUS
<1>1. HarnessInv => CrashNeedsFailedAlloc
  BY DEF HarnessInv, HeapInv, CrashNeedsFailedAlloc
<1> QED
  BY <1>1, HarnessInvariant, PTL

(* A kernel that takes operands from main is warmed up with them, and      *)
(* measured with them when the fallback counts.                            *)
THEOREM OperandsReachKernels == AllDisciplined => (Spec => []OperandsKept)
<1> SUFFICES ASSUME AllDisciplined PROVE Spec => []OperandsKept
  OBVIOUS
<1>1. HarnessInv => OperandsKept
  <2> SUFFICES ASSUME HarnessInv PROVE OperandsKept
    OBVIOUS
  <2>1. Flags /\ Place /\ OperandsInv
    BY DEF HarnessInv, Typed
  <2>2. SUFFICES ASSUME At("call"), Statement.kernel.needs, InitFirst,
                        fallback \/ Statement.share = 0
                 PROVE  operands = "set"
    BY DEF OperandsKept
  <2>3. Kept(test, at, Statement.share # 0)
    BY <2>1, <2>2, Rules DEF CallRule, InitFirst, Statement
  <2>4. Kept(test, at, fallback)
    BY <2>1, <2>2, <2>3 DEF Kept, Flags
  <2> QED
    BY <2>1, <2>2, <2>4 DEF OperandsInv, At
<1> QED
  BY <1>1, HarnessInvariant, PTL

(* What main has said stays what its text says it would have said.         *)
THEOREM ReportInvariant == AllDisciplined => (Spec => [](HarnessInv /\ ReportInv))
<1> SUFFICES ASSUME AllDisciplined PROVE Spec => [](HarnessInv /\ ReportInv)
  OBVIOUS
<1>1. Init => ReportInv
  BY ReportInit
<1>2. HarnessInv /\ ReportInv /\ [Next]_vars => ReportInv'
  BY ReportStep DEF HarnessInv, Typed
<1> QED
  BY <1>1, <1>2, HarnessInvariant, PTL DEF Spec

(* The JSON document of a probe and its ##PERF## lines report the same     *)
(* measurements in the same order, and a probe that passes has reported    *)
(* them all.                                                               *)
THEOREM PointsAreLines == AllDisciplined => (Spec => []PointsMatchLines)
<1> SUFFICES ASSUME AllDisciplined PROVE Spec => []PointsMatchLines
  OBVIOUS
<1>1. HarnessInv /\ ReportInv => PointsMatchLines
  <2> SUFFICES ASSUME HarnessInv, ReportInv PROVE PointsMatchLines
    OBVIOUS
  <2>1. Place /\ SaidInv /\ PointsInv
    BY DEF HarnessInv, Typed, ReportInv
  <2>2. ASSUME status = "passed", log # <<>>, log[1].kind = "json_begin"
        PROVE  Len(Points) = Len(Lines) /\ log[Len(log)].kind = "json_end"
    <3>1. at = Len(test.main) + 1 /\ Alive
      BY <2>1, <2>2 DEF Place, Alive
    <3>2. PICK j \in All(test, {"probe_begin"}) : TRUE
      BY <2>1, <2>2 DEF SaidInv
    <3>3. j \in DOMAIN test.main /\ test.main[j].op = "probe_begin"
      <4>1. /\ Len(test.main) \in Nat /\ DOMAIN test.main = 1 .. Len(test.main)
        BY <2>1 DEF Place, AllDisciplined, Disciplined, KeepsRules
      <4> QED
        BY <3>2, <4>1 DEF All, Before
    <3>4. ProbeRule(test)
      BY <2>1, <3>3, ReportRules
    <3>5. \A ops : All(test, ops) = Before(test, ops, at)
      BY <3>1 DEF All
    <3>6. Len(Points) = Len(Lines)
      BY <2>1, <3>1, <3>4, <3>5 DEF ProbeRule, SaidInv
    <3> QED
      BY <2>1, <3>1, <3>4, <3>5, <3>6 DEF ProbeRule, SaidInv
  <2> QED
    BY <2>1, <2>2 DEF PointsMatchLines, PointsInv
<1> QED
  BY <1>1, ReportInvariant, PTL

(* Every step of a test is one of the report, or says nothing in it.       *)
LEMMA ReportImplements ==
  AllDisciplined /\ HarnessInv /\ ReportInv /\ [Next]_vars =>
    [Report!Next]_(Report!vars)
<1> SUFFICES ASSUME AllDisciplined, HarnessInv, ReportInv, [Next]_vars
             PROVE  [Report!Next]_(Report!vars)
  OBVIOUS
<1>i. /\ Place /\ Machine /\ WindowInv /\ SaidInv /\ CallInv /\ IsSequence(log)
      /\ status = "passed" => at = Len(test.main) + 1
  BY DEF HarnessInv, Typed, ReportInv, Place
<1>q. ASSUME UNCHANGED <<test, build, status>>, Lines' = Lines
      PROVE  UNCHANGED Report!vars
  BY <1>q DEF Report!vars
<1>n. ASSUME UNCHANGED <<test, build, status, log>>
      PROVE  UNCHANGED Report!vars
  <2>1. Lines' = Lines
    BY <1>n DEF Lines
  <2> QED
    BY <1>n, <2>1, <1>q
<1>l. Lines = <<>> <=> Len(Lines) = 0
  <2>1. PICK S : Lines \in Seq(S)
    BY <1>i, KindIs DEF Lines, IsSequence
  <2> QED
    BY <2>1
<1>k. ASSUME UNCHANGED <<test, build, log>>, status = "running",
             status' = "crashed" \/ (status' = "failed" /\ Lines = <<>>)
      PROVE  Report!GiveUp
  <2>1. Lines' = Lines
    BY <1>k DEF Lines
  <2> QED
    BY <1>k, <2>1 DEF Report!GiveUp
<1>c. ASSUME NEW op, At(op), Continue, UNCHANGED <<test, build, log>>
      PROVE  UNCHANGED Report!vars
  BY <1>c, <1>n DEF At, Continue
<1>x. ASSUME NEW op, At(op), Crash, UNCHANGED <<test, build, log>>
      PROVE  Report!GiveUp
  BY <1>x, <1>k DEF At, Crash
<1>o. ASSUME At("alloc"), Otherwise, UNCHANGED <<test, build, log>>
      PROVE  Report!GiveUp \/ UNCHANGED Report!vars
  <2>1. CASE Statement.otherwise = 0
    <3>1. Before(test, Prints, at) = {}
      BY <1>i, <1>o, <2>1, Rules DEF AllocRule, Statement
    <3>2. Len(Lines) = 0
      BY <1>i, <1>o, <3>1, FS_EmptySet DEF SaidInv, Alive, At
    <3> QED
      BY <1>k, <1>l, <1>o, <2>1, <3>2 DEF Otherwise, At
  <2>2. CASE Statement.otherwise # 0
    BY <1>n, <1>o, <2>2 DEF Otherwise
  <2> QED
    BY <2>1, <2>2
<1>s. ASSUME NEW op, At(op), Continue, NEW x, x.kind # "perf", log' = Append(log, x),
             UNCHANGED <<test, build>>
      PROVE  UNCHANGED Report!vars
  <2>1. OfKind(log', "perf") = IF x.kind = "perf" THEN Append(OfKind(log, "perf"), x)
                                                  ELSE OfKind(log, "perf")
    BY <1>i, <1>s, KindMore
  <2>2. Lines' = Lines
    BY <1>s, <2>1 DEF Lines
  <2> QED
    BY <1>q, <1>s, <2>2 DEF At, Continue
<1>1. CASE PerfInit \/ InitialiseBoard \/ PerfStart \/ PerfStop \/ PerfClose
  BY <1>1, <1>c
  DEF PerfInit, InitialiseBoard, InitCounters, PerfStart, PerfStop, PerfClose, output, fixed
<1>2. CASE Call \/ SetFpOperands \/ AllocOk \/ Free
  <2>1. UNCHANGED <<test, build, log>>
    BY <1>2 DEF Call, SetFpOperands, AllocOk, Free, output, fixed
  <2>2. \E op : At(op) /\ (Crash \/ Continue)
    BY <1>2 DEF Call, SetFpOperands, AllocOk, Free
  <2> QED
    BY <1>c, <1>x, <2>1, <2>2 DEF Report!Next
<1>3. CASE AllocFails \/ ScratchFails
  BY <1>3, <1>x, <1>o DEF AllocFails, ScratchFails, output, fixed, Report!Next
<1>4. CASE PerfPrint
  <2> DEFINE x == Line(NLOOP * Statement.times, Statement.insns)
             work == (NLOOP * Statement.times) * Statement.insns
             r == [iters |-> NLOOP * Statement.times, insns |-> Statement.insns,
                   extra |-> LoopControl * NLOOP + Slack]
  <2>1. /\ At("perf_print") /\ Continue /\ UNCHANGED <<test, build>>
        /\ log' = Append(log, x)
    BY <1>4 DEF PerfPrint, fixed
  <2>2. work = 0 \/ (work <= got.instret /\ got.instret <= work + r.extra)
    BY <1>i, <2>1, PrintFits
  <2>3. /\ r.iters = NLOOP * Statement.times /\ r.insns = Statement.insns
        /\ work = r.iters * r.insns
        /\ x.iters = r.iters /\ x.insns = r.insns /\ x.instret = got.instret
        /\ x.kind = "perf"
    BY DEF Line
  <2>4. /\ "perf_print" \in Prints
        /\ r = IF "perf_print" = "stop_trigger"
               THEN [iters |-> 1, insns |-> 0, extra |-> 0] ELSE r
    BY DEF Prints
  <2>5. Report!Fits(r, x)
    <3> HIDE DEF x, work, r
    <3> QED
      BY <2>2, <2>3 DEF Report!Fits
  <2>6. Report!PrintLine
    <3> HIDE DEF x
    <3> QED
      BY <1>i, <2>1, <2>3, <2>4, <2>5, PrintOwed
  <2> QED
    BY <2>6 DEF Report!Next
<1>5. CASE StopTrigger
  <2> DEFINE x == [Line(1, 0) EXCEPT !.cycles = got'.cycles, !.instret = got'.instret]
             r == [iters |-> 1, insns |-> 0, extra |-> 0]
  <2>1. /\ At("stop_trigger") /\ Continue /\ UNCHANGED <<test, build>>
        /\ log' = Append(log, x)
    BY <1>5 DEF StopTrigger, fixed
  <2>2. x.kind = "perf" /\ x.iters = 1 /\ x.insns = 0 /\ "stop_trigger" \in Prints
    BY DEF Line, Prints
  <2>3. Report!Fits(r, x)
    BY <2>2 DEF Report!Fits
  <2>4. Report!PrintLine
    <3> HIDE DEF x
    <3> QED
      BY <1>i, <2>1, <2>2, <2>3, PrintOwed
  <2> QED
    BY <2>4 DEF Report!Next
<1>6. CASE ProbeBegin
  <2> DEFINE x == [kind |-> "json_begin"]
  <2>1. /\ At("probe_begin") /\ Continue /\ UNCHANGED <<test, build>>
        /\ log' = Append(log, x)
    BY <1>6 DEF ProbeBegin, fixed
  <2>2. x.kind # "perf"
    OBVIOUS
  <2> HIDE DEF x
  <2> QED
    BY <2>1, <2>2, <1>s
<1>7. CASE ProbeEmitPoint
  <2> DEFINE x == Point
  <2>1. /\ At("probe_point") /\ Continue /\ UNCHANGED <<test, build>>
        /\ log' = Append(log, x)
    BY <1>7 DEF ProbeEmitPoint, fixed
  <2>2. x.kind # "perf"
    BY DEF Point
  <2> HIDE DEF x
  <2> QED
    BY <2>1, <2>2, <1>s
<1>8. CASE ProbeEnd
  <2> DEFINE x == [kind |-> "json_end"]
  <2>1. /\ At("probe_end") /\ Continue /\ UNCHANGED <<test, build>>
        /\ log' = Append(log, x)
    BY <1>8 DEF ProbeEnd, fixed
  <2>2. x.kind # "perf"
    OBVIOUS
  <2> HIDE DEF x
  <2> QED
    BY <2>1, <2>2, <1>s
<1>9. CASE Return
  <2>1. /\ status = "running" /\ at > Len(test.main) /\ status' = "passed"
        /\ UNCHANGED <<test, build, log>>
    BY <1>9 DEF Return, output, fixed
  <2>2. at = Len(test.main) + 1
    BY <1>i, <2>1, Rules
  <2>3. Len(Lines) = Len(OwedLines(<<test, build>>))
    BY <1>i, <2>1, <2>2, OwedNext DEF SaidInv, Alive, All
  <2>4. Lines' = Lines
    BY <2>1 DEF Lines
  <2> QED
    BY <2>1, <2>3, <2>4 DEF Report!Next, Report!Pass
<1>10. CASE Restore
  <2>1. log' = <<>> /\ status' = "running" /\ UNCHANGED <<test, build>>
    BY <1>10 DEF Restore, fixed
  <2>2. Lines' = <<>>
    BY <2>1, KindNone DEF Lines
  <2> QED
    BY <2>1, <2>2 DEF Report!Next, Report!Restore
<1>11. CASE UNCHANGED vars
  BY <1>11, <1>n DEF vars, fixed, output
<1>v. CASE VerifyBenchmark
  <2>1. At("verify_benchmark") /\ UNCHANGED <<test, build, log>>
    BY <1>v DEF VerifyBenchmark, output, fixed
  <2>2. CASE Continue
    BY <2>1, <2>2, <1>c
  <2>3. CASE status' = "failed"
    <3>1. /\ at \in DOMAIN test.main /\ test.main[at].op = "verify_benchmark"
          /\ status = "running"
      BY <1>i, <2>1, Rules DEF At, Statement
    <3>2. Before(test, Prints, at) = All(test, Prints)
      BY <3>1, ReportRules, <1>i
    <3>3. Len(Lines) = Len(OwedLines(<<test, build>>))
      BY <1>i, <3>1, <3>2, OwedNext DEF SaidInv, Alive
    <3>4. VerifiesLast(<<test, build>>)
      <4>1. at \in All(test, {"verify_benchmark"})
        BY <3>1, Rules DEF All, Before
      <4> QED
        BY <4>1 DEF VerifiesLast
    <3>5. Lines' = Lines
      BY <2>1 DEF Lines
    <3> QED
      BY <2>1, <2>3, <3>1, <3>3, <3>4, <3>5 DEF Report!GiveUp, Report!Next
  <2> QED
    BY <1>v, <2>2, <2>3 DEF VerifyBenchmark
<1> QED
  BY <1>v, <1>1, <1>2, <1>3, <1>4, <1>5, <1>6, <1>7, <1>8, <1>9, <1>10, <1>11 DEF Next, Step

(* A test implements its report.                                           *)
THEOREM HarnessImplementsReport == AllDisciplined => (Spec => ImplementsTestReport)
<1> SUFFICES ASSUME AllDisciplined PROVE Spec => Report!Spec
  BY DEF ImplementsTestReport
<1>1. Init => Report!Init
  BY KindNone DEF Init, Report!Init, Lines
<1>2. HarnessInv /\ ReportInv /\ [Next]_vars => [Report!Next]_(Report!vars)
  BY ReportImplements
<1> QED
  BY <1>1, <1>2, ReportInvariant, PTL DEF Spec, Report!Spec
-----------------------------------------------------------------------------
(* Every statement is a step forward.                                      *)

(* The statements main() may still execute, its return among them.         *)
ToGo == IF status = "running" THEN Len(test.main) + 2 - at ELSE 0

ToGoBounded == ToGo \in 0 .. Len(test.main) + 1
GoesForward == \/ ToGo' < ToGo /\ UNCHANGED <<test, restores>>
               \/ restores' = restores + 1 /\ restores < MaxRestores /\ UNCHANGED test

LEMMA StepGoesForward ==
  ASSUME AllDisciplined, Place, Next
  PROVE  GoesForward
<1>r. /\ Len(test.main) \in Nat
      /\ at \in Nat \ {0} /\ at <= Len(test.main) + 1
  BY Rules
<1>s. ASSUME UNCHANGED fixed
      PROVE  Len(test'.main) = Len(test.main) /\ test' = test
  BY <1>s DEF fixed
<1>m. ASSUME NEW op, At(op), Continue, UNCHANGED <<fixed, restores>>
      PROVE  GoesForward
  <2>1. status = "running" /\ status' = "running" /\ at' = at + 1
    BY <1>m DEF At, Continue
  <2> QED
    BY <1>m, <1>r, <1>s, <2>1 DEF GoesForward, ToGo
<1>k. ASSUME NEW op, At(op), status' # "running", UNCHANGED <<fixed, restores>>
      PROVE  GoesForward
  <2>1. status = "running"
    BY <1>k DEF At
  <2> QED
    BY <1>k, <1>r, <1>s, <2>1 DEF GoesForward, ToGo
<1>q. ASSUME At("alloc"), Otherwise, UNCHANGED <<fixed, restores>>
      PROVE  GoesForward
  <2>1. CASE Statement.otherwise = 0
    BY <1>k, <1>q, <2>1 DEF Otherwise
  <2>2. CASE Statement.otherwise # 0
    <3>1. /\ status = "running" /\ status' = "running"
          /\ at' = at + Statement.otherwise /\ Statement.otherwise \in Nat
      BY <1>q, <2>2, Rules DEF At, Otherwise, AllocRule, Statement
    <3> QED
      BY <1>q, <1>r, <1>s, <2>2, <3>1 DEF GoesForward, ToGo
  <2> QED
    BY <2>1, <2>2
<1>1. CASE PerfInit \/ InitialiseBoard
  BY <1>1, <1>m DEF PerfInit, InitialiseBoard, InitCounters
<1>2. CASE PerfStart \/ PerfStop \/ PerfPrint \/ StopTrigger \/ PerfClose
  BY <1>2, <1>m
  DEF PerfStart, PerfStop, PerfPrint, StopTrigger, PerfClose, saved
<1>3. CASE Call \/ SetFpOperands \/ AllocOk \/ Free
  BY <1>3, <1>m, <1>k DEF Call, SetFpOperands, AllocOk, Free, saved, Crash
<1>4. CASE AllocFails \/ ScratchFails
  BY <1>4, <1>k, <1>q DEF AllocFails, ScratchFails, saved, Crash
<1>5. CASE ProbeBegin \/ ProbeEmitPoint \/ ProbeEnd
  BY <1>5, <1>m DEF ProbeBegin, ProbeEmitPoint, ProbeEnd, saved
<1>6. CASE Return
  <2>1. /\ status = "running" /\ status' = "passed"
        /\ UNCHANGED <<fixed, restores>>
    BY <1>6 DEF Return, saved
  <2> QED
    BY <1>r, <1>s, <2>1 DEF GoesForward, ToGo
<1>7. CASE Restore
  BY <1>7, <1>s DEF Restore, GoesForward
<1>v. CASE VerifyBenchmark
  BY <1>v, <1>m, <1>k DEF VerifyBenchmark, saved
<1> QED
  BY <1>v, <1>1, <1>2, <1>3, <1>4, <1>5, <1>6, <1>7 DEF Next, Step

(* main() executes each of its statements at most once in a life: it never *)
(* goes back, and where it goes on without a block it skips something; only *)
(* restoring a checkpoint begins again, at most MaxRestores times.  With   *)
(* TestEnds, which adds that it does go on, every test comes to an end.    *)
THEOREM MainGoesForward ==
  AllDisciplined => (Spec => []ToGoBounded /\ [][GoesForward]_vars)
<1> SUFFICES ASSUME AllDisciplined PROVE Spec => []ToGoBounded /\ [][GoesForward]_vars
  OBVIOUS
<1>1. HarnessInv => ToGoBounded /\ Place
  <2> SUFFICES ASSUME HarnessInv PROVE ToGoBounded /\ Place
    OBVIOUS
  <2>1. Place
    BY DEF HarnessInv, Typed
  <2>2. /\ Len(test.main) \in Nat
        /\ at \in Nat \ {0} /\ at <= Len(test.main) + 1
    BY <2>1, Rules
  <2> QED
    BY <2>1, <2>2 DEF ToGoBounded, ToGo
<1>2. Place /\ [Next]_vars => [GoesForward]_vars
  BY StepGoesForward
<1> QED
  BY <1>1, <1>2, HarnessInvariant, PTL DEF Spec

-----------------------------------------------------------------------------
(* The frame keeps the rules: the argument of CALC_NLOOP, and the numbers  *)
(* main declares to perf_print.                                            *)

LEMMA Quotients ==
  ASSUME NEW b \in Nat, NEW c \in Nat \ {0}
  PROVE  b \div c \in Nat /\ (b \div c) * c <= b
<1>1. b = c * (b \div c) + (b % c) /\ b % c \in 0 .. c - 1 /\ b \div c \in Int
  OBVIOUS
<1> DEFINE q == b \div c
           r == b % c
<1>2. b = c * q + r /\ r \in 0 .. c - 1 /\ q \in Int
  BY <1>1
<1> HIDE DEF q, r
<1>3. q >= 0
  <2>1. CASE q < 0
    <3>1. c * q <= 0 - c
      BY <1>2, <2>1
    <3> QED
      BY <1>2, <3>1
  <2> QED
    BY <1>2, <2>1
<1> QED
  BY <1>2, <1>3 DEF q

(* The costs the tests pass to CALC_NLOOP, and what it makes of them.      *)
MinCost == 20
MaxCost == 20000
Costly(cost) == cost \in MinCost .. MaxCost

MostLoops == Budget(FALSE) \div MinCost
MostWork  == Budget(FALSE) + LoopControl * MostLoops

(* So many iterations of so much stay within the budget.                   *)
InBudget(n, cost) == n \in Nat /\ n <= MostLoops /\ n * cost <= Budget(FALSE)

(* The numbers themselves matter only so far.                              *)
Scale(top, most, max) ==
  /\ top \in Nat /\ most \in Nat /\ max \in Nat
  /\ top = Budget(FALSE) /\ most = MostLoops /\ max = MaxCost
  /\ 20 * most = top /\ 1000 * max <= top /\ 1000 <= most

LEMMA Numbers ==
  /\ LoopControl = 3 /\ MinCost = 20 /\ MaxCost \in Nat
  /\ \E top, most, max : Scale(top, most, max)
<1>1. Scale(200000000, 10000000, 20000)
  BY SMT DEF Scale, MinCost, MaxCost, Budget, MostLoops
<1> QED
  BY <1>1, SMT DEF LoopControl, MinCost, MaxCost

LEMMA Budgets ==
  ASSUME NEW spike \in BOOLEAN
  PROVE  Budget(spike) \in Nat /\ Budget(spike) <= Budget(FALSE)
BY SMT DEF Budget

LEMMA LoopsFit ==
  ASSUME NEW cost, Costly(cost), NEW spike \in BOOLEAN
  PROVE  InBudget(CalcNloop(spike, cost), cost)
<1>0. PICK top, most, max : Scale(top, most, max)
  BY Numbers
<1>a. /\ top \in Nat /\ most \in Nat /\ max \in Nat
      /\ 20 * most = top /\ 1000 * max <= top
  BY <1>0, ZenonT(30) DEF Scale
<1>1. cost \in Nat \ {0} /\ cost >= 20 /\ cost <= max
  BY <1>0, Numbers DEF Costly, Scale
<1>2. PICK b \in Nat : b = Budget(spike) /\ b <= top
  <2>1. Budget(spike) \in Nat /\ Budget(spike) <= Budget(FALSE)
    BY Budgets
  <2>2. Budget(FALSE) = top
    BY <1>0 DEF Scale
  <2> QED
    BY <2>1, <2>2, Zenon
<1>3. PICK q \in Nat : q = b \div cost /\ q * cost <= b
  BY <1>1, <1>2, Quotients
<1>4. PICK floor \in {10, 100} : CalcNloop(spike, cost) = IF q > floor THEN q ELSE floor
  BY <1>2, <1>3 DEF CalcNloop
<1>5. 100 * cost <= top /\ 10 * cost <= top
  BY <1>a, <1>1
<1>6. PICK n \in Nat : n = CalcNloop(spike, cost) /\ n * cost <= top
  <2>1. CASE q > floor
    <3>1. q = CalcNloop(spike, cost)
      BY <1>4, <2>1
    <3>2. PICK qc \in Nat : qc = q * cost
      BY <1>1
    <3>3. qc <= top
      BY <1>a, <1>2, <1>3, <3>2
    <3> QED
      BY <3>1, <3>2, <3>3
  <2>2. CASE ~(q > floor)
    BY <1>4, <1>5, <2>2
  <2> QED
    BY <2>1, <2>2
<1>7. 20 * n <= n * cost
  BY <1>1
<1>8. PICK nc \in Nat : nc = n * cost
  BY <1>1
<1>9. n <= most
  <2>1. 20 * n <= nc /\ nc <= top
    BY <1>6, <1>7, <1>8
  <2> QED
    BY <1>a, <2>1
<1>10. top = Budget(FALSE) /\ most = MostLoops
  BY <1>0 DEF Scale
<1> QED
  BY <1>6, <1>9, <1>10, Zenon DEF InBudget

(* A kernel that executes at most what CALC_NLOOP was told stays within    *)
(* the budget, but for the control of its loop.                            *)
LEMMA WorkFits ==
  ASSUME NEW cost, Costly(cost), NEW n, InBudget(n, cost),
         NEW insns \in Nat, NEW control \in 0 .. LoopControl, insns <= cost
  PROVE  n * (insns + control) \in 0 .. MostWork
<1>0. PICK top, most, max : Scale(top, most, max)
  BY Numbers
<1>a. top \in Nat /\ most \in Nat /\ top = Budget(FALSE) /\ most = MostLoops
  BY <1>0, ZenonT(30) DEF Scale
<1>1. cost \in Nat
  BY Numbers DEF Costly
<1>2. n \in Nat /\ n <= MostLoops /\ n * cost <= Budget(FALSE)
  BY DEF InBudget
<1>3. n * insns <= n * cost /\ n * insns \in Nat /\ n * cost \in Nat
  BY <1>1, <1>2
<1>4. control \in Nat /\ control <= 3
  BY Numbers
<1>5. n * control <= n * 3 /\ n * control \in Nat
  BY <1>2, <1>4
<1>6. n * (insns + control) = n * insns + n * control
  BY <1>2, <1>4
<1> DEFINE a == n * insns
           b == n * control
           c == n * cost
<1>7. /\ a \in Nat /\ b \in Nat /\ c \in Nat
      /\ a <= c /\ b <= n * 3
  BY <1>2, <1>3, <1>5
<1>8. n * (insns + control) = a + b /\ c <= Budget(FALSE)
  BY <1>2, <1>6
<1> HIDE DEF a, b, c
<1>9. n <= most /\ c <= top
  BY <1>2, <1>8, <1>a, Zenon
<1>b. top \in Nat /\ most \in Nat
  BY <1>a
<1>10. a + b \in 0 .. top + 3 * most
  BY <1>2, <1>7, <1>9, <1>b
<1>11. MostWork = top + 3 * most
  BY <1>a, Numbers, Zenon DEF MostWork
<1> QED
  BY <1>8, <1>10, <1>11, Zenon

(* The iterations and instructions declared are those executed, but for    *)
(* the control of the loop.                                                *)
LEMMA DeclaredFits ==
  ASSUME NEW n \in Nat, NEW times \in Nat, NEW insns \in Nat,
         NEW control \in 0 .. LoopControl
  PROVE  (n * times) * insns \in n * (times * insns + control) - LoopControl * n
                                 .. n * (times * insns + control)
<1> DEFINE w == times * insns
<1>0. LoopControl = 3
  BY Numbers
<1>1. LoopControl = 3 /\ w \in Nat /\ (n * times) * insns = n * w
  BY <1>0
<1> HIDE DEF w
<1>2. n * w \in Nat /\ n * control \in Nat /\ n * control <= 3 * n
  BY <1>1
<1>3. n * (w + control) = n * w + n * control
  BY <1>1
<1> QED
  BY <1>1, <1>2, <1>3 DEF w

(* A kernel does what main declares, within its buffer.                    *)
KernelFits(kernel, cost, times, insns) ==
  /\ Costly(cost) /\ times \in Nat /\ insns \in Nat
  /\ kernel.insns = times * insns /\ kernel.insns <= cost
  /\ kernel.control \in 0 .. LoopControl
  /\ kernel.reach <= kernel.bytes

(* The two calls of a frame: n times to warm up, and NLOOP times.          *)
LEMMA FrameCalls ==
  ASSUME NEW kernel, NEW n \in Nat, NEW loops \in Nat
  PROVE  /\ Loops(Warm(kernel, n), loops) = n
         /\ Loops(Measured(kernel), loops) = loops
BY DEF Warm, Measured, Loops

(* What the calls execute, and that it fits what main declares.            *)
Executes(kernel, cost, n, spike, loops, warm, work) ==
  /\ loops = Nloops(cost)[spike]
  /\ warm = Work(Warm(kernel, n), loops) /\ work = Work(Measured(kernel), loops)

Declared(kernel, times, insns, loops, warm, work) ==
  /\ loops \in Nat /\ kernel.insns + kernel.control \in Nat
  /\ warm \in 0 .. MostWork /\ work \in 0 .. MostWork
  /\ (loops * times) * insns \in work - LoopControl * loops .. work

LEMMA FrameWork ==
  ASSUME NEW kernel, NEW cost, NEW times, NEW insns, NEW n \in 0 .. 1000,
         KernelFits(kernel, cost, times, insns),
         NEW spike \in BOOLEAN, NEW loops, NEW warm, NEW work,
         Executes(kernel, cost, n, spike, loops, warm, work)
  PROVE  Declared(kernel, times, insns, loops, warm, work)
<1>1. /\ Costly(cost) /\ times \in Nat /\ insns \in Nat
      /\ kernel.insns = times * insns /\ kernel.insns <= cost
      /\ kernel.control \in 0 .. LoopControl
  BY DEF KernelFits
<1>2. kernel.insns \in Nat /\ kernel.control \in Nat
  BY <1>1, Numbers
<1>3. PICK i \in Nat, c \in Nat : /\ i = kernel.insns /\ c = kernel.control
                                  /\ c \in 0 .. LoopControl /\ i <= cost
  BY <1>1, <1>2
<1>4. loops = CalcNloop(spike, cost)
  BY DEF Executes, Nloops
<1>5. InBudget(loops, cost) /\ loops \in Nat
  <2>1. InBudget(loops, cost)
    BY <1>1, <1>4, LoopsFit
  <2> QED
    BY <2>1 DEF InBudget
<1>6. InBudget(n, cost) /\ n \in Nat
  <2>1. PICK top, most, max : Scale(top, most, max)
    BY Numbers
  <2>2. /\ top \in Nat /\ most \in Nat /\ max \in Nat
        /\ 1000 * max <= top /\ 1000 <= most
    BY <2>1 DEF Scale
  <2>3. cost \in Nat /\ cost <= max
    BY <1>1, <2>1, Numbers DEF Costly, Scale
  <2>4. n * cost <= 1000 * cost /\ 1000 * cost <= 1000 * max
    BY <2>2, <2>3
  <2>5. PICK nc \in Nat : nc = n * cost
    BY <2>3
  <2>6. nc <= top
    BY <2>2, <2>3, <2>4, <2>5
  <2>7. n \in Nat /\ n <= most /\ top = Budget(FALSE) /\ most = MostLoops
    BY <2>1, <2>2 DEF Scale
  <2> QED
    BY <2>5, <2>6, <2>7, Zenon DEF InBudget
<1>7. /\ Loops(Measured(kernel), loops) = loops
      /\ Loops(Warm(kernel, n), loops) = n
  BY <1>5, <1>6, FrameCalls
<1>8. work = loops * (i + c) /\ warm = n * (i + c)
  BY <1>3, <1>7 DEF Executes, Work, Warm, Measured
<1>9. loops * (i + c) \in 0 .. MostWork /\ n * (i + c) \in 0 .. MostWork
  <2>1. \A m : InBudget(m, cost) => m * (i + c) \in 0 .. MostWork
    BY <1>1, <1>3, WorkFits
  <2> QED
    BY <1>5, <1>6, <2>1
<1>10. times * insns = i
  BY <1>1, <1>3
<1>11. (loops * times) * insns \in loops * (times * insns + c) - LoopControl * loops
                                  .. loops * (times * insns + c)
  <2>1. times \in Nat /\ insns \in Nat /\ c \in 0 .. LoopControl
    BY <1>1, <1>3
  <2> QED
    BY <1>5, <2>1, DeclaredFits
<1> QED
  BY <1>3, <1>5, <1>8, <1>9, <1>10, <1>11 DEF Declared

(* The statements of a measurement are where they should be, from i on.    *)
MeasuredAt(p, i, kernel, n, times, insns) ==
  /\ p.main[i] = Warm(kernel, n) /\ p.main[i + 1] = perf_start
  /\ p.main[i + 2] = Measured(kernel) /\ p.main[i + 3] = perf_stop
  /\ p.main[i + 4] = perf_print(times, insns)

OpsAt(p, i) ==
  /\ p.main[i].op = "call" /\ p.main[i + 1].op = "perf_start"
  /\ p.main[i + 2].op = "call" /\ p.main[i + 3].op = "perf_stop"
  /\ p.main[i + 4].op = "perf_print"

KeepsMeasure(p, i) ==
  /\ OpsAt(p, i)
  /\ CallRule(p, i) /\ CallRule(p, i + 2)
  /\ StopRule(p, i + 3) /\ PrintRule(p, i + 4)
  /\ \A j \in {i, i + 2}, spike \in BOOLEAN :
       Work(p.main[j], p.nloop[spike]) \in 0 .. MostWork

(* Main comes to it with the events open, and with what the kernel takes.  *)
Prepared(p, i, kernel, n, cost, times, insns) ==
  /\ MeasuredAt(p, i, kernel, n, times, insns) /\ n \in 0 .. 1000
  /\ p.nloop = Nloops(cost) /\ KernelFits(kernel, cost, times, insns)
  /\ Opened(p, i)
  /\ kernel.walks \subseteq p.slots
  /\ \A slot \in kernel.walks : Holds(p, i, slot)
  /\ kernel.needs /\ p.main[1].op # "operands" => Kept(p, i, FALSE)

(* Its five statements then keep their rules.                              *)
LEMMA MeasureKeepsRules ==
  ASSUME NEW p, NEW i \in Nat \ {0}, NEW kernel, NEW n, NEW cost, NEW times,
         NEW insns, Prepared(p, i, kernel, n, cost, times, insns)
  PROVE  KeepsMeasure(p, i)
<1> /\ MeasuredAt(p, i, kernel, n, times, insns) /\ n \in 0 .. 1000
    /\ p.nloop = Nloops(cost) /\ KernelFits(kernel, cost, times, insns)
    /\ Opened(p, i)
    /\ kernel.walks \subseteq p.slots
    /\ \A slot \in kernel.walks : Holds(p, i, slot)
    /\ kernel.needs /\ p.main[1].op # "operands" => Kept(p, i, FALSE)
  BY DEF Prepared
<1>1. OpsAt(p, i)
  BY DEF MeasuredAt, OpsAt, Warm, Measured, perf_start, perf_stop, perf_print
<1>2. /\ p.main[i] = Warm(kernel, n) /\ p.main[i + 2] = Measured(kernel)
      /\ p.main[i + 4] = perf_print(times, insns)
  BY DEF MeasuredAt
<1>3. /\ p.main[i].kernel = kernel /\ p.main[i].share = 0
      /\ p.main[i + 2].kernel = kernel /\ p.main[i + 2].share # 0
  BY <1>2 DEF Warm, Measured
<1>4. Opened(p, i + 3)
  <2>1. Opened(p, i + 1)
    BY <1>1, OpenedNext DEF OpsAt, Closes
  <2>2. Opened(p, (i + 1) + 1)
    BY <1>1, <2>1, OpenedNext, i + 1 \in Nat \ {0} DEF OpsAt, Closes
  <2>3. Opened(p, (i + 2) + 1)
    BY <1>1, <2>2, OpenedNext, i + 2 \in Nat \ {0} DEF OpsAt, Closes
  <2> QED
    BY <2>3
<1>5. ASSUME NEW slot, Holds(p, i, slot)
      PROVE  Holds(p, i + 2, slot)
  <2>1. Holds(p, i + 1, slot)
    BY <1>1, <1>5, HoldsNext DEF OpsAt
  <2>2. Holds(p, (i + 1) + 1, slot)
    BY <1>1, <2>1, HoldsNext, i + 1 \in Nat \ {0} DEF OpsAt
  <2> QED
    BY <2>2
<1>6. ASSUME Kept(p, i, FALSE)
      PROVE  Kept(p, i + 2, TRUE)
  <2>1. Kept(p, i, TRUE)
    BY <1>6 DEF Kept
  <2>2. Kept(p, i + 1, TRUE)
    BY <1>1, <2>1, KeptNext DEF OpsAt
  <2>3. Kept(p, (i + 1) + 1, TRUE)
    BY <1>1, <2>2, KeptNext, i + 1 \in Nat \ {0} DEF OpsAt
  <2>4. (i + 1) + 1 = i + 2
    OBVIOUS
  <2> QED
    BY <2>3, <2>4, Zenon
<1>7. ASSUME NEW spike \in BOOLEAN, NEW loops, loops = p.nloop[spike],
             NEW warm, warm = Work(p.main[i], loops),
             NEW work, work = Work(p.main[i + 2], loops)
      PROVE  /\ Declared(kernel, times, insns, loops, warm, work)
             /\ Loops(p.main[i], loops) \in Nat /\ Loops(p.main[i + 2], loops) \in Nat
  <2>1. Executes(kernel, cost, n, spike, loops, warm, work)
    BY <1>2, <1>7 DEF Executes
  <2>2. Declared(kernel, times, insns, loops, warm, work)
    BY <2>1, FrameWork
  <2>3. Loops(p.main[i], loops) = n /\ Loops(p.main[i + 2], loops) = loops
    BY <1>2, <2>2, FrameCalls DEF Declared
  <2> QED
    BY <2>2, <2>3 DEF Declared
<1>8. \A spike \in BOOLEAN :
        /\ Declared(kernel, times, insns, p.nloop[spike], Work(p.main[i], p.nloop[spike]),
                    Work(p.main[i + 2], p.nloop[spike]))
        /\ Loops(p.main[i], p.nloop[spike]) \in Nat
        /\ Loops(p.main[i + 2], p.nloop[spike]) \in Nat
  BY <1>7, Zenon
<1>0. kernel.insns + kernel.control \in Nat
  BY <1>8 DEF Declared
<1>9. kernel.reach <= kernel.bytes /\ times \in Nat /\ insns \in Nat
  BY DEF KernelFits
<1>10. CallRule(p, i)
  <2>1. kernel.needs /\ p.main[1].op # "operands" => Kept(p, i, p.main[i].share # 0)
    BY <1>3 DEF Kept
  <2> QED
    BY <1>0, <1>3, <1>8, <1>9, <2>1 DEF CallRule
<1>11. CallRule(p, i + 2)
  <2>1. kernel.needs /\ p.main[1].op # "operands" => Kept(p, i + 2, p.main[i + 2].share # 0)
    BY <1>3, <1>6 DEF Kept
  <2> QED
    BY <1>0, <1>3, <1>5, <1>8, <1>9, <2>1 DEF CallRule
<1>12. StopRule(p, i + 3)
  <2>1. (i + 3) - 1 = i + 2 /\ (i + 3) - 2 = i + 1 /\ i + 3 > 2
    OBVIOUS
  <2> QED
    BY <1>1, <1>4, <2>1 DEF StopRule, OpsAt
<1>13. PrintRule(p, i + 4)
  <2>1. (i + 4) - 1 = i + 3 /\ (i + 4) - 2 = i + 2 /\ i + 4 > 3
    OBVIOUS
  <2>2. p.main[i + 4].times = times /\ p.main[i + 4].insns = insns
    BY <1>2 DEF perf_print
  <2>3. ASSUME NEW spike \in BOOLEAN
        PROVE  LET loops == p.nloop[spike]
                   work  == Work(p.main[i + 2], loops)
               IN  (loops * times) * insns \in work - LoopControl * loops .. work
    BY <1>8 DEF Declared
  <2> QED
    BY <1>1, <1>9, <2>1, <2>2, <2>3 DEF PrintRule, OpsAt
<1> QED
  BY <1>1, <1>8, <1>10, <1>11, <1>12, <1>13 DEF Declared, KeepsMeasure

(* No call of p executes more than MostWork.                               *)
Affordable(p) ==
  \A i \in DOMAIN p.main, spike \in BOOLEAN :
    p.main[i].op = "call" => Work(p.main[i], p.nloop[spike]) \in 0 .. MostWork

(* A frame without blocks: m statements that open the events or set the    *)
(* operands, a measurement, perf_close.                                    *)
FrameOf(p, m, kernel, n, cost, times, insns) ==
  /\ p.slots = {}
  /\ DOMAIN p.main = 1 .. m + 6 /\ Len(p.main) = m + 6
  /\ \A j \in 1 .. m : p.main[j].op \in {"perf_init", "operands"}
  /\ Prepared(p, m + 1, kernel, n, cost, times, insns)
  /\ p.main[m + 6] = perf_close

LEMMA FrameKeepsRules ==
  ASSUME NEW p, NEW m \in Nat \ {0}, NEW kernel, NEW n, NEW cost, NEW times,
         NEW insns, FrameOf(p, m, kernel, n, cost, times, insns)
  PROVE  KeepsRules(p) /\ Affordable(p)
<1> /\ p.slots = {}
    /\ DOMAIN p.main = 1 .. m + 6 /\ Len(p.main) = m + 6
    /\ \A j \in 1 .. m : p.main[j].op \in {"perf_init", "operands"}
    /\ p.main[m + 6] = perf_close
  BY DEF FrameOf
<1>0. Prepared(p, m + 1, kernel, n, cost, times, insns)
  BY DEF FrameOf
<1>1. KeepsMeasure(p, m + 1)
  <2>1. m + 1 \in Nat \ {0}
    OBVIOUS
  <2> QED
    BY <1>0, <2>1, MeasureKeepsRules
<1>2. /\ (m + 1) + 1 = m + 2 /\ (m + 1) + 2 = m + 3
      /\ (m + 1) + 3 = m + 4 /\ (m + 1) + 4 = m + 5
  OBVIOUS
<1>3. /\ p.main[m + 1].op = "call" /\ p.main[m + 2].op = "perf_start"
      /\ p.main[m + 3].op = "call" /\ p.main[m + 4].op = "perf_stop"
      /\ p.main[m + 5].op = "perf_print" /\ p.main[m + 6].op = "perf_close"
  BY <1>1, <1>2 DEF KeepsMeasure, OpsAt, perf_close
<1>4. /\ CallRule(p, m + 1) /\ CallRule(p, m + 3)
      /\ StopRule(p, m + 4) /\ PrintRule(p, m + 5)
      /\ \A j \in {m + 1, m + 3}, spike \in BOOLEAN :
           Work(p.main[j], p.nloop[spike]) \in 0 .. MostWork
  BY <1>1, <1>2 DEF KeepsMeasure
<1>5. ASSUME NEW i \in DOMAIN p.main
      PROVE  \/ i \in 1 .. m \/ i = m + 1 \/ i = m + 2 \/ i = m + 3
             \/ i = m + 4 \/ i = m + 5 \/ i = m + 6
  BY SMTT(30)
<1>6. Affordable(p)
  <2> SUFFICES ASSUME NEW i \in DOMAIN p.main, NEW spike \in BOOLEAN,
                      p.main[i].op = "call"
               PROVE  Work(p.main[i], p.nloop[spike]) \in 0 .. MostWork
    BY DEF Affordable
  <2>1. i = m + 1 \/ i = m + 3
    <3>1. i \notin 1 .. m
      OBVIOUS
    <3> QED
      BY <1>3, <1>5, <3>1
  <2> QED
    BY <1>4, <2>1
<1>7. ASSUME NEW i \in DOMAIN p.main
      PROVE  /\ p.main[i].op = "call"       => CallRule(p, i)
             /\ p.main[i].op \in Stops      => StopRule(p, i)
             /\ p.main[i].op = "perf_print" => PrintRule(p, i)
             /\ p.main[i].op \notin {"alloc", "free", "probe_point", "probe_begin",
                                     "verify_benchmark"}
             /\ p.main[i].op = "perf_init" => i \in 1 .. m
  <2>1. CASE i \in 1 .. m
    BY <2>1 DEF Stops
  <2>2. CASE i = m + 1 \/ i = m + 3
    BY <1>3, <1>4, <2>2 DEF Stops
  <2>3. CASE i = m + 2 \/ i = m + 6
    BY <1>3, <2>3 DEF Stops
  <2>4. CASE i = m + 4 \/ i = m + 5
    BY <1>3, <1>4, <2>4 DEF Stops
  <2> QED
    BY <1>5, <2>1, <2>2, <2>3, <2>4
<1>8. ASSUME NEW i \in 1 .. m
      PROVE  Before(p, Says, i) = {}
  BY <1>8 DEF Before, Says, Prints
<1>9. ~Opened(p, Len(p.main) + 1)
  <2>1. ~Opened(p, (m + 6) + 1)
    <3>1. PICK i \in Nat \ {0} : i = m + 6
      OBVIOUS
    <3>2. p.main[i].op \in Closes /\ p.main[i].op \notin Inits
      BY <1>3, <3>1 DEF Closes, Inits
    <3>3. ~Opened(p, i + 1)
      BY <3>2, OpenedNext
    <3> QED
      BY <3>1, <3>3
  <2> QED
    BY <2>1
<1>10. IsFiniteSet(p.slots) /\ p.nloop \in [BOOLEAN -> Nat]
  <2>1. \A spike \in BOOLEAN : CalcNloop(spike, cost) \in Nat
    BY <1>0, LoopsFit DEF InBudget, KernelFits, Prepared
  <2>2. p.nloop = Nloops(cost)
    BY <1>0 DEF Prepared
  <2> QED
    BY <2>1, <2>2, FS_EmptySet DEF Nloops
<1>11. KeepsRules(p)
  <2>1. Len(p.main) \in Nat /\ DOMAIN p.main = 1 .. Len(p.main)
    OBVIOUS
  <2> QED
    BY <1>7, <1>8, <1>9, <1>10, <2>1 DEF KeepsRules
<1> QED
  BY <1>6, <1>11

(* One text after the other.                                               *)
Joined(S, u, s, t) ==
  /\ u \in Seq(S) /\ Len(u) = Len(s) + Len(t)
  /\ \A i \in 1 .. Len(s) : u[i] = s[i]
  /\ \A i \in 1 .. Len(t) : u[Len(s) + i] = t[i]

LEMMA Join ==
  ASSUME NEW S, NEW s \in Seq(S), NEW t \in Seq(S), NEW u, u = s \o t
  PROVE  Joined(S, u, s, t)
BY DEF Joined

(* A text that measures between two others.                                *)
TextOf(p, pre, kernel, n, times, insns, post) ==
  p.main = pre \o Measure(kernel, n, times, insns) \o post

Measures(p, m, k, pre, kernel, n, times, insns, post) ==
  /\ Len(p.main) = m + 5 + k /\ DOMAIN p.main = 1 .. m + 5 + k
  /\ \A i \in 1 .. m : p.main[i] = pre[i]
  /\ MeasuredAt(p, m + 1, kernel, n, times, insns)
  /\ \A i \in 1 .. k : p.main[m + 5 + i] = post[i]

LEMMA TextMeasures ==
  ASSUME NEW S, NEW m \in Nat, NEW k \in Nat,
         NEW pre \in Seq(S), Len(pre) = m, NEW post \in Seq(S), Len(post) = k,
         NEW p, NEW kernel, NEW n, NEW times, NEW insns,
         TextOf(p, pre, kernel, n, times, insns, post)
  PROVE  Measures(p, m, k, pre, kernel, n, times, insns, post)
<1> DEFINE a == Warm(kernel, n)
           c == Measured(kernel)
           e == perf_print(times, insns)
           T == S \cup {a, perf_start, c, perf_stop, e}
<1>1. pre \in Seq(T) /\ post \in Seq(T)
  OBVIOUS
<1>2. PICK w : w = <<a, perf_start, c, perf_stop, e>>
  OBVIOUS
<1>3. /\ w \in Seq(T) /\ Len(w) = 5
      /\ w[1] = a /\ w[2] = perf_start /\ w[3] = c /\ w[4] = perf_stop /\ w[5] = e
  BY <1>2
<1>4. PICK main : main = p.main /\ main = (pre \o w) \o post
  BY <1>2 DEF Measure, TextOf
<1> HIDE DEF a, c, e, T
<1>5. PICK u : u = pre \o w
  OBVIOUS
<1>6. /\ u \in Seq(T) /\ Len(u) = m + 5
      /\ \A i \in 1 .. m : u[i] = pre[i]
      /\ \A i \in 1 .. 5 : u[m + i] = w[i]
  <2>1. Joined(T, u, pre, w)
    BY <1>1, <1>3, <1>5, Join, Zenon
  <2> QED
    BY <1>3, <2>1 DEF Joined
<1>7. main = u \o post
  BY <1>4, <1>5
<1>8. /\ main \in Seq(T) /\ Len(main) = m + 5 + k
      /\ \A i \in 1 .. m + 5 : main[i] = u[i]
      /\ \A i \in 1 .. k : main[m + 5 + i] = post[i]
  <2>1. Joined(T, main, u, post)
    BY <1>1, <1>6, <1>7, Join, Zenon
  <2> QED
    BY <1>6, <2>1 DEF Joined
<1>9. DOMAIN main = 1 .. m + 5 + k
  BY <1>8
<1>10. \A i \in 1 .. m : main[i] = pre[i]
  BY <1>6, <1>8
<1>11. \A i \in 1 .. 5 : main[m + i] = w[i]
  <2> SUFFICES ASSUME NEW i \in 1 .. 5 PROVE main[m + i] = w[i]
    OBVIOUS
  <2>1. m + i \in 1 .. m + 5
    OBVIOUS
  <2> QED
    BY <1>6, <1>8, <2>1
<1>12. MeasuredAt(p, m + 1, kernel, n, times, insns)
  <2>1. /\ (m + 1) + 1 = m + 2 /\ (m + 1) + 2 = m + 3
        /\ (m + 1) + 3 = m + 4 /\ (m + 1) + 4 = m + 5
    OBVIOUS
  <2>2. /\ main[m + 1] = a /\ main[m + 2] = perf_start /\ main[m + 3] = c
        /\ main[m + 4] = perf_stop /\ main[m + 5] = e
    BY <1>3, <1>11
  <2> QED
    BY <1>4, <2>1, <2>2 DEF MeasuredAt, a, c, e
<1> QED
  BY <1>4, <1>8, <1>9, <1>10, <1>12 DEF Measures

(* What comes before the measurement opens the events, and if the kernel    *)
(* takes operands sets them, last or before all else.                      *)
Prepares(S, pre, m, kernel) ==
  /\ pre \in Seq(S) /\ Len(pre) = m
  /\ \A j \in 1 .. m : pre[j].op \in {"perf_init", "operands"}
  /\ \E j \in 1 .. m : pre[j].op = "perf_init"
  /\ kernel.needs => pre[m].op = "operands" \/ pre[1].op = "operands"

Framing(p, S, m, pre, kernel, n, cost, times, insns) ==
  /\ m \in Nat \ {0} /\ n \in 0 .. 1000 /\ Prepares(S, pre, m, kernel)
  /\ KernelFits(kernel, cost, times, insns) /\ kernel.walks = {}
  /\ p.slots = {} /\ p.nloop = Nloops(cost)
  /\ TextOf(p, pre, kernel, n, times, insns, <<perf_close>>)

LEMMA FrameFits ==
  ASSUME NEW p, NEW S, NEW m, NEW pre, NEW kernel, NEW n, NEW cost, NEW times,
         NEW insns, Framing(p, S, m, pre, kernel, n, cost, times, insns)
  PROVE  KeepsRules(p) /\ Affordable(p)
<1> /\ m \in Nat \ {0} /\ n \in 0 .. 1000 /\ Prepares(S, pre, m, kernel)
    /\ KernelFits(kernel, cost, times, insns) /\ kernel.walks = {}
    /\ p.slots = {} /\ p.nloop = Nloops(cost)
    /\ TextOf(p, pre, kernel, n, times, insns, <<perf_close>>)
  BY DEF Framing
<1>1. Measures(p, m, 1, pre, kernel, n, times, insns, <<perf_close>>)
  <2> DEFINE T == S \cup {perf_close}
  <2>1. pre \in Seq(T) /\ Len(pre) = m
    BY DEF Prepares
  <2>2. <<perf_close>> \in Seq(T) /\ Len(<<perf_close>>) = 1 /\ 1 \in Nat /\ m \in Nat
    OBVIOUS
  <2> HIDE DEF T
  <2> QED
    BY <2>1, <2>2, TextMeasures, ZenonT(30)
<1>2. /\ Len(p.main) = m + 6 /\ DOMAIN p.main = 1 .. m + 6
      /\ \A j \in 1 .. m : p.main[j] = pre[j]
      /\ p.main[m + 6] = perf_close
      /\ MeasuredAt(p, m + 1, kernel, n, times, insns)
  <2>1. (m + 5) + 1 = m + 6
    OBVIOUS
  <2> QED
    BY <1>1, <2>1 DEF Measures
<1>3. \A j \in 1 .. m : p.main[j].op \in {"perf_init", "operands"}
  BY <1>2 DEF Prepares
<1>4. Opened(p, m + 1)
  <2>1. PICK j \in 1 .. m : pre[j].op = "perf_init"
    BY DEF Prepares
  <2>2. p.main[j].op \in Inits /\ j \in 1 .. (m + 1) - 1
    BY <1>2, <2>1 DEF Inits
  <2>3. \A k \in j + 1 .. (m + 1) - 1 : p.main[k].op \notin Closes
    BY <1>3 DEF Closes
  <2> QED
    BY <2>2, <2>3 DEF Opened
<1>5. kernel.needs /\ p.main[1].op # "operands" => Kept(p, m + 1, FALSE)
  <2> SUFFICES ASSUME kernel.needs, p.main[1].op # "operands" PROVE Kept(p, m + 1, FALSE)
    OBVIOUS
  <2>1. p.main[m].op = "operands"
    <3>1. p.main[1] = pre[1] /\ p.main[m] = pre[m]
      BY <1>2
    <3>2. pre[m].op = "operands" \/ pre[1].op = "operands"
      BY DEF Prepares
    <3> QED
      BY <3>1, <3>2
  <2>2. m \in 1 .. (m + 1) - 1 /\ m + 1 .. (m + 1) - 1 = {}
    OBVIOUS
  <2> QED
    BY <2>1, <2>2 DEF Kept
<1>6. Prepared(p, m + 1, kernel, n, cost, times, insns)
  BY <1>2, <1>4, <1>5 DEF Prepared
<1>7. FrameOf(p, m, kernel, n, cost, times, insns)
  BY <1>2, <1>3, <1>6 DEF FrameOf
<1> QED
  BY <1>7, FrameKeepsRules

(* Tests that open a ring in the L2 cache: its block is built before, and  *)
(* freed after the measurement.                                            *)
Ringed(p, kernel, n, cost, times, insns) ==
  /\ n \in 0 .. 1000
  /\ KernelFits(kernel, cost, times, insns) /\ kernel.walks = {"chain"} /\ ~kernel.needs
  /\ p.slots = {"chain"} /\ p.nloop = Nloops(cost)
  /\ TextOf(p, <<perf_init, alloc(<<"chain">>, "checked", 0)>>, kernel, n, times,
            insns, <<free(<<"chain">>), perf_close>>)

LEMMA RingFits ==
  ASSUME NEW p, NEW kernel, NEW n, NEW cost, NEW times, NEW insns,
         Ringed(p, kernel, n, cost, times, insns)
  PROVE  KeepsRules(p) /\ Affordable(p)
<1> /\ n \in 0 .. 1000
    /\ KernelFits(kernel, cost, times, insns) /\ kernel.walks = {"chain"} /\ ~kernel.needs
    /\ p.slots = {"chain"} /\ p.nloop = Nloops(cost)
    /\ TextOf(p, <<perf_init, alloc(<<"chain">>, "checked", 0)>>, kernel, n, times,
              insns, <<free(<<"chain">>), perf_close>>)
  BY DEF Ringed
<1> DEFINE grow == alloc(<<"chain">>, "checked", 0)
           give  == free(<<"chain">>)
<1>1. Measures(p, 2, 2, <<perf_init, grow>>, kernel, n, times, insns, <<give, perf_close>>)
  <2> DEFINE S == {perf_init, grow, give, perf_close}
  <2>1. /\ <<perf_init, grow>> \in Seq(S) /\ Len(<<perf_init, grow>>) = 2
        /\ <<give, perf_close>> \in Seq(S) /\ Len(<<give, perf_close>>) = 2
        /\ 2 \in Nat
    OBVIOUS
  <2> HIDE DEF S
  <2> QED
    BY <2>1, TextMeasures
<1>2. /\ Len(p.main) = 9 /\ DOMAIN p.main = 1 .. 9
      /\ p.main[1] = perf_init /\ p.main[2] = grow
      /\ p.main[8] = give /\ p.main[9] = perf_close
      /\ MeasuredAt(p, 3, kernel, n, times, insns)
  BY <1>1 DEF Measures
<1>3. /\ p.main[1].op = "perf_init" /\ p.main[2].op = "alloc"
      /\ p.main[8].op = "free" /\ p.main[9].op = "perf_close"
      /\ p.main[2].slots = <<"chain">> /\ p.main[2].otherwise = 0
      /\ p.main[8].slots = <<"chain">>
  BY <1>2 DEF perf_init, perf_close, alloc, free
<1>4. Names(p.main[2], "chain") /\ Names(p.main[8], "chain")
  BY <1>3 DEF Names
<1>5. Opened(p, 3) /\ Holds(p, 3, "chain") /\ ~Holds(p, 2, "chain")
  <2>0. Opened(p, 1 + 1)
    BY <1>3, OpenedNext, 1 \in Nat \ {0} DEF Inits
  <2>1. ~Holds(p, 1 + 1, "chain")
    BY <1>3, AtFirst, HoldsNext, 1 \in Nat \ {0}
  <2>2. Opened(p, 2 + 1)
    BY <1>3, <2>0, OpenedNext, 2 \in Nat \ {0} DEF Inits, Closes
  <2>3. Holds(p, 2 + 1, "chain")
    BY <1>3, <1>4, HoldsNext, 2 \in Nat \ {0}
  <2> QED
    BY <2>1, <2>2, <2>3
<1>6. Prepared(p, 3, kernel, n, cost, times, insns)
  BY <1>2, <1>5 DEF Prepared
<1>7. KeepsMeasure(p, 3)
  BY <1>6, MeasureKeepsRules, 3 \in Nat \ {0}
<1>8. /\ p.main[3].op = "call" /\ p.main[4].op = "perf_start" /\ p.main[5].op = "call"
      /\ p.main[6].op = "perf_stop" /\ p.main[7].op = "perf_print"
      /\ CallRule(p, 3) /\ CallRule(p, 5) /\ StopRule(p, 6) /\ PrintRule(p, 7)
      /\ \A j \in {3, 5}, spike \in BOOLEAN :
           Work(p.main[j], p.nloop[spike]) \in 0 .. MostWork
  BY <1>7 DEF KeepsMeasure, OpsAt
<1>9. Affordable(p)
  <2> SUFFICES ASSUME NEW i \in 1 .. 9, NEW spike \in BOOLEAN, p.main[i].op = "call"
               PROVE  Work(p.main[i], p.nloop[spike]) \in 0 .. MostWork
    BY <1>2 DEF Affordable
  <2>1. i = 3 \/ i = 5
    BY <1>3, <1>8
  <2> QED
    BY <1>8, <2>1
<1>10. Holds(p, 8, "chain") /\ Opened(p, 8)
  <2>1. \A k \in 3 .. 7 : p.main[k].op # "free"
    BY <1>8
  <2>2. Holds(p, 8, "chain")
    BY <1>3, <1>4, <2>1 DEF Holds
  <2>3. \A k \in 2 .. 7 : p.main[k].op \notin Closes
    BY <1>3, <1>8 DEF Closes
  <2>4. Opened(p, 8)
    BY <1>3, <2>3 DEF Opened, Inits
  <2> QED
    BY <2>2, <2>4
<1>11. SlotsRule(p, 2) /\ SlotsRule(p, 8)
  BY <1>3 DEF SlotsRule
<1>12. AllocRule(p, 2)
  <2>1. Before(p, Prints, 2) = {}
    BY <1>3 DEF Before, Prints
  <2> QED
    <3>1. p.main[2].slots # <<>> /\ p.main[2].otherwise \in Nat /\ 2 + p.main[2].otherwise <= 10
      BY <1>3
    <3>2. \A slot \in p.slots : Names(p.main[2], slot) => ~Holds(p, 2, slot)
      BY <1>5
    <3>3. Len(p.main) + 1 = 10 /\ p.main[2].otherwise = 0
      BY <1>2, <1>3
    <3> QED
      BY <1>11, <2>1, <3>1, <3>2, <3>3 DEF AllocRule
<1>13. FreeRule(p, 8)
  BY <1>10, <1>11 DEF FreeRule
<1>14. Before(p, Says, 1) = {} /\ ~Holds(p, 1, "chain")
  BY AtFirst DEF Before
<1>15. ~Holds(p, 10, "chain") /\ ~Opened(p, 10)
  <2>1. ~Holds(p, 8 + 1, "chain")
    BY <1>3, <1>4, HoldsNext, 8 \in Nat \ {0}
  <2>2. ~Holds(p, 9 + 1, "chain") /\ ~Opened(p, 9 + 1)
    BY <1>3, <2>1, HoldsNext, OpenedNext, 9 \in Nat \ {0} DEF Inits, Closes
  <2> QED
    BY <2>2
<1>16. IsFiniteSet(p.slots) /\ p.nloop \in [BOOLEAN -> Nat]
  <2>1. \A spike \in BOOLEAN : CalcNloop(spike, cost) \in Nat
    BY LoopsFit DEF InBudget, KernelFits
  <2>2. IsFiniteSet({"chain"})
    BY FS_Singleton
  <2> QED
    BY <2>1, <2>2 DEF Nloops
<1>17. ASSUME NEW i \in 1 .. 9
       PROVE  /\ p.main[i].op = "call"       => CallRule(p, i)
              /\ p.main[i].op = "alloc"      => AllocRule(p, i)
              /\ p.main[i].op = "free"       => FreeRule(p, i)
              /\ p.main[i].op \in Stops      => StopRule(p, i)
              /\ p.main[i].op = "perf_print" => PrintRule(p, i)
              /\ p.main[i].op = "perf_init"  => i = 1
              /\ p.main[i].op \notin {"probe_point", "probe_begin", "verify_benchmark"}
  <2>1. CASE i \in {1, 2, 4, 8, 9}
    BY <1>3, <1>8, <1>12, <1>13, <2>1 DEF Stops
  <2>2. CASE i \in {3, 5, 6, 7}
    BY <1>3, <1>8, <2>2 DEF Stops
  <2> QED
    BY <2>1, <2>2
<1>18. KeepsRules(p)
  <2>1. Len(p.main) \in Nat /\ DOMAIN p.main = 1 .. Len(p.main) /\ Len(p.main) + 1 = 10
    BY <1>2
  <2>2. \A slot \in p.slots : slot = "chain"
    OBVIOUS
  <2> QED
    BY <1>2, <1>14, <1>15, <1>16, <1>17, <2>1, <2>2 DEF KeepsRules
<1> QED
  BY <1>9, <1>18

(* A test on the frame: the argument of CALC_NLOOP is one of those in use, *)
(* and no smaller than the instructions main declares of an iteration; the *)
(* kernel executes as many, within its buffer.                             *)
KernelOf(kernel, work) ==
  \/ kernel = Straight(work)
  \/ \E bytes, reach \in Nat : reach <= bytes /\ kernel = Over(bytes, reach, work)

OnFrame(p, cost, kernel, times, insns) ==
  /\ Costly(cost) /\ times * insns <= cost /\ KernelOf(kernel, times * insns)
  /\ \/ p = Plain(cost, kernel, times, insns) \/ p = Operands(cost, kernel, times, insns)
     \/ p = OperandsFirst(cost, kernel, times, insns) \/ p = OverL2(cost, kernel, times, insns)

InFrame(p) ==
  \/ \E cost, times, insns \in Nat : \E kernel : OnFrame(p, cost, kernel, times, insns)
  \/ \E cost \in Nat : Costly(cost) /\ p = Workload(cost)

(* Such kernels, and those made of them, fit.                              *)
LEMMA KernelsFit ==
  ASSUME NEW cost \in Nat, NEW times \in Nat, NEW insns \in Nat, NEW kernel,
         Costly(cost), times * insns <= cost, KernelOf(kernel, times * insns)
  PROVE  /\ KernelFits(kernel, cost, times, insns)
         /\ kernel.walks = {} /\ ~kernel.needs
         /\ KernelFits(WithOperands(kernel), cost, times, insns)
         /\ WithOperands(kernel).walks = {} /\ WithOperands(kernel).needs
         /\ KernelFits([kernel EXCEPT !.walks = {"chain"}], cost, times, insns)
         /\ [kernel EXCEPT !.walks = {"chain"}].walks = {"chain"}
         /\ ~[kernel EXCEPT !.walks = {"chain"}].needs
<1>1. PICK w \in Nat : w = times * insns
  OBVIOUS
<1>2. PICK bytes \in Nat, reach \in Nat :
        /\ reach <= bytes
        /\ kernel = [insns |-> w, control |-> LoopControl, bytes |-> bytes, reach |-> reach,
                     needs |-> FALSE, walks |-> {}]
  <2>1. CASE kernel = Straight(w)
    <3>1. /\ 0 \in Nat /\ 0 <= 0
          /\ kernel = [insns |-> w, control |-> LoopControl, bytes |-> 0, reach |-> 0,
                       needs |-> FALSE, walks |-> {}]
      BY <2>1 DEF Straight
    <3> QED
      BY <3>1, Zenon
  <2>2. CASE \E bytes, reach \in Nat : reach <= bytes /\ kernel = Over(bytes, reach, w)
    <3>1. PICK bytes \in Nat, reach \in Nat : reach <= bytes /\ kernel = Over(bytes, reach, w)
      BY <2>2
    <3>2. kernel = [insns |-> w, control |-> LoopControl, bytes |-> bytes, reach |-> reach,
                    needs |-> FALSE, walks |-> {}]
      BY <3>1 DEF Over, Straight
    <3> QED
      BY <3>1, <3>2, Zenon
  <2> QED
    BY <1>1, <2>1, <2>2, Zenon DEF KernelOf
<1>3. ASSUME NEW k, k.insns = w, k.control = LoopControl, k.bytes = bytes, k.reach = reach
      PROVE  KernelFits(k, cost, times, insns)
  <2>1. LoopControl \in 0 .. LoopControl
    BY Numbers
  <2>2. w <= cost /\ k.reach <= k.bytes /\ k.control \in 0 .. LoopControl
    BY <1>1, <1>2, <1>3, <2>1
  <2> QED
    BY <1>1, <1>3, <2>2, Zenon DEF KernelFits
<1>4. PICK a : a = WithOperands(kernel)
  OBVIOUS
<1>5. /\ a.insns = w /\ a.control = LoopControl /\ a.bytes = bytes /\ a.reach = reach
      /\ a.walks = {} /\ a.needs
  BY <1>2, <1>4 DEF WithOperands
<1>6. PICK c : c = [kernel EXCEPT !.walks = {"chain"}]
  OBVIOUS
<1>7. /\ c.insns = w /\ c.control = LoopControl /\ c.bytes = bytes /\ c.reach = reach
      /\ c.walks = {"chain"} /\ ~c.needs
  BY <1>2, <1>6
<1>8. /\ kernel.insns = w /\ kernel.control = LoopControl /\ kernel.bytes = bytes
      /\ kernel.reach = reach /\ kernel.walks = {} /\ ~kernel.needs
  BY <1>2
<1>9. /\ KernelFits(kernel, cost, times, insns) /\ KernelFits(a, cost, times, insns)
      /\ KernelFits(c, cost, times, insns)
  BY <1>3, <1>5, <1>7, <1>8
<1> QED
  BY <1>4, <1>5, <1>6, <1>7, <1>8, <1>9

(* Every one of the five frames keeps the rules.                           *)
LEMMA StraightFramesKeepRules ==
  ASSUME NEW p, NEW cost \in Nat, NEW times \in Nat, NEW insns \in Nat, NEW kernel,
         OnFrame(p, cost, kernel, times, insns)
  PROVE  KeepsRules(p) /\ Affordable(p)
<1> Costly(cost) /\ times * insns <= cost /\ KernelOf(kernel, times * insns)
  BY DEF OnFrame
<1> DEFINE fed  == WithOperands(kernel)
           ring == [kernel EXCEPT !.walks = {"chain"}]
<1>1. /\ KernelFits(kernel, cost, times, insns) /\ kernel.walks = {} /\ ~kernel.needs
      /\ KernelFits(fed, cost, times, insns) /\ fed.walks = {} /\ fed.needs
      /\ KernelFits(ring, cost, times, insns) /\ ring.walks = {"chain"} /\ ~ring.needs
  BY KernelsFit
<1> HIDE DEF fed, ring
<1>2. 1 \in Nat \ {0} /\ 2 \in Nat \ {0}
  OBVIOUS
<1>n. PICK n \in Nat : n = 1000
  OBVIOUS
<1>m. n \in 0 .. 1000
  BY <1>n
<1>3. CASE p = Plain(cost, kernel, times, insns)
  <2>1. PICK pre : pre = <<perf_init>> \o <<>>
    OBVIOUS
  <2>2. Prepares({perf_init}, pre, 1, kernel)
    BY <1>1, <2>1 DEF Prepares, perf_init
  <2>3. /\ p.slots = {} /\ p.nloop = Nloops(cost)
        /\ TextOf(p, pre, kernel, n, times, insns, <<perf_close>>)
    BY <1>3, <1>n, <2>1 DEF Plain, Framed, Program, TextOf
  <2>4. Framing(p, {perf_init}, 1, pre, kernel, n, cost, times, insns)
    BY <1>1, <1>2, <1>m, <2>2, <2>3 DEF Framing
  <2> QED
    BY <2>4, FrameFits, Zenon
<1>4. CASE p = Operands(cost, kernel, times, insns)
  <2>1. PICK pre : pre = <<perf_init>> \o <<set_operands>>
    OBVIOUS
  <2>2. Prepares({perf_init, set_operands}, pre, 2, fed)
    BY <1>1, <2>1 DEF Prepares, perf_init, set_operands
  <2>3. /\ p.slots = {} /\ p.nloop = Nloops(cost)
        /\ TextOf(p, pre, fed, n, times, insns, <<perf_close>>)
    BY <1>4, <1>n, <2>1 DEF Operands, Framed, Program, TextOf, fed
  <2>4. Framing(p, {perf_init, set_operands}, 2, pre, fed, n, cost, times, insns)
    BY <1>1, <1>2, <1>m, <2>2, <2>3 DEF Framing
  <2> QED
    BY <2>4, FrameFits, Zenon
<1>5. CASE p = OperandsFirst(cost, kernel, times, insns)
  <2>1. PICK pre : pre = <<set_operands, perf_init>>
    OBVIOUS
  <2>2. Prepares({perf_init, set_operands}, pre, 2, fed)
    BY <1>1, <2>1 DEF Prepares, perf_init, set_operands
  <2>3. /\ p.slots = {} /\ p.nloop = Nloops(cost)
        /\ TextOf(p, pre, fed, n, times, insns, <<perf_close>>)
    BY <1>5, <1>n, <2>1 DEF OperandsFirst, Program, TextOf, fed
  <2>4. Framing(p, {perf_init, set_operands}, 2, pre, fed, n, cost, times, insns)
    BY <1>1, <1>2, <1>m, <2>2, <2>3 DEF Framing
  <2> QED
    BY <2>4, FrameFits, Zenon
<1>6. CASE p = OverL2(cost, kernel, times, insns)
  <2>1. PICK q : q = Program(cost, <<perf_init, alloc(<<"chain">>, "checked", 0)>>
                                   \o Measure(ring, 1000, times, insns)
                                   \o <<free(<<"chain">>), perf_close>>)
                 /\ p = [q EXCEPT !.slots = {"chain"}]
    BY <1>6, ZenonT(30) DEF OverL2, ring
  <2>2. /\ p.slots = {"chain"} /\ p.nloop = Nloops(cost)
        /\ TextOf(p, <<perf_init, alloc(<<"chain">>, "checked", 0)>>, ring, n, times,
                  insns, <<free(<<"chain">>), perf_close>>)
    BY <1>n, <2>1, SMTT(30) DEF Program, TextOf
  <2>3. Ringed(p, ring, n, cost, times, insns)
    BY <1>1, <1>m, <2>2 DEF Ringed
  <2> QED
    BY <2>3, RingFits, Zenon
<1> QED
  BY <1>3, <1>4, <1>5, <1>6 DEF OnFrame

LEMMA WorkloadsKeepRules ==
  ASSUME NEW cost \in Nat, Costly(cost), NEW p, p = Workload(cost)
  PROVE  KeepsRules(p) /\ Affordable(p)
<1>1. PICK pre : pre = <<perf_init>>
  OBVIOUS
<1>2. KernelFits(Repetition, cost, 1, 1) /\ Repetition.walks = {} /\ ~Repetition.needs
  <2>1. 0 \in 0 .. LoopControl /\ 1 <= cost
    BY Numbers DEF Costly
  <2> QED
    BY <2>1 DEF Repetition, Straight, KernelFits
<1>3. Prepares({perf_init}, pre, 1, Repetition)
  BY <1>1, <1>2 DEF Prepares, perf_init
<1>4. /\ p.slots = {} /\ p.nloop = Nloops(cost)
      /\ TextOf(p, pre, Repetition, 10, 1, 1, <<perf_close>>)
  BY <1>1 DEF Workload, Program, TextOf
<1>5. 10 \in 0 .. 1000 /\ 1 \in Nat \ {0}
  OBVIOUS
<1>6. Framing(p, {perf_init}, 1, pre, Repetition, 10, cost, 1, 1)
  BY <1>2, <1>3, <1>4, <1>5 DEF Framing
<1> QED
  BY <1>6, FrameFits, Zenon

LEMMA FramesKeepRules ==
  ASSUME NEW p, InFrame(p)
  PROVE  KeepsRules(p) /\ Affordable(p)
<1>1. CASE \E cost, times, insns \in Nat : \E kernel : OnFrame(p, cost, kernel, times, insns)
  BY <1>1, StraightFramesKeepRules, Zenon
<1>2. CASE \E cost \in Nat : Costly(cost) /\ p = Workload(cost)
  BY <1>2, WorkloadsKeepRules, Zenon
<1> QED
  BY <1>1, <1>2, Zenon DEF InFrame

(* A test whose kernel executes what the cost is and what main declares    *)
(* is on a frame.                                                          *)
Counts(cost, times, insns) ==
  Costly(cost) /\ cost \in Nat /\ times \in Nat /\ insns \in Nat /\ times * insns = cost

LEMMA ExactInFrame ==
  ASSUME NEW cost, NEW times, NEW insns, Counts(cost, times, insns),
         NEW kernel, KernelOf(kernel, cost)
  PROVE  /\ InFrame(Plain(cost, kernel, times, insns))
         /\ InFrame(Operands(cost, kernel, times, insns))
         /\ InFrame(OperandsFirst(cost, kernel, times, insns))
         /\ InFrame(OverL2(cost, kernel, times, insns))
<1> /\ Costly(cost) /\ cost \in Nat /\ times \in Nat /\ insns \in Nat
  BY DEF Counts
<1>1. times * insns <= cost
  BY DEF Counts
<1>2. KernelOf(kernel, times * insns)
  BY Zenon DEF Counts
<1>3. ASSUME NEW p, \/ p = Plain(cost, kernel, times, insns)
                    \/ p = Operands(cost, kernel, times, insns)
                    \/ p = OperandsFirst(cost, kernel, times, insns)
                    \/ p = OverL2(cost, kernel, times, insns)
      PROVE  InFrame(p)
  <2>1. OnFrame(p, cost, kernel, times, insns)
    BY <1>1, <1>2, <1>3, Zenon DEF OnFrame
  <2> QED
    BY <2>1, Zenon DEF InFrame
<1> QED
  BY <1>3, Zenon

LEMMA KernelsAre ==
  ASSUME NEW cost
  PROVE  /\ KernelOf(Straight(cost), cost)
         /\ \A bytes, reach \in Nat : reach <= bytes =>
              KernelOf(Over(bytes, reach, cost), cost)
BY Zenon DEF KernelOf

LEMMA LatencyInFrame == \A p \in LatencyTests : InFrame(p)
<1>1. /\ Counts(100, 100, 1) /\ Counts(20, 20, 1) /\ Counts(1000, 1000, 1)
      /\ Counts(200, 100, 2) /\ Counts(100, 50, 2)
  BY SMT DEF Counts, Costly, MinCost, MaxCost
<1>2. /\ KernelOf(Over(64, 8, 20), 20) /\ KernelOf(Over(64, 4, 20), 20)
      /\ KernelOf(Over(64, 8, 100), 100)
  BY KernelsAre
<1>3. /\ InFrame(Plain(100, Straight(100), 100, 1))
      /\ InFrame(Plain(20, Over(64, 8, 20), 20, 1))
      /\ InFrame(Plain(20, Over(64, 4, 20), 20, 1))
      /\ InFrame(Plain(1000, Straight(1000), 1000, 1))
      /\ InFrame(Plain(200, Straight(200), 100, 2))
      /\ InFrame(Plain(100, Straight(100), 50, 2))
      /\ InFrame(Plain(20, Straight(20), 20, 1))
      /\ InFrame(Plain(100, Over(64, 8, 100), 100, 1))
      /\ InFrame(Plain(100, Over(64, 8, 100), 50, 2))
  BY <1>1, <1>2, KernelsAre, ExactInFrame, SMT
<1> QED
  BY <1>3 DEF LatencyTests,
         latency_ALU_add, latency_AMO_amoadd_d, latency_AMO_amoadd_w,
         latency_BMU_clz, latency_DIV_div, latency_FADD_fadd_d,
         latency_FADD_fadd_s, latency_FCLASS_fclass_d,
         latency_FCLASS_fclass_s, latency_FCMP_feq_d, latency_FCMP_feq_s,
         latency_FCVT_fcvt_d_l, latency_FCVT_fcvt_l_d, latency_FCVT_fcvt_l_s,
         latency_FCVT_fcvt_s_l, latency_FDIV_fdiv_d, latency_FDIV_fdiv_s,
         latency_FMA_fmadd_d, latency_FMA_fmadd_s, latency_FMISC_fcvt_d_h,
         latency_FMISC_fcvt_d_s, latency_FMISC_fmin_d, latency_FMISC_fmin_s,
         latency_FMISC_fround_d, latency_FMISC_fround_s,
         latency_FMISC_fsgnj_d, latency_FMISC_fsgnj_s, latency_FMUL_fmul_d,
         latency_FMUL_fmul_s, latency_FMV_fmv_d_x, latency_FMV_fmv_w_x,
         latency_FMV_fmv_x_d, latency_FMV_fmv_x_w, latency_FSQRT_fsqrt_d,
         latency_FSQRT_fsqrt_s, latency_LOAD_ld, latency_MUL_mul,
         latency_STORE_fsd, latency_STORE_sd

LEMMA ThroughputInFrame == \A p \in ThroughputTests : InFrame(p)
<1>1. /\ Counts(100, 100, 1) /\ Counts(20, 20, 1) /\ Counts(200, 200, 1)
      /\ Counts(99, 99, 1)
  BY SMT DEF Counts, Costly, MinCost, MaxCost
<1>2. /\ KernelOf(Over(512, 8, 20), 20) /\ KernelOf(Over(512, 4, 20), 20)
      /\ KernelOf(Over(512, 32, 100), 100)
      /\ KernelOf(Over(512, 0, 100), 100)
      /\ KernelOf(Over(512, 4, 100), 100)
      /\ KernelOf(Over(512, 16, 100), 100)
      /\ KernelOf(Over(512, 26, 100), 100)
      /\ KernelOf(Over(512, 28, 100), 100)
      /\ KernelOf(Over(512, 25, 100), 100)
      /\ KernelOf(Over(512, 260, 100), 100)
  BY KernelsAre
<1>3. /\ InFrame(Plain(100, Straight(100), 100, 1))
      /\ InFrame(Plain(20, Over(512, 8, 20), 20, 1))
      /\ InFrame(Plain(20, Over(512, 4, 20), 20, 1))
      /\ InFrame(Plain(200, Straight(200), 200, 1))
      /\ InFrame(Plain(99, Straight(99), 99, 1))
      /\ InFrame(Plain(20, Straight(20), 20, 1))
      /\ InFrame(Plain(100, Over(512, 32, 100), 100, 1))
      /\ InFrame(Plain(100, Over(512, 0, 100), 100, 1))
      /\ InFrame(Plain(100, Over(512, 4, 100), 100, 1))
      /\ InFrame(Plain(100, Over(512, 16, 100), 100, 1))
      /\ InFrame(Plain(100, Over(512, 26, 100), 100, 1))
      /\ InFrame(Plain(100, Over(512, 28, 100), 100, 1))
      /\ InFrame(Plain(100, Over(512, 25, 100), 100, 1))
      /\ InFrame(Plain(100, Over(512, 260, 100), 100, 1))
  BY <1>1, <1>2, KernelsAre, ExactInFrame, SMT
<1> QED
  BY <1>3 DEF ThroughputTests,
         throughput_ALU_add, throughput_ALU_addi, throughput_ALU_addiw,
         throughput_ALU_addw, throughput_ALU_and, throughput_ALU_andi,
         throughput_ALU_auipc, throughput_ALU_c_add, throughput_ALU_c_addi,
         throughput_ALU_c_addi16sp, throughput_ALU_c_addi4spn,
         throughput_ALU_c_addiw, throughput_ALU_c_addw, throughput_ALU_c_and,
         throughput_ALU_c_andi, throughput_ALU_c_li, throughput_ALU_c_lui,
         throughput_ALU_c_mv, throughput_ALU_c_not, throughput_ALU_c_or,
         throughput_ALU_c_sext_b, throughput_ALU_c_sext_h,
         throughput_ALU_c_slli, throughput_ALU_c_srai, throughput_ALU_c_srli,
         throughput_ALU_c_sub, throughput_ALU_c_subw, throughput_ALU_c_xor,
         throughput_ALU_c_zext_b, throughput_ALU_c_zext_h,
         throughput_ALU_c_zext_w, throughput_ALU_czero_eqz,
         throughput_ALU_czero_nez, throughput_ALU_lui, throughput_ALU_or,
         throughput_ALU_ori, throughput_ALU_sll, throughput_ALU_slli,
         throughput_ALU_slliw, throughput_ALU_sllw, throughput_ALU_slt,
         throughput_ALU_slti, throughput_ALU_sltiu, throughput_ALU_sltu,
         throughput_ALU_sra, throughput_ALU_srai, throughput_ALU_sraiw,
         throughput_ALU_sraw, throughput_ALU_srl, throughput_ALU_srli,
         throughput_ALU_srliw, throughput_ALU_srlw, throughput_ALU_sub,
         throughput_ALU_subw, throughput_ALU_xor, throughput_ALU_xori,
         throughput_AMO_amoadd_d, throughput_AMO_amoadd_w,
         throughput_AMO_amoand_d, throughput_AMO_amoand_w,
         throughput_AMO_amomax_d, throughput_AMO_amomax_w,
         throughput_AMO_amomaxu_d, throughput_AMO_amomaxu_w,
         throughput_AMO_amomin_d, throughput_AMO_amomin_w,
         throughput_AMO_amominu_d, throughput_AMO_amominu_w,
         throughput_AMO_amoor_d, throughput_AMO_amoor_w,
         throughput_AMO_amoswap_d, throughput_AMO_amoswap_w,
         throughput_AMO_amoxor_d, throughput_AMO_amoxor_w,
         throughput_AMO_lr_d, throughput_AMO_lr_w, throughput_AMO_sc_d,
         throughput_AMO_sc_w, throughput_BMU_add_uw, throughput_BMU_andn,
         throughput_BMU_bclr, throughput_BMU_bclri, throughput_BMU_bext,
         throughput_BMU_bexti, throughput_BMU_binv, throughput_BMU_binvi,
         throughput_BMU_bset, throughput_BMU_bseti, throughput_BMU_clz,
         throughput_BMU_clzw, throughput_BMU_cpop, throughput_BMU_cpopw,
         throughput_BMU_ctz, throughput_BMU_ctzw, throughput_BMU_max,
         throughput_BMU_maxu, throughput_BMU_min, throughput_BMU_minu,
         throughput_BMU_orc_b, throughput_BMU_orn, throughput_BMU_rev8,
         throughput_BMU_rol, throughput_BMU_rolw, throughput_BMU_ror,
         throughput_BMU_rori, throughput_BMU_roriw, throughput_BMU_rorw,
         throughput_BMU_sext_b, throughput_BMU_sext_h, throughput_BMU_sh1add,
         throughput_BMU_sh1add_uw, throughput_BMU_sh2add,
         throughput_BMU_sh2add_uw, throughput_BMU_sh3add,
         throughput_BMU_sh3add_uw, throughput_BMU_slli_uw,
         throughput_BMU_xnor, throughput_BMU_zext_h, throughput_BRU_beq,
         throughput_BRU_bge, throughput_BRU_bgeu, throughput_BRU_blt,
         throughput_BRU_bltu, throughput_BRU_bne, throughput_BRU_c_beqz,
         throughput_BRU_c_bnez, throughput_BRU_c_j, throughput_BRU_c_jalr,
         throughput_BRU_c_jr, throughput_BRU_jal, throughput_BRU_jalr,
         throughput_CSR_csrrc, throughput_CSR_csrrci, throughput_CSR_csrrs,
         throughput_CSR_csrrsi, throughput_CSR_csrrw, throughput_CSR_csrrwi,
         throughput_DIV_div, throughput_DIV_divu, throughput_DIV_divuw,
         throughput_DIV_divw, throughput_DIV_rem, throughput_DIV_remu,
         throughput_DIV_remuw, throughput_DIV_remw, throughput_LOAD_c_fld,
         throughput_LOAD_c_fldsp, throughput_LOAD_c_lbu,
         throughput_LOAD_c_ld, throughput_LOAD_c_ldsp, throughput_LOAD_c_lh,
         throughput_LOAD_c_lhu, throughput_LOAD_c_lw, throughput_LOAD_c_lwsp,
         throughput_LOAD_fld, throughput_LOAD_flh, throughput_LOAD_flw,
         throughput_LOAD_lb, throughput_LOAD_lbu, throughput_LOAD_ld,
         throughput_LOAD_lh, throughput_LOAD_lhu, throughput_LOAD_lw,
         throughput_LOAD_lwu, throughput_MUL_c_mul, throughput_MUL_mul,
         throughput_MUL_mulh, throughput_MUL_mulhsu, throughput_MUL_mulhu,
         throughput_MUL_mulw, throughput_STORE_c_fsd,
         throughput_STORE_c_fsdsp, throughput_STORE_c_sb,
         throughput_STORE_c_sd, throughput_STORE_c_sdsp,
         throughput_STORE_c_sh, throughput_STORE_c_sw,
         throughput_STORE_c_swsp, throughput_STORE_fsd, throughput_STORE_fsh,
         throughput_STORE_fsw, throughput_STORE_sb, throughput_STORE_sd,
         throughput_STORE_sd_cross64, throughput_STORE_sh,
         throughput_STORE_sw

LEMMA FpThroughputInFrame == \A p \in FpThroughputTests : InFrame(p)
<1>1. /\ Counts(100, 100, 1) /\ Counts(20, 20, 1)
  BY SMT DEF Counts, Costly, MinCost, MaxCost
<1>3. /\ InFrame(Plain(100, Straight(100), 100, 1))
      /\ InFrame(Plain(20, Straight(20), 20, 1))
  BY <1>1, KernelsAre, ExactInFrame, SMT
<1> QED
  BY <1>3 DEF FpThroughputTests,
         throughput_FADD_fadd_d, throughput_FADD_fadd_s,
         throughput_FADD_fsub_d, throughput_FADD_fsub_s,
         throughput_FCLASS_fclass_d, throughput_FCLASS_fclass_s,
         throughput_FCMP_feq_d, throughput_FCMP_feq_s, throughput_FCMP_fle_d,
         throughput_FCMP_fle_s, throughput_FCMP_fleq_d,
         throughput_FCMP_fleq_h, throughput_FCMP_fleq_s,
         throughput_FCMP_flt_d, throughput_FCMP_flt_s,
         throughput_FCMP_fltq_d, throughput_FCMP_fltq_h,
         throughput_FCMP_fltq_s, throughput_FCVT_F2I_fcvt_l_d,
         throughput_FCVT_F2I_fcvt_l_s, throughput_FCVT_F2I_fcvt_lu_d,
         throughput_FCVT_F2I_fcvt_lu_s, throughput_FCVT_F2I_fcvt_w_d,
         throughput_FCVT_F2I_fcvt_w_s, throughput_FCVT_F2I_fcvt_wu_d,
         throughput_FCVT_F2I_fcvt_wu_s, throughput_FCVT_F2I_fcvtmod_w_d,
         throughput_FCVT_I2F_fcvt_d_l, throughput_FCVT_I2F_fcvt_d_lu,
         throughput_FCVT_I2F_fcvt_d_w, throughput_FCVT_I2F_fcvt_d_wu,
         throughput_FCVT_I2F_fcvt_s_l, throughput_FCVT_I2F_fcvt_s_lu,
         throughput_FCVT_I2F_fcvt_s_w, throughput_FCVT_I2F_fcvt_s_wu,
         throughput_FDIV_fdiv_d, throughput_FDIV_fdiv_s,
         throughput_FMA_fmadd_d, throughput_FMA_fmadd_s,
         throughput_FMA_fmsub_d, throughput_FMA_fmsub_s,
         throughput_FMA_fnmadd_d, throughput_FMA_fnmadd_s,
         throughput_FMA_fnmsub_d, throughput_FMA_fnmsub_s,
         throughput_FMISC_fcvt_d_h, throughput_FMISC_fcvt_d_s,
         throughput_FMISC_fcvt_h_d, throughput_FMISC_fcvt_h_s,
         throughput_FMISC_fcvt_s_d, throughput_FMISC_fcvt_s_h,
         throughput_FMISC_fli_d, throughput_FMISC_fli_h,
         throughput_FMISC_fli_s, throughput_FMISC_fmax_d,
         throughput_FMISC_fmax_s, throughput_FMISC_fmaxm_d,
         throughput_FMISC_fmaxm_h, throughput_FMISC_fmaxm_s,
         throughput_FMISC_fmin_d, throughput_FMISC_fmin_s,
         throughput_FMISC_fminm_d, throughput_FMISC_fminm_h,
         throughput_FMISC_fminm_s, throughput_FMISC_fround_d,
         throughput_FMISC_fround_h, throughput_FMISC_fround_s,
         throughput_FMISC_froundnx_d, throughput_FMISC_froundnx_h,
         throughput_FMISC_froundnx_s, throughput_FMISC_fsgnj_d,
         throughput_FMISC_fsgnj_s, throughput_FMISC_fsgnjn_d,
         throughput_FMISC_fsgnjn_s, throughput_FMISC_fsgnjx_d,
         throughput_FMISC_fsgnjx_s, throughput_FMUL_fmul_d,
         throughput_FMUL_fmul_s, throughput_FMV_F2I_fmv_x_d,
         throughput_FMV_F2I_fmv_x_h, throughput_FMV_F2I_fmv_x_w,
         throughput_FMV_I2F_fmv_d_x, throughput_FMV_I2F_fmv_h_x,
         throughput_FMV_I2F_fmv_w_x, throughput_FSQRT_fsqrt_d,
         throughput_FSQRT_fsqrt_s

LEMMA DependenciesInFrame == \A p \in DependencyTests : InFrame(p)
<1>1. /\ Counts(100, 100, 1) /\ Counts(200, 100, 2) /\ Counts(300, 100, 3)
      /\ Counts(400, 100, 4) /\ Counts(40, 20, 2)
  BY SMT DEF Counts, Costly, MinCost, MaxCost
<1>2. /\ KernelOf(Over(64, 8, 100), 100)
      /\ KernelOf(Over(64, 8, 200), 200)
      /\ KernelOf(Over(64, 8, 300), 300)
      /\ KernelOf(Over(64, 8, 400), 400) /\ KernelOf(Over(64, 8, 40), 40)
  BY KernelsAre
<1>3. /\ InFrame(Plain(100, Straight(100), 100, 1))
      /\ InFrame(Plain(200, Straight(200), 100, 2))
      /\ InFrame(Plain(300, Straight(300), 100, 3))
      /\ InFrame(Plain(400, Straight(400), 100, 4))
      /\ InFrame(Plain(100, Over(64, 8, 100), 100, 1))
      /\ InFrame(Plain(200, Over(64, 8, 200), 100, 2))
      /\ InFrame(Plain(300, Over(64, 8, 300), 100, 3))
      /\ InFrame(Plain(400, Over(64, 8, 400), 100, 4))
      /\ InFrame(OperandsFirst(200, Straight(200), 100, 2))
      /\ InFrame(Operands(200, Straight(200), 100, 2))
      /\ InFrame(Operands(40, Straight(40), 20, 2))
      /\ InFrame(Plain(40, Straight(40), 20, 2))
      /\ InFrame(Operands(300, Over(64, 8, 300), 100, 3))
      /\ InFrame(Plain(40, Over(64, 8, 40), 20, 2))
      /\ InFrame(OverL2(200, Straight(200), 100, 2))
      /\ InFrame(OverL2(40, Straight(40), 20, 2))
      /\ InFrame(OverL2(100, Straight(100), 100, 1))
      /\ InFrame(Operands(200, Over(64, 8, 200), 100, 2))
  BY <1>1, <1>2, KernelsAre, ExactInFrame, SMT
<1>4. /\ InFrame(Plain(FastCost, OverFast(NFAST * 8), 8, NFAST + 2))
      /\ InFrame(Plain(FastCost, OverFast(8), 8, NFAST + 2))
  <2>1. Counts(FastCost, 8, NFAST + 2)
    BY SMT DEF FastCost, NFAST, Counts, Costly, MinCost, MaxCost
  <2>2. KernelOf(OverFast(NFAST * 8), FastCost) /\ KernelOf(OverFast(8), FastCost)
    <3>1. PICK reach \in Nat : reach = NFAST * 8 /\ reach <= 512
      BY SMT DEF NFAST
    <3> QED
      BY <3>1, KernelsAre, SMT DEF OverFast
  <2> QED
    BY <2>1, <2>2, ExactInFrame, Zenon
<1> QED
  BY <1>3, <1>4 DEF DependencyTests,
         dependency_ILP_add_ilp1, dependency_ILP_add_ilp2,
         dependency_ILP_add_ilp3, dependency_ILP_add_ilp4,
         dependency_ILP_load_ilp1, dependency_ILP_load_ilp2,
         dependency_ILP_load_ilp3, dependency_ILP_load_ilp4,
         dependency_addr_dep_fld_fmv, dependency_addr_dep_fsd_fld_fmv,
         dependency_cross_domain_fclass_fcvt,
         dependency_cross_domain_fcvt_roundtrip,
         dependency_cross_domain_fmv_roundtrip, dependency_fp_fwd_fadd_fma,
         dependency_fp_fwd_fadd_fmul, dependency_fp_fwd_fdiv_fadd,
         dependency_fp_fwd_fdiv_fma, dependency_fp_fwd_fdiv_fmul,
         dependency_fp_fwd_fmul_fma, dependency_fp_fwd_fsqrt_fadd,
         dependency_int_fwd_alu_div, dependency_int_fwd_alu_mul,
         dependency_int_fwd_mul_div, dependency_load_use_l1_fld_fadd,
         dependency_load_use_l1_fld_fma, dependency_load_use_l1_fld_fmul,
         dependency_load_use_l1_ld_alu, dependency_load_use_l1_ld_div,
         dependency_load_use_l1_ld_mul, dependency_load_use_l2_ld_alu,
         dependency_load_use_l2_ld_div, dependency_load_use_l2_ld_ld,
         dependency_load_use_l2_ld_mul, dependency_store_fwd_fsd_fld,
         dependency_store_fwd_sd_ld, memory_order_load_bypass_case_b,
         memory_order_load_bypass_case_c, memory_order_load_load_case_b,
         memory_order_load_load_case_c, memory_order_store_buffer_case_b,
         memory_order_store_buffer_case_c

LEMMA WorkloadsInFrame == \A p \in WorkloadTests : InFrame(p)
<1>1. \A p \in WorkloadTests : \E cost \in MinCost .. MaxCost : p = Workload(cost)
  BY SMT DEF MinCost, MaxCost, WorkloadTests,
         workload_algo_edit_distance, workload_algo_knapsack,
         workload_algo_lcs, workload_bit_bit_reverse, workload_bit_bitcount,
         workload_bit_bitcount_fast, workload_bit_find_msb,
         workload_bit_msb_binary, workload_container_arr_sum,
         workload_container_queue, workload_container_stack,
         workload_graph_bfs, workload_graph_dfs, workload_graph_dijkstra,
         workload_math_dot_product, workload_math_fib_iterative,
         workload_math_fib_recursive, workload_math_gcd,
         workload_math_is_prime, workload_math_mat_multi,
         workload_math_power_fast, workload_math_power_naive,
         workload_math_sqrt_newton, workload_other_crc32,
         workload_other_huffman, workload_other_quick_select,
         workload_search_binary_search, workload_search_hash_search,
         workload_search_linear_search, workload_string_str_cmp,
         workload_string_str_cpy, workload_string_str_len,
         workload_string_str_match, workload_string_str_reverse,
         workload_tree_tree_heap, workload_tree_tree_iterative,
         workload_tree_tree_recursive, workload_tree_tree_search
<1>2. \A cost \in MinCost .. MaxCost : cost \in Nat /\ Costly(cost)
  BY SMT DEF Costly, MinCost, MaxCost
<1> QED
  BY <1>1, <1>2, Zenon DEF InFrame

(* A benchmark of Embench on its boardsupport.c.                           *)
LEMMA EmbenchKeepsRules == KeepsRules(embench) /\ Affordable(embench)
<1> DEFINE p == embench
<1>1. PICK main : main = p.main /\ main = embench.main
  OBVIOUS
<1>2. /\ main = <<[op |-> "initialise_board"], Warm(Repetition, 1), Warm(Repetition, 1),
                  perf_start, Measured(Repetition), [op |-> "stop_trigger"],
                  verify_benchmark>>
      /\ p.slots = {} /\ p.nloop = [spike \in BOOLEAN |-> 1]
  BY <1>1 DEF embench
<1>3. /\ Len(main) = 7 /\ DOMAIN main = 1 .. 7
      /\ main[1].op = "initialise_board" /\ main[4].op = "perf_start"
      /\ main[6].op = "stop_trigger" /\ main[7].op = "verify_benchmark"
      /\ main[2] = Warm(Repetition, 1) /\ main[3] = Warm(Repetition, 1)
      /\ main[5] = Measured(Repetition)
  BY <1>2 DEF perf_start, verify_benchmark
<1>4. /\ Repetition.insns = 1 /\ Repetition.control = 0 /\ Repetition.walks = {}
      /\ Repetition.bytes = 0 /\ Repetition.reach = 0 /\ ~Repetition.needs
  BY DEF Repetition, Straight
<1>5. /\ \A i \in {2, 3, 5} : main[i].op = "call" /\ main[i].kernel = Repetition
      /\ \A i \in {2, 3, 5}, spike \in BOOLEAN :
           /\ Loops(main[i], p.nloop[spike]) = 1 /\ Work(main[i], p.nloop[spike]) = 1
  BY <1>2, <1>3, <1>4 DEF Warm, Measured, Loops, Work
<1> HIDE DEF p
<1>6. \A i \in {2, 3, 5} : CallRule(p, i)
  BY <1>1, <1>2, <1>4, <1>5 DEF CallRule
<1>7. Opened(p, 6)
  BY <1>1, <1>3, <1>5 DEF Opened, Inits, Closes
<1>8. ~Opened(p, 8)
  <2>1. /\ p.main[6].op \in Closes /\ p.main[6].op \notin Inits
        /\ p.main[7].op \notin Inits
    BY <1>1, <1>3 DEF Inits, Closes
  <2>2. ~Opened(p, 6 + 1)
    BY <2>1, OpenedNext, 6 \in Nat \ {0}
  <2>3. ~Opened(p, 7 + 1)
    BY <2>1, <2>2, OpenedNext, 7 \in Nat \ {0}
  <2> QED
    BY <2>3
<1>9. StopRule(p, 6)
  BY <1>1, <1>3, <1>5, <1>7 DEF StopRule
<1>10. ASSUME NEW i \in 1 .. 7
       PROVE  /\ p.main[i].op = "call"      => CallRule(p, i) /\ i \in {2, 3, 5}
              /\ p.main[i].op \in Stops     => StopRule(p, i)
              /\ p.main[i].op = "verify_benchmark" => i = 7
              /\ p.main[i].op \notin {"alloc", "free", "perf_init", "perf_print",
                                      "probe_point", "probe_begin"}
  <2>1. CASE i \in {1, 4, 6, 7}
    BY <1>1, <1>3, <1>9, <2>1 DEF Stops
  <2>2. CASE i \in {2, 3, 5}
    BY <1>1, <1>5, <1>6, <2>2 DEF Stops
  <2> QED
    BY <2>1, <2>2
<1>v. Before(p, Prints, 7) = All(p, Prints)
  BY <1>1, <1>3 DEF Before, All, Prints
<1>11. KeepsRules(p)
  <2>1. IsFiniteSet(p.slots) /\ p.nloop \in [BOOLEAN -> Nat]
    BY <1>2, FS_EmptySet
  <2>2. Len(p.main) \in Nat /\ DOMAIN p.main = 1 .. Len(p.main) /\ Len(p.main) + 1 = 8
    BY <1>1, <1>3
  <2> QED
    BY <1>2, <1>3, <1>1, <1>8, <1>10, <1>v, <2>1, <2>2 DEF KeepsRules
<1>12. Affordable(p)
  <2>1. 1 \in 0 .. MostWork
    <3>1. PICK top, loops, max : Scale(top, loops, max)
      BY Numbers
    <3>2. top \in Nat /\ loops \in Nat /\ 1000 <= loops
      BY <3>1, ZenonT(30) DEF Scale
    <3>3. top = Budget(FALSE) /\ loops = MostLoops
      BY <3>1 DEF Scale
    <3>4. MostWork = top + 3 * loops
      BY <3>3, Numbers, Zenon DEF MostWork
    <3>5. 1 \in 0 .. top + 3 * loops
      BY <3>2
    <3> QED
      BY <3>4, <3>5, Zenon
  <2> QED
    BY <1>1, <1>3, <1>5, <1>10, <2>1 DEF Affordable
<1> QED
  BY <1>11, <1>12 DEF p

-----------------------------------------------------------------------------
(* The counters of the machine are wide enough for what CALC_NLOOP allows.  *)
WideCounters == Cpi * (MostWork + Slack) < Modulus

FramedTests ==
  LatencyTests \cup ThroughputTests \cup FpThroughputTests \cup DependencyTests
    \cup WorkloadTests

LEMMA FramedInFrame == \A p \in FramedTests : InFrame(p)
BY LatencyInFrame, ThroughputInFrame, FpThroughputInFrame, DependenciesInFrame,
   WorkloadsInFrame, Zenon DEF FramedTests

LEMMA WorkStaysBelow ==
  ASSUME WideCounters, NEW w \in 0 .. MostWork
  PROVE  Cpi * (w + Slack) < Modulus
<1>0. PICK most \in Nat : most = MostWork
  <2>1. PICK top, loops, max : Scale(top, loops, max)
    BY Numbers
  <2>2. top \in Nat /\ loops \in Nat
    BY <2>1, ZenonT(30) DEF Scale
  <2>3. top = Budget(FALSE) /\ loops = MostLoops
    BY <2>1 DEF Scale
  <2>4. MostWork = top + 3 * loops
    BY <2>3, Numbers, Zenon DEF MostWork
  <2>5. PICK m \in Nat : m = top + 3 * loops
    BY <2>2
  <2> QED
    BY <2>4, <2>5, Zenon
<1>1. w \in Nat /\ w <= most
  BY <1>0
<1>2. PICK slack \in Nat : slack = Slack
  BY DEF Slack
<1>3. Cpi \in Nat /\ Modulus \in Nat
  BY HarnessAssumption
<1>4. Cpi * (w + slack) <= Cpi * (most + slack)
  BY <1>1, <1>3
<1>5. Cpi * (w + slack) \in Nat /\ Cpi * (most + slack) \in Nat
  BY <1>1, <1>3
<1>6. Cpi * (most + slack) < Modulus
  BY <1>0, <1>2 DEF WideCounters
<1> DEFINE a == Cpi * (w + slack)
           b == Cpi * (most + slack)
<1>7. a \in Nat /\ b \in Nat /\ a <= b /\ b < Modulus
  BY <1>4, <1>5, <1>6
<1> HIDE DEF a, b
<1>8. a < Modulus
  BY <1>3, <1>7
<1> QED
  BY <1>2, <1>8 DEF a

(* Such counters take whatever an affordable program executes.             *)
LEMMA AffordableIsDisciplined ==
  ASSUME WideCounters, \A p \in Programs : KeepsRules(p) /\ Affordable(p)
  PROVE  AllDisciplined /\ (Spec => []StartsDisciplined)
<1>1. ASSUME NEW p \in Programs
      PROVE  Disciplined(p)
  <2>1. \A i \in DOMAIN p.main, spike \in BOOLEAN :
          p.main[i].op = "call" => Cpi * (Work(p.main[i], p.nloop[spike]) + Slack) < Modulus
    BY WorkStaysBelow, Zenon DEF Affordable
  <2> QED
    BY <2>1, Zenon DEF Disciplined
<1>2. AllDisciplined
  BY <1>1 DEF AllDisciplined
<1>3. HarnessInv => StartsDisciplined
  BY <1>2, Zenon DEF HarnessInv, Typed, Place, AllDisciplined, StartsDisciplined
<1>4. Spec => []HarnessInv
  BY <1>2, HarnessInvariant
<1>5. Spec => []StartsDisciplined
  BY <1>3, <1>4, PTL
<1> QED
  BY <1>2, <1>5

(* Every test whose main() is one of the five frames keeps the rules, and  *)
(* starts disciplined: whatever the argument of CALC_NLOOP from 20 to       *)
(* 20000, whatever kernel within its buffer, as long as main declares to    *)
(* perf_print what the kernel executes and tells CALC_NLOOP no less (the   *)
(* frame of src/src, common/perf_helpers.h CALC_NLOOP).  A test with new   *)
(* numbers therefore needs no new check.                                   *)
THEOREM FramesAreDisciplined ==
  WideCounters /\ (\A p \in Programs : InFrame(p)) =>
    AllDisciplined /\ (Spec => []StartsDisciplined)
<1> SUFFICES ASSUME WideCounters, \A p \in Programs : InFrame(p)
             PROVE  AllDisciplined /\ (Spec => []StartsDisciplined)
  OBVIOUS
<1>1. \A p \in Programs : KeepsRules(p) /\ Affordable(p)
  BY FramesKeepRules
<1> QED
  BY <1>1, AffordableIsDisciplined

(* The micro-benchmarks and workloads of the repository are on a frame, and *)
(* a benchmark of Embench keeps the rules as well: what is proved above of   *)
(* disciplined programs holds of whichever of them are built.              *)
THEOREM CatalogueIsDisciplined ==
  WideCounters /\ Programs \subseteq FramedTests \cup {embench} =>
    AllDisciplined /\ (Spec => []StartsDisciplined)
<1> SUFFICES ASSUME WideCounters, Programs \subseteq FramedTests \cup {embench}
             PROVE  AllDisciplined /\ (Spec => []StartsDisciplined)
  OBVIOUS
<1>1. ASSUME NEW p \in Programs
      PROVE  KeepsRules(p) /\ Affordable(p)
  <2>1. CASE p \in FramedTests
    BY <2>1, FramedInFrame, FramesKeepRules, Zenon
  <2>2. CASE p = embench
    BY <2>2, EmbenchKeepsRules, Zenon
  <2> QED
    BY <2>1, <2>2
<1> QED
  BY <1>1, AffordableIsDisciplined
=============================================================================
