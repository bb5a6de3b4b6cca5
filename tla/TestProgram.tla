---------------------------- MODULE TestProgram -----------------------------
(***************************************************************************)
(* The language of the tests: what the main() of a test does, statement by *)
(* statement, with an assembly kernel reduced to how much it executes and  *)
(* which memory and registers it depends on.  The catalogue modules write  *)
(* every main.c as such a program, and Harness runs the programs.          *)
(*                                                                         *)
(* Work is counted in instructions, in workloads in repetitions, and in    *)
(* cache_size and tlb_size in batches of loads.                            *)
(***************************************************************************)
EXTENDS Integers, Sequences, FiniteSets

(* INSN_BUDGET *)
Budget(spike) == IF spike THEN 100000 ELSE 200000000

(* CALC_NLOOP, its floor included *)
CalcNloop(spike, cost) ==
  LET most  == Budget(spike) \div cost
      floor == IF spike THEN 10 ELSE 100
  IN  IF most > floor THEN most ELSE floor

Nloops(cost) == [spike \in BOOLEAN |-> CalcNloop(spike, cost)]

(***************************************************************************)
(* A kernel: the instructions it executes between two tests of its loop    *)
(* counter and those that count and branch; the bytes main passes to it    *)
(* and the bytes it reaches from there; whether it needs floating-point    *)
(* operands from main; the heap blocks it walks.                           *)
(***************************************************************************)
LoopControl == 3

Straight(insns) ==
  [insns |-> insns, control |-> LoopControl, bytes |-> 0, reach |-> 0,
   needs |-> FALSE, walks |-> {}]

Over(bytes, reach, insns) ==
  [Straight(insns) EXCEPT !.bytes = bytes, !.reach = reach]
WithOperands(kernel) == [kernel EXCEPT !.needs = TRUE]
Walking(slots, insns) == [Straight(insns) EXCEPT !.walks = slots]
Batch(slots)          == [Walking(slots, 1) EXCEPT !.control = 0]
Repetition            == [Straight(1) EXCEPT !.control = 0]

-----------------------------------------------------------------------------
(* Statements. *)
perf_init   == [op |-> "perf_init"]
perf_start  == [op |-> "perf_start"]
perf_stop   == [op |-> "perf_stop"]
perf_close  == [op |-> "perf_close"]
probe_begin == [op |-> "probe_begin"]
probe_end   == [op |-> "probe_end"]
set_operands == [op |-> "operands"]
verify_benchmark == [op |-> "verify_benchmark"]

(* test_x(n), test_x(NLOOP) and test_x(NLOOP / 100 + 1) *)
Warm(kernel, n)   == [op |-> "call", kernel |-> kernel, share |-> 0, plus |-> n]
Measured(kernel)  == [op |-> "call", kernel |-> kernel, share |-> 1, plus |-> 0]
WarmShare(kernel) == [op |-> "call", kernel |-> kernel, share |-> 100, plus |-> 1]
Loops(call, nloop) ==
  (IF call.share = 0 THEN 0 ELSE nloop \div call.share) + call.plus
Work(call, nloop)  ==
  Loops(call, nloop) * (call.kernel.insns + call.kernel.control)

(* perf_print(name, cycles, instret, NLOOP * times, insns) *)
perf_print(times, insns) == [op |-> "perf_print", times |-> times, insns |-> insns]
probe_emit_point(x, insns)    == [op |-> "probe_point", x |-> x, insns |-> insns]

(* Blocks for the slots, one after the other.  "scratch" is the order array *)
(* of a chain: none, checked, or used unchecked.  If an allocation that is  *)
(* checked fails, main returns 1 (0) or goes on that many statements later. *)
alloc(slots, scratch, otherwise) ==
  [op |-> "alloc", slots |-> slots, scratch |-> scratch, otherwise |-> otherwise]
free(slots) == [op |-> "free", slots |-> slots]

(***************************************************************************)
(* The elements of s at the indices of I, in their order.                  *)
(***************************************************************************)
Rank(I, i)   == Cardinality({j \in I : j <= i})
Nth(I, k)    == CHOOSE i \in I : Rank(I, i) = k
Picked(s, I) == [k \in 1 .. Cardinality(I) |-> s[Nth(I, k)]]

-----------------------------------------------------------------------------
(* Programs. *)
(* Defect: the counters are started before the warm-up. *)
Measure_WarmInside(kernel, n, times, insns) ==
  <<perf_start, Warm(kernel, n), Measured(kernel), perf_stop, perf_print(times, insns)>>

Measure(kernel, n, times, insns) ==
  <<Warm(kernel, n), perf_start, Measured(kernel), perf_stop, perf_print(times, insns)>>

Program(cost, main) == [nloop |-> Nloops(cost), slots |-> {}, main |-> main]

(* The frame nearly every test shares.  "cost" is the argument of           *)
(* CALC_NLOOP; the kernel executes as many instructions as its source has   *)
(* in .rept blocks; times and insns are what main declares to perf_print.   *)
Framed(cost, prepare, kernel, times, insns) ==
  Program(cost, <<perf_init>> \o prepare \o Measure(kernel, 1000, times, insns)
                  \o <<perf_close>>)

Plain(cost, kernel, times, insns) == Framed(cost, <<>>, kernel, times, insns)

(* Defect: main does not set the operands. *)
Operands_Unset(cost, kernel, times, insns) ==
  Framed(cost, <<>>, WithOperands(kernel), times, insns)

Operands(cost, kernel, times, insns) ==
  Framed(cost, <<set_operands>>, WithOperands(kernel), times, insns)

(* fclass_fcvt sets its operand before perf_init. *)
OperandsFirst(cost, kernel, times, insns) ==
  Program(cost, <<set_operands, perf_init>>
                  \o Measure(WithOperands(kernel), 1000, times, insns) \o <<perf_close>>)

(* A workload runs 10 repetitions, then NLOOP measured ones. *)
Workload(cost) ==
  Program(cost, <<perf_init>> \o Measure(Repetition, 10, 1, 1) \o <<perf_close>>)

(* A ring in the L2 cache, freed before the counters are closed. *)
OverL2(cost, kernel, times, insns) ==
  [Program(cost, <<perf_init, alloc(<<"chain">>, "checked", 0)>>
                   \o Measure([kernel EXCEPT !.walks = {"chain"}], 1000, times, insns)
                   \o <<free(<<"chain">>), perf_close>>)
   EXCEPT !.slots = {"chain"}]

-----------------------------------------------------------------------------
(***************************************************************************)
(* The rules of a main(), read off its text: what a statement relies on is *)
(* the doing of earlier statements, whichever path led to it.              *)
(***************************************************************************)
Inits  == {"perf_init", "initialise_board"}
Closes == {"perf_close", "stop_trigger"}
Stops  == {"perf_stop", "stop_trigger"}
Prints == {"perf_print", "stop_trigger"}
Says   == Prints \cup {"probe_begin", "probe_point", "probe_end"}

(* The statements before i, and all of them, that do one of these things.  *)
Before(p, ops, i) == {j \in 1 .. i - 1 : p.main[j].op \in ops}
All(p, ops)       == Before(p, ops, Len(p.main) + 1)

Names(s, slot) == \E k \in DOMAIN s.slots : s.slots[k] = slot

(* Main reaches statement i with the events open, *)
Opened(p, i) ==
  \E j \in 1 .. i - 1 : /\ p.main[j].op \in Inits
                        /\ \A k \in j + 1 .. i - 1 : p.main[k].op \notin Closes

(* with a block in that pointer,                                           *)
Holds(p, i, slot) ==
  \E j \in 1 .. i - 1 :
    /\ p.main[j].op = "alloc" /\ Names(p.main[j], slot)
    /\ \A k \in j + 1 .. i - 1 : p.main[k].op = "free" => ~Names(p.main[k], slot)

(* with the operands where it put them: the library has not been called,   *)
(* other than to start the perf events if `direct` is false.               *)
Kept(p, i, direct) ==
  \E j \in 1 .. i - 1 :
    /\ p.main[j].op = "operands"
    /\ \A k \in j + 1 .. i - 1 : \/ p.main[k].op \in {"call", "perf_stop", "perf_close"}
                                 \/ direct /\ p.main[k].op = "perf_start"

CallRule(p, i) ==
  LET s == p.main[i]
  IN  /\ s.kernel.insns + s.kernel.control \in Nat
      /\ \A spike \in BOOLEAN : Loops(s, p.nloop[spike]) \in Nat
      /\ s.kernel.reach <= s.kernel.bytes
      /\ s.kernel.walks \subseteq p.slots
      /\ \A slot \in s.kernel.walks : Holds(p, i, slot)
      /\ s.kernel.needs /\ p.main[1].op # "operands" => Kept(p, i, s.share # 0)

SlotsRule(p, i) ==
  LET s == p.main[i]
  IN  /\ s.slots \in Seq(p.slots)
      /\ \A k, m \in DOMAIN s.slots : s.slots[k] = s.slots[m] => k = m

(* Where main goes on without its block, it is as if the statements it     *)
(* passes over were not there.                                             *)
AllocRule(p, i) ==
  LET s  == p.main[i]
      to == i + s.otherwise
  IN  /\ SlotsRule(p, i) /\ s.slots # <<>>
      /\ \A slot \in p.slots : Names(s, slot) => ~Holds(p, i, slot)
      /\ s.otherwise \in Nat /\ to <= Len(p.main) + 1
      /\ s.otherwise # 0 =>
           /\ s.otherwise = 1 \/ Len(s.slots) = 1
           /\ p.main[to - 1].op \notin Inits \cup Stops \cup {"perf_start", "call"}
           /\ Opened(p, to) <=> Opened(p, i)
           /\ \A slot \in p.slots : Holds(p, i, slot) => Holds(p, to, slot)
           /\ ~Kept(p, to, TRUE)
           /\ Before(p, Says, to) = Before(p, Says, i)
      /\ s.otherwise = 0 => Before(p, Prints, i) = {}

FreeRule(p, i) ==
  /\ SlotsRule(p, i)
  /\ \A slot \in p.slots : Names(p.main[i], slot) => Holds(p, i, slot)

(* The window: perf_start, one call, perf_stop.                            *)
StopRule(p, i) ==
  /\ Opened(p, i) /\ i > 2
  /\ p.main[i - 1].op = "call" /\ p.main[i - 2].op = "perf_start"

(* What is printed has just been measured, and declares the work of that    *)
(* call but for the control of its loop; or no instructions at all.        *)
PrintRule(p, i) ==
  LET s == p.main[i]
  IN  /\ s.times \in Nat /\ s.insns \in Nat
      /\ i > 3 /\ p.main[i - 1].op = "perf_stop"
      /\ \A spike \in BOOLEAN :
           LET loops    == p.nloop[spike]
               declared == (loops * s.times) * s.insns
           IN  declared = 0 \/ declared \in Work(p.main[i - 2], loops) - LoopControl * loops
                                             .. Work(p.main[i - 2], loops)

(* A point of a probe follows its line, and is numbered as that line is.   *)
PointRule(p, i) ==
  LET s == p.main[i]
      line == p.main[i - 1]
  IN  /\ i > 1 /\ line.op = "perf_print" /\ line.times = 1 /\ line.insns = s.insns
      /\ s.x = Cardinality(Before(p, Prints, i))
      /\ s.x = Cardinality(Before(p, {"probe_point"}, i)) + 1

(* A probe makes a point of every line, and says nothing after its end.    *)
ProbeRule(p) ==
  /\ Cardinality(All(p, {"probe_point"})) = Cardinality(All(p, Prints))
  /\ \E i \in All(p, {"probe_end"}) : All(p, Says) \subseteq 1 .. i

KeepsRules(p) ==
  /\ IsFiniteSet(p.slots) /\ p.nloop \in [BOOLEAN -> Nat]
  /\ Len(p.main) \in Nat /\ DOMAIN p.main = 1 .. Len(p.main)
  /\ \A i \in DOMAIN p.main :
       /\ p.main[i].op = "call"      => CallRule(p, i)
       /\ p.main[i].op = "alloc"     => AllocRule(p, i)
       /\ p.main[i].op = "free"      => FreeRule(p, i)
       /\ p.main[i].op \in Stops     => StopRule(p, i)
       /\ p.main[i].op = "perf_init" =>
            Before(p, Says, i) = {} /\ \A slot \in p.slots : ~Holds(p, i, slot)
       /\ p.main[i].op = "perf_print"  => PrintRule(p, i)
       /\ p.main[i].op = "probe_point" => PointRule(p, i)
       /\ p.main[i].op = "probe_begin" => ProbeRule(p) /\ Before(p, {"probe_point"}, i) = {}
       /\ p.main[i].op = "verify_benchmark" => Before(p, Prints, i) = All(p, Prints)
  /\ \A slot \in p.slots : ~Holds(p, Len(p.main) + 1, slot)
  /\ ~Opened(p, Len(p.main) + 1)
=============================================================================
