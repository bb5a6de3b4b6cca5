----------------------------- MODULE TestReport -----------------------------
(***************************************************************************)
(* What a test promises to collect.sh and to the readers of its log, with  *)
(* no counter, buffer or statement: the ##PERF## lines it owes, in order,  *)
(* each with a count of instructions that fits what the line itself        *)
(* declares, and exit status 0 only when all of them are there.  A test    *)
(* that fails has printed none of them, or it has printed them all and     *)
(* rejects what it computed.                                               *)
(***************************************************************************)
EXTENDS Integers, Sequences

CONSTANTS
  Tests,    (* the tests, each in one of its builds                        *)
  Owed(_),  (* the lines a test owes: what each declares, and how many     *)
            (* instructions it may count besides (extra)                   *)
  Verifies(_)  (* does the test verify its result after the last line?     *)

VARIABLES
  which,    (* the test that runs                                          *)
  lines,    (* its ##PERF## lines so far                                   *)
  status    (* running, passed, failed or crashed                          *)

vars == <<which, lines, status>>

(* A line counts the work it declares, and little more; a line that leaves *)
(* the instructions of an iteration open (0) may count anything.           *)
Fits(owed, line) ==
  /\ line.iters = owed.iters /\ line.insns = owed.insns
  /\ LET work == owed.iters * owed.insns
     IN  work = 0 \/ (work <= line.instret /\ line.instret <= work + owed.extra)

Init == which \in Tests /\ lines = <<>> /\ status = "running"

PrintLine ==
  /\ status = "running"
  /\ Len(lines) < Len(Owed(which))
  /\ Len(lines') = Len(lines) + 1
  /\ SubSeq(lines', 1, Len(lines)) = lines
  /\ Fits(Owed(which)[Len(lines')], lines'[Len(lines')])
  /\ UNCHANGED <<which, status>>

Pass ==
  /\ status = "running" /\ Len(lines) = Len(Owed(which))
  /\ status' = "passed" /\ UNCHANGED <<which, lines>>

(* A test that fails has measured nothing, or everything and rejects the   *)
(* result; one that crashes may have measured some of it.                  *)
GiveUp ==
  /\ status = "running"
  /\ status' \in {"failed", "crashed"}
  /\ status' = "failed" =>
       lines = <<>> \/ (Verifies(which) /\ Len(lines) = Len(Owed(which)))
  /\ UNCHANGED <<which, lines>>

(* A checkpoint of the test is restored: its log starts again.             *)
Restore ==
  /\ lines' = <<>> /\ status' = "running" /\ UNCHANGED which

Next == PrintLine \/ Pass \/ GiveUp \/ Restore

Spec == Init /\ [][Next]_vars
=============================================================================
