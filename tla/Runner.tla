------------------------------- MODULE Runner -------------------------------
(***************************************************************************)
(* `uarch run <config.json>`: discovery, the worker pool that executes the *)
(* tests, the log files it leaves in CFG_LOGDIR, and the collection that   *)
(* turns log files into a summary, a CSV file and an exit status           *)
(* (scripts/uarch-run, scripts/lib/execute.sh, scripts/lib/collect.sh).    *)
(*                                                                         *)
(* Several runs use the same logdir: the presets of `uarch init` name a    *)
(* fixed one, and nothing ever deletes an old log file.  A test is its     *)
(* rank in the sorted list that discover_tests prints, so "the next line"  *)
(* is the least element of the lines left.                                 *)
(***************************************************************************)
EXTENDS Integers, Sequences, FiniteSets

CONSTANTS
  Tests,         (* ranks of the executables below CFG_BINDIR               *)
  Runs,          (* the invocations of `uarch run` on this logdir           *)
  Jobs,          (* CFG_JOBS of each invocation's config                    *)
  Overlap,       (* may an invocation start while another one is active?    *)
  StdinReaders,  (* tests whose command reads its standard input            *)
  Prints,        (* ##PERF## lines of each test; some tests print none      *)
  MaxKills,      (* bound: workers (run_one.sh) killed by a signal          *)
  MaxInterrupts  (* bound: invocations interrupted as a whole (Ctrl-C)      *)

ASSUME RunnerAssumption ==
  /\ Tests \subseteq Nat /\ IsFiniteSet(Tests)
  /\ IsFiniteSet(Runs)
  /\ Jobs \in [Runs -> Int]
  /\ Overlap \in BOOLEAN
  /\ StdinReaders \subseteq Tests
  /\ Prints \in [Tests -> Nat]
  /\ MaxKills \in Nat /\ MaxInterrupts \in Nat

VARIABLES
  phase,    (* phase[r]: where invocation r is in uarch-run                 *)
  list,     (* list[r]: $TESTS                                              *)
  todo,     (* todo[r]: lines of $TESTS that no worker has been given       *)
  worker,   (* worker[r][t]: the run_one.sh process of test t               *)
  outcome,  (* outcome[r][t]: what `timeout ... bash -c` returned           *)
  stopped,  (* stopped[r]: xargs gave up after a child died of a signal     *)
  helper,   (* does $CFG_LOGDIR/.run_one.sh exist?                          *)
  log,      (* log[t]: the "# Exit:" line of the file $CFG_LOGDIR/<t>.log   *)
  output,   (* output[t]: the number of ##PERF## lines in that file         *)
  unread,   (* unread[r]: lines of $TESTS collect_results has not read      *)
  verdict,  (* verdict[r][t]: what collect_results printed for t            *)
  count,    (* count[r]: the locals pass, fail_count, skip                  *)
  summary,  (* the lines of $CFG_LOGDIR/summary.txt, without the framing    *)
  csv,      (* the rows of $CFG_LOGDIR/results.csv, without the header      *)
  status,   (* status[r]: exit status of the invocation                     *)
  faults    (* kills and interrupts so far                                  *)

exec == <<todo, worker, outcome, stopped>>
coll == <<unread, verdict, count>>
vars == <<phase, list, exec, helper, log, output, coll, summary, csv, status,
          faults>>

-----------------------------------------------------------------------------
Exits    == {"ok", "timeout", "fail"}       (* 0, 124, anything else        *)
Unknown  == "unknown"                       (* no exit status recorded      *)
Verdicts == {"PASS", "TIMEOUT", "FAIL", "MISSING"}
NoLog    == "absent"
LogFile  == Exits \cup {NoLog, Unknown}
Rows     == [test : Tests, line : Nat]      (* a ##PERF## line of a test    *)

Phases == {"idle", "prepare", "chmod", "execute", "cleanup", "collect",
           "done", "interrupted"}

(* Phases in which the shell process of an invocation is alive. *)
Live == {"prepare", "chmod", "execute", "cleanup", "collect"}

(* A run_one.sh process exists in these states; the others are "none" (not *)
(* started) and "exited".                                                  *)
Busy         == {"starting", "running", "logging", "copying"}
WorkerStates == Busy \cup {"none", "exited"}

Active(r) == {t \in Tests : worker[r][t] \in Busy}

(* CFG_JOBS <= 1 selects the while-read loop instead of xargs -P. *)
Serial(r) == Jobs[r] <= 1
Slots(r)  == IF Serial(r) THEN 1 ELSE Jobs[r]

IsFirst(t, S) == t \in S /\ \A u \in S : t <= u

(* Defect: without the default the empty $rc compares equal to 0. *)
VerdictOf_NoDefault(f) ==
  CASE f = NoLog              -> "MISSING"
    [] f \in {"ok", Unknown}  -> "PASS"
    [] f = "timeout"          -> "TIMEOUT"
    [] OTHER                  -> "FAIL"

(* What collect_results makes of the first "# Exit:" line; a log without   *)
(* one counts as exit status 1.                                            *)
VerdictOf(f) ==
  CASE f = NoLog     -> "MISSING"
    [] f = "ok"      -> "PASS"
    [] f = "timeout" -> "TIMEOUT"
    [] OTHER         -> "FAIL"

(* Defect: a timeout is counted with the passes. *)
Counted_TimeoutPasses(v) == IF v \in {"PASS", "TIMEOUT"} THEN "pass" ELSE "fail"

Counted(v) == CASE v = "PASS"    -> "pass"
                [] v = "TIMEOUT" -> "skip"
                [] OTHER         -> "fail"

-----------------------------------------------------------------------------
Init ==
  /\ phase   = [r \in Runs |-> "idle"]
  /\ list    = [r \in Runs |-> {}]
  /\ todo    = [r \in Runs |-> {}]
  /\ worker  = [r \in Runs |-> [t \in Tests |-> "none"]]
  /\ outcome = [r \in Runs |-> [t \in Tests |-> Unknown]]
  /\ stopped = [r \in Runs |-> FALSE]
  /\ helper  = FALSE
  /\ log     = [t \in Tests |-> NoLog]
  /\ output  = [t \in Tests |-> 0]
  /\ unread  = [r \in Runs |-> {}]
  /\ verdict = [r \in Runs |-> [t \in Tests |-> "none"]]
  /\ count   = [r \in Runs |-> [pass |-> 0, fail |-> 0, skip |-> 0]]
  /\ summary = <<>>
  /\ csv     = <<>>
  /\ status  = [r \in Runs |-> "none"]
  /\ faults  = [kills |-> 0, interrupts |-> 0]

(* parse_config, discover_tests, then the summary file is truncated.  The  *)
(* include and exclude lists select any subset of the executables.         *)
Start(r) ==
  /\ phase[r] = "idle"
  /\ Overlap \/ \A q \in Runs : phase[q] \notin Live
  /\ \E L \in (SUBSET Tests) \ {{}} : list' = [list EXCEPT ![r] = L]
  /\ summary' = <<>>
  /\ phase' = [phase EXCEPT ![r] = "prepare"]
  /\ UNCHANGED <<exec, helper, log, output, coll, csv, status, faults>>

(* Nothing selected: `grep -c .` prints 0 and fails, and `set -e` ends the *)
(* invocation before it touches the logdir.                                *)
StartEmpty(r) ==
  /\ phase[r] = "idle"
  /\ Overlap \/ \A q \in Runs : phase[q] \notin Live
  /\ phase' = [phase EXCEPT ![r] = "done"]
  /\ status' = [status EXCEPT ![r] = "failed"]
  /\ UNCHANGED <<list, exec, helper, log, output, coll, summary, csv, faults>>

(* cat > "$run_one" *)
WriteHelper(r) ==
  /\ phase[r] = "prepare"
  /\ helper' = TRUE
  /\ phase' = [phase EXCEPT ![r] = "chmod"]
  /\ UNCHANGED <<list, exec, log, output, coll, summary, csv, status, faults>>

(* chmod +x "$run_one"; under `set -e` the invocation dies when another    *)
(* one has removed the file in between.                                    *)
ChmodHelper(r) ==
  /\ phase[r] = "chmod"
  /\ \/ /\ helper
        /\ phase' = [phase EXCEPT ![r] = "execute"]
        /\ todo'  = [todo EXCEPT ![r] = list[r]]
        /\ UNCHANGED status
     \/ /\ ~helper
        /\ phase'  = [phase EXCEPT ![r] = "done"]
        /\ status' = [status EXCEPT ![r] = "failed"]
        /\ UNCHANGED todo
  /\ UNCHANGED <<list, worker, outcome, stopped, helper, log, output, coll,
                 summary, csv, faults>>

-----------------------------------------------------------------------------
(* xargs, or the serial loop, hands the next line to a free slot. *)
Spawn(r) ==
  /\ phase[r] = "execute"
  /\ ~stopped[r]
  /\ Cardinality(Active(r)) < Slots(r)
  /\ \E t \in Tests :
       /\ IsFirst(t, todo[r])
       /\ todo'   = [todo EXCEPT ![r] = @ \ {t}]
       /\ worker' = [worker EXCEPT ![r][t] = "starting"]
  /\ UNCHANGED <<phase, list, outcome, stopped, helper, log, output, coll,
                 summary, csv, status, faults>>

(* bash opens $run_one; without the file it exits 127 and writes no log. *)
OpenHelper(r, t) ==
  /\ worker[r][t] = "starting"
  /\ worker' = [worker EXCEPT ![r][t] = IF helper THEN "running" ELSE "exited"]
  /\ UNCHANGED <<phase, list, todo, outcome, stopped, helper, log, output,
                 coll, summary, csv, status, faults>>

(* Defect: `&& rc=0` is dropped, so rc stays unset when the test succeeds. *)
TestEnds_RcUnset(r, t) ==
  /\ worker[r][t] = "running"
  /\ \E e \in {"unset", "timeout", "fail"} :
       outcome' = [outcome EXCEPT ![r][t] = e]
  /\ log'    = [log EXCEPT ![t] = Unknown]
  /\ output' = [output EXCEPT ![t] = 0]
  /\ worker' = [worker EXCEPT ![r][t] = "logging"]
  /\ todo'   = IF Serial(r) /\ t \in StdinReaders
               THEN [todo EXCEPT ![r] = {}] ELSE todo
  /\ UNCHANGED <<phase, list, stopped, helper, coll, summary, csv, status,
                 faults>>

(* The command ends (or `timeout` ends it) and the log file is truncated.  *)
(* In the serial loop the command inherits the loop's standard input, so a *)
(* command that reads it swallows the lines that are left; xargs gives its *)
(* children /dev/null.                                                     *)
TestEnds(r, t) ==
  /\ worker[r][t] = "running"
  /\ \E e \in Exits : outcome' = [outcome EXCEPT ![r][t] = e]
  /\ log'    = [log EXCEPT ![t] = Unknown]
  /\ output' = [output EXCEPT ![t] = 0]
  /\ worker' = [worker EXCEPT ![r][t] = "logging"]
  /\ todo'   = IF Serial(r) /\ t \in StdinReaders
               THEN [todo EXCEPT ![r] = {}] ELSE todo
  /\ UNCHANGED <<phase, list, stopped, helper, coll, summary, csv, status,
                 faults>>

(* The header with "# Exit: $rc" reaches the file before the output does;  *)
(* by the end of the step some lines of the output may have followed it.   *)
WriteHeader(r, t) ==
  /\ worker[r][t] = "logging"
  /\ log'    = [log EXCEPT ![t] = outcome[r][t]]
  /\ \E k \in 0 .. Prints[t] : output' = [output EXCEPT ![t] = k]
  /\ worker' = [worker EXCEPT ![r][t] = "copying"]
  /\ UNCHANGED <<phase, list, todo, outcome, stopped, helper, coll, summary,
                 csv, status, faults>>

(* The rest of the output: a command that passed printed all its ##PERF##  *)
(* lines, another one any number of them.                                  *)
WriteRest(r, t) ==
  /\ worker[r][t] = "copying"
  /\ \E k \in output[t] .. Prints[t] :
       /\ outcome[r][t] = "ok" => k = Prints[t]
       /\ output' = [output EXCEPT ![t] = k]
  /\ worker' = [worker EXCEPT ![r][t] = "exited"]
  /\ UNCHANGED <<phase, list, todo, outcome, stopped, helper, log, coll,
                 summary, csv, status, faults>>

(* Defect: without `|| true` a killed worker ends the serial loop too. *)
Kill_EndsLoop(r, t) ==
  /\ worker[r][t] \in Busy
  /\ faults.kills < MaxKills
  /\ faults'  = [faults EXCEPT !.kills = @ + 1]
  /\ worker'  = [worker EXCEPT ![r][t] = "exited"]
  /\ stopped' = [stopped EXCEPT ![r] = TRUE]
  /\ UNCHANGED <<phase, list, todo, outcome, helper, log, output, coll,
                 summary, csv, status>>

(* A worker dies of a signal.  xargs then starts no further child (it only *)
(* waits for the running ones); the serial loop goes on (`|| true`).       *)
Kill(r, t) ==
  /\ worker[r][t] \in Busy
  /\ faults.kills < MaxKills
  /\ faults'  = [faults EXCEPT !.kills = @ + 1]
  /\ worker'  = [worker EXCEPT ![r][t] = "exited"]
  /\ stopped' = [stopped EXCEPT ![r] = ~Serial(r)]
  /\ UNCHANGED <<phase, list, todo, outcome, helper, log, output, coll,
                 summary, csv, status>>

(* Defect: the pool runs in the background and collection does not wait. *)
EndExecute_NoWait(r) ==
  /\ phase[r] = "execute"
  /\ todo[r] = {} \/ stopped[r]
  /\ phase' = [phase EXCEPT ![r] = "cleanup"]
  /\ helper' = FALSE
  /\ UNCHANGED <<list, exec, log, output, coll, summary, csv, status, faults>>

(* Defect: a pool that gave up still waits for its input to be used up. *)
EndExecute_AllInput(r) ==
  /\ phase[r] = "execute"
  /\ todo[r] = {}
  /\ Active(r) = {}
  /\ phase' = [phase EXCEPT ![r] = "cleanup"]
  /\ helper' = FALSE
  /\ UNCHANGED <<list, exec, log, output, coll, summary, csv, status, faults>>

(* The pool or the loop has ended, whatever its status (`|| true`). *)
EndExecute(r) ==
  /\ phase[r] = "execute"
  /\ todo[r] = {} \/ stopped[r]
  /\ Active(r) = {}
  /\ phase' = [phase EXCEPT ![r] = "cleanup"]
  /\ helper' = FALSE                          (* rm -f "$run_one"           *)
  /\ UNCHANGED <<list, exec, log, output, coll, summary, csv, status, faults>>

-----------------------------------------------------------------------------
(* Defect: results.csv is appended to and never rewritten. *)
BeginCollect_Append(r) ==
  /\ phase[r] = "cleanup"
  /\ phase'  = [phase EXCEPT ![r] = "collect"]
  /\ unread' = [unread EXCEPT ![r] = list[r]]
  /\ UNCHANGED <<list, exec, helper, log, output, verdict, count, summary, csv,
                 status, faults>>

(* collect_results up to its loop: the CSV file is rewritten. *)
BeginCollect(r) ==
  /\ phase[r] = "cleanup"
  /\ phase'  = [phase EXCEPT ![r] = "collect"]
  /\ csv'    = <<>>
  /\ unread' = [unread EXCEPT ![r] = list[r]]
  /\ UNCHANGED <<list, exec, helper, log, output, verdict, count, summary,
                 status, faults>>

(* The rows that `grep '^##PERF##' "$logfile"` adds to the CSV file.        *)
RowsOf(t) == [k \in 1 .. output[t] |-> [test |-> t, line |-> k]]

(* One iteration of the loop: classify, count, append what the summary says *)
(* of the test (one element here, whatever number of lines) and, for a      *)
(* PASS, the ##PERF## lines of the log to the CSV file.  A log without any  *)
(* adds no row: grep then fails, but uarch-run has turned `set -e` off.     *)
Collect(r) ==
  /\ phase[r] = "collect"
  /\ \E t \in Tests :
       LET v == VerdictOf(log[t])
       IN  /\ IsFirst(t, unread[r])
           /\ unread'  = [unread EXCEPT ![r] = @ \ {t}]
           /\ verdict' = [verdict EXCEPT ![r][t] = v]
           /\ count'   = [count EXCEPT ![r][Counted(v)] = @ + 1]
           /\ summary' = Append(summary, [test |-> t, says |-> v])
           /\ csv'     = IF v = "PASS" THEN csv \o RowsOf(t) ELSE csv
  /\ UNCHANGED <<phase, list, exec, helper, log, output, status, faults>>

(* Defect: the status looks at the skipped tests instead of the failed. *)
EndCollect_SkipDecides(r) ==
  /\ phase[r] = "collect"
  /\ unread[r] = {}
  /\ phase'  = [phase EXCEPT ![r] = "done"]
  /\ status' = [status EXCEPT ![r] = IF count[r].skip = 0 THEN "ok"
                                                          ELSE "failed"]
  /\ UNCHANGED <<list, exec, helper, log, output, coll, summary, csv, faults>>

(* The totals; only fail_count decides the exit status. *)
EndCollect(r) ==
  /\ phase[r] = "collect"
  /\ unread[r] = {}
  /\ phase'  = [phase EXCEPT ![r] = "done"]
  /\ status' = [status EXCEPT ![r] = IF count[r].fail = 0 THEN "ok"
                                                          ELSE "failed"]
  /\ UNCHANGED <<list, exec, helper, log, output, coll, summary, csv, faults>>

(* Ctrl-C reaches the whole process group: the shell, xargs and workers. *)
Interrupt(r) ==
  /\ phase[r] \in Live
  /\ faults.interrupts < MaxInterrupts
  /\ faults' = [faults EXCEPT !.interrupts = @ + 1]
  /\ phase'  = [phase EXCEPT ![r] = "interrupted"]
  /\ worker' = [worker EXCEPT ![r] =
                  [t \in Tests |-> IF t \in Active(r) THEN "exited" ELSE @[t]]]
  /\ status' = [status EXCEPT ![r] = "failed"]
  /\ UNCHANGED <<list, todo, outcome, stopped, helper, log, output, coll,
                 summary, csv>>

-----------------------------------------------------------------------------
Shell(r) == \/ Start(r) \/ StartEmpty(r) \/ WriteHelper(r) \/ ChmodHelper(r)
            \/ Spawn(r) \/ EndExecute(r) \/ BeginCollect(r) \/ Collect(r)
            \/ EndCollect(r)

Worker(r, t) == \/ OpenHelper(r, t) \/ TestEnds(r, t)
                \/ WriteHeader(r, t) \/ WriteRest(r, t)

Next == \E r \in Runs : \/ Shell(r)
                        \/ Interrupt(r)
                        \/ \E t \in Tests : Worker(r, t) \/ Kill(r, t)

Spec == Init /\ [][Next]_vars

(* The kernel schedules every process; `timeout` ends every test, provided *)
(* the command does not ignore SIGTERM.  Nobody has to start a run.        *)
Fairness ==
  /\ \A r \in Runs : /\ WF_vars(WriteHelper(r)) /\ WF_vars(ChmodHelper(r))
                     /\ WF_vars(Spawn(r)) /\ WF_vars(EndExecute(r))
                     /\ WF_vars(BeginCollect(r)) /\ WF_vars(Collect(r))
                     /\ WF_vars(EndCollect(r))
  /\ \A r \in Runs, t \in Tests : WF_vars(Worker(r, t))

FairSpec == Spec /\ Fairness
-----------------------------------------------------------------------------
(***************************************************************************)
(* Properties                                                              *)
(***************************************************************************)

(* Every variable holds a value of its type. *)
TypeOK ==
  /\ phase   \in [Runs -> Phases]
  /\ list    \in [Runs -> SUBSET Tests]
  /\ todo    \in [Runs -> SUBSET Tests]
  /\ worker  \in [Runs -> [Tests -> WorkerStates]]
  /\ outcome \in [Runs -> [Tests -> Exits \cup {Unknown}]]
  /\ stopped \in [Runs -> BOOLEAN]
  /\ helper  \in BOOLEAN
  /\ log     \in [Tests -> LogFile]
  /\ output  \in [Tests -> Nat]
  /\ unread  \in [Runs -> SUBSET Tests]
  /\ verdict \in [Runs -> [Tests -> Verdicts \cup {"none"}]]
  /\ count   \in [Runs -> [pass : Nat, fail : Nat, skip : Nat]]
  /\ summary \in Seq([test : Tests, says : Verdicts])
  /\ csv     \in Seq(Rows)
  /\ status  \in [Runs -> {"none", "ok", "failed"}]
  /\ faults  \in [kills : 0 .. MaxKills, interrupts : 0 .. MaxInterrupts]

Reported(r, V) == {t \in Tests : verdict[r][t] \in V}

(* Rows in the order of the list and, for one test, of its output. *)
IsBefore(a, b) == a.test < b.test \/ (a.test = b.test /\ a.line < b.line)

(* pass, fail_count and skip are the numbers of the tests reported so, the *)
(* lines still to read are the rest of the list, and an exit status of 0   *)
(* means that the whole list was reported without FAIL or MISSING.         *)
CountsMatch ==
  \A r \in Runs :
    /\ count[r].pass = Cardinality(Reported(r, {"PASS"}))
    /\ count[r].skip = Cardinality(Reported(r, {"TIMEOUT"}))
    /\ count[r].fail = Cardinality(Reported(r, {"FAIL", "MISSING"}))
    /\ status[r] = "ok" => Reported(r, {"PASS", "TIMEOUT"}) = list[r]

(* A test is only ever reported PASS when some invocation saw it exit 0:   *)
(* a truncated, half written or missing log never counts as a success.     *)
PassHasWitness ==
  \A r \in Runs, t \in Tests :
    verdict[r][t] = "PASS" => \E q \in Runs : outcome[q][t] = "ok"

(* In the serial loop a killed worker costs its own test only: with no     *)
(* command that reads the loop's input, every listed test is started       *)
(* before the collection begins.                                           *)
SerialStartsAll ==
  \A r \in Runs :
    (Serial(r) /\ StdinReaders = {} /\ phase[r] \in {"cleanup", "collect"})
      => \A t \in list[r] : worker[r][t] = "exited"

(* What collect_results says of a test is what the test did in THIS        *)
(* invocation, never what a log left by an earlier one says; and the log   *)
(* behind a PASS has all of the test's output.                             *)
FreshVerdict ==
  \A r \in Runs, t \in Tests :
    verdict[r][t] # "none" =>
      /\ verdict[r][t] = VerdictOf(outcome[r][t])
      /\ phase[r] = "collect" /\ verdict[r][t] = "PASS" => output[t] = Prints[t]

(* The least that the help text promises of FreshVerdict ("With config:    *)
(* runs tests per config"): a test reported PASS was at least started.     *)
PassWasStarted ==
  \A r \in Runs, t \in Tests : verdict[r][t] = "PASS" => worker[r][t] # "none"

(* The tests reported as something else than what they did in this         *)
(* invocation, and the passes of this invocation whose log, and so whose   *)
(* CSV rows, are not all there.                                            *)
Misreported(r) ==
  {t \in Tests : verdict[r][t] \notin {"none", VerdictOf(outcome[r][t])}}
Torn(r) ==
  {t \in Tests : /\ verdict[r][t] = "PASS" /\ outcome[r][t] = "ok"
                 /\ output[t] # Prints[t]}

(* In the serial loop a killed worker costs the report of one test at      *)
(* most, its own: a wrong verdict, or a PASS with rows missing because the *)
(* worker died after the "# Exit:" line and before the output.             *)
OneLossPerKill ==
  \A r \in Runs :
    Serial(r) =>
      /\ Cardinality(Misreported(r)) <= faults.kills
      /\ phase[r] = "collect" =>
           Cardinality(Misreported(r) \cup Torn(r)) <= faults.kills

(* When an invocation finishes and nobody has used the logdir since, the   *)
(* summary lists exactly its tests, once each and in the order of the      *)
(* list; the CSV file has the ##PERF## lines in the logs of the tests it   *)
(* reported PASS, all of them, once each and in order, and no other row.   *)
ReportIsOwn ==
  \A r \in Runs :
    (/\ phase[r] = "collect"
     /\ unread[r] = {}) =>
       /\ {summary[i].test : i \in DOMAIN summary} = list[r]
       /\ \A i \in DOMAIN summary : summary[i].says = verdict[r][summary[i].test]
       /\ \A i, j \in DOMAIN summary : i < j => summary[i].test < summary[j].test
       /\ \A i \in DOMAIN csv : csv[i].test \in Reported(r, {"PASS"})
       /\ \A t \in Reported(r, {"PASS"}) :
            {csv[i].line : i \in {j \in DOMAIN csv : csv[j].test = t}}
              = 1 .. output[t]
       /\ \A i, j \in DOMAIN csv : i < j => IsBefore(csv[i], csv[j])

(* No worker finds .run_one.sh missing: the file outlives every worker of  *)
(* the invocation that wrote it.                                           *)
HelperOutlivesWorkers ==
  \A r \in Runs : phase[r] \in Live /\ Active(r) # {} => helper

(* Every invocation that starts comes to an end. *)
EveryRunEnds ==
  \A r \in Runs : phase[r] = "prepare" ~> phase[r] \in {"done", "interrupted"}

(* Where an invocation is, as RunReport sees it: one that ended without a  *)
(* report (nothing selected, interrupted) is "aborted".                    *)
Stage == [r \in Runs |-> CASE phase[r] = "idle" -> "idle"
                           [] phase[r] \in Live -> "open"
                           [] phase[r] = "done" /\ list[r] # {} -> "closed"
                           [] OTHER -> "aborted"]

Report == INSTANCE RunReport WITH stage <- Stage, result <- outcome

(* One invocation at a time and no killed worker: the runner implements    *)
(* the promise.                                                            *)
ImplementsReport == Report!Spec
=============================================================================
