---------------------------- MODULE RunnerProofs ----------------------------
(***************************************************************************)
(* Theorems about the runner, for every set of tests, every number of      *)
(* invocations, every CFG_JOBS and every number of output lines: whose     *)
(* verdicts an invocation reports, with which counters, exit status and    *)
(* witnesses of its passes; the two files it writes; the refinement of     *)
(* RunReport; what killed workers cost; and that every step is a step      *)
(* towards the end.                                                        *)
(***************************************************************************)
EXTENDS Runner, TLAPS, FiniteSetTheorems

(* Nothing has run, no file exists: the initial state is well typed. *)
LEMMA TypeInit == Init => TypeOK
<1> SUFFICES ASSUME Init PROVE TypeOK
  OBVIOUS
<1>1. faults \in [kills : 0 .. MaxKills, interrupts : 0 .. MaxInterrupts]
  BY RunnerAssumption DEF Init
<1>2. count \in [Runs -> [pass : Nat, fail : Nat, skip : Nat]]
  BY DEF Init
<1>3. summary \in Seq([test : Tests, says : Verdicts]) /\ csv \in Seq(Rows)
  BY DEF Init
<1> QED
  BY <1>1, <1>2, <1>3 DEF Init, TypeOK, Phases, WorkerStates, LogFile

(* The rows of a log are rows of the CSV file. *)
LEMMA RowsType == ASSUME TypeOK, NEW t \in Tests PROVE RowsOf(t) \in Seq(Rows)
<1>1. output[t] \in Nat
  BY DEF TypeOK
<1>2. RowsOf(t) \in [1 .. output[t] -> Rows]
  BY <1>1 DEF RowsOf, Rows
<1> QED
  BY <1>1, <1>2

(* Every step of a shell or a worker, a kill and a Ctrl-C keep the types. *)
LEMMA TypeStep == TypeOK /\ [Next]_vars => TypeOK'
<1> SUFFICES ASSUME TypeOK, [Next]_vars PROVE TypeOK'
  OBVIOUS
<1> USE DEF exec, coll
<1>1. ASSUME NEW r \in Runs, Start(r) PROVE TypeOK'
  BY <1>1 DEF TypeOK, Start, Phases
<1>2. ASSUME NEW r \in Runs, StartEmpty(r) PROVE TypeOK'
  BY <1>2 DEF TypeOK, StartEmpty, Phases
<1>3. ASSUME NEW r \in Runs, WriteHelper(r) PROVE TypeOK'
  BY <1>3 DEF TypeOK, WriteHelper, Phases
<1>4. ASSUME NEW r \in Runs, ChmodHelper(r) PROVE TypeOK'
  BY <1>4, ZenonT(40) DEF TypeOK, ChmodHelper, Phases
<1>5. ASSUME NEW r \in Runs, Spawn(r) PROVE TypeOK'
  BY <1>5 DEF TypeOK, Spawn, WorkerStates, Busy
<1>6. ASSUME NEW r \in Runs, EndExecute(r) PROVE TypeOK'
  BY <1>6 DEF TypeOK, EndExecute, Phases
<1>7. ASSUME NEW r \in Runs, BeginCollect(r) PROVE TypeOK'
  BY <1>7 DEF TypeOK, BeginCollect, Phases
<1>8. ASSUME NEW r \in Runs, Collect(r) PROVE TypeOK'
  <2>1. PICK t \in Tests :
          LET v == VerdictOf(log[t])
          IN  /\ unread'  = [unread EXCEPT ![r] = @ \ {t}]
              /\ verdict' = [verdict EXCEPT ![r][t] = v]
              /\ count'   = [count EXCEPT ![r][Counted(v)] = @ + 1]
              /\ summary' = Append(summary, [test |-> t, says |-> v])
              /\ csv'     = IF v = "PASS" THEN csv \o RowsOf(t) ELSE csv
    BY <1>8 DEF Collect
  <2>2. VerdictOf(log[t]) \in Verdicts
    BY DEF VerdictOf, Verdicts
  <2>3. Counted(VerdictOf(log[t])) \in {"pass", "fail", "skip"}
    BY DEF Counted
  <2>4. verdict' \in [Runs -> [Tests -> Verdicts \cup {"none"}]]
    BY <2>1, <2>2 DEF TypeOK
  <2>5. count' \in [Runs -> [pass : Nat, fail : Nat, skip : Nat]]
    <3>1. count[r] \in [pass : Nat, fail : Nat, skip : Nat]
      BY DEF TypeOK
    <3>2. [count[r] EXCEPT ![Counted(VerdictOf(log[t]))] = @ + 1]
            \in [pass : Nat, fail : Nat, skip : Nat]
      BY <3>1, <2>3
    <3> QED
      BY <2>1, <3>2 DEF TypeOK
  <2>6. summary' \in Seq([test : Tests, says : Verdicts]) /\ csv' \in Seq(Rows)
    <3>1. RowsOf(t) \in Seq(Rows)
      BY RowsType
    <3>2. csv \o RowsOf(t) \in Seq(Rows)
      BY <3>1 DEF TypeOK
    <3> QED
      BY <2>1, <2>2, <3>2 DEF TypeOK
  <2>7. unread' \in [Runs -> SUBSET Tests]
    BY <2>1 DEF TypeOK
  <2> QED
    BY <1>8, <2>4, <2>5, <2>6, <2>7 DEF TypeOK, Collect
<1>9. ASSUME NEW r \in Runs, EndCollect(r) PROVE TypeOK'
  BY <1>9 DEF TypeOK, EndCollect, Phases
<1>10. ASSUME NEW r \in Runs, Interrupt(r) PROVE TypeOK'
  <2>1. faults' \in [kills : 0 .. MaxKills, interrupts : 0 .. MaxInterrupts]
    <3>1. faults \in [kills : 0 .. MaxKills, interrupts : 0 .. MaxInterrupts]
      BY DEF TypeOK
    <3>2. faults.interrupts + 1 \in 0 .. MaxInterrupts
      BY <3>1, <1>10, RunnerAssumption DEF Interrupt
    <3> QED
      BY <3>1, <3>2, <1>10 DEF Interrupt
  <2>2. worker' \in [Runs -> [Tests -> WorkerStates]]
    BY <1>10 DEF TypeOK, Interrupt, WorkerStates
  <2> QED
    BY <1>10, <2>1, <2>2 DEF TypeOK, Interrupt, Phases
<1>11. ASSUME NEW r \in Runs, NEW t \in Tests, OpenHelper(r, t) PROVE TypeOK'
  BY <1>11 DEF TypeOK, OpenHelper, WorkerStates, Busy
<1>12. ASSUME NEW r \in Runs, NEW t \in Tests, TestEnds(r, t) PROVE TypeOK'
  BY <1>12 DEF TypeOK, TestEnds, WorkerStates, Busy, LogFile
<1>13. ASSUME NEW r \in Runs, NEW t \in Tests, WriteHeader(r, t) PROVE TypeOK'
  <2>1. PICK k \in 0 .. Prints[t] : output' = [output EXCEPT ![t] = k]
    BY <1>13 DEF WriteHeader
  <2>2. output' \in [Tests -> Nat]
    BY <2>1, RunnerAssumption DEF TypeOK
  <2>3. log' \in [Tests -> LogFile]
    BY <1>13 DEF TypeOK, WriteHeader, LogFile
  <2> QED
    BY <1>13, <2>2, <2>3 DEF TypeOK, WriteHeader, WorkerStates, Busy
<1>13a. ASSUME NEW r \in Runs, NEW t \in Tests, WriteRest(r, t) PROVE TypeOK'
  <2>1. PICK k \in output[t] .. Prints[t] : output' = [output EXCEPT ![t] = k]
    BY <1>13a DEF WriteRest
  <2>2. output' \in [Tests -> Nat]
    BY <2>1, RunnerAssumption DEF TypeOK
  <2> QED
    BY <1>13a, <2>2 DEF TypeOK, WriteRest, WorkerStates
<1>14. ASSUME NEW r \in Runs, NEW t \in Tests, Kill(r, t) PROVE TypeOK'
  <2>1. faults' \in [kills : 0 .. MaxKills, interrupts : 0 .. MaxInterrupts]
    <3>1. faults \in [kills : 0 .. MaxKills, interrupts : 0 .. MaxInterrupts]
      BY DEF TypeOK
    <3>2. faults.kills + 1 \in 0 .. MaxKills
      BY <3>1, <1>14, RunnerAssumption DEF Kill
    <3> QED
      BY <3>1, <3>2, <1>14 DEF Kill
  <2>2. worker' \in [Runs -> [Tests -> WorkerStates]]
    BY <1>14 DEF TypeOK, Kill, WorkerStates
  <2>3. stopped' \in [Runs -> BOOLEAN]
    BY <1>14 DEF TypeOK, Kill, Serial
  <2> QED
    BY <1>14, <2>1, <2>2, <2>3 DEF TypeOK, Kill
<1>15. CASE UNCHANGED vars
  BY <1>15 DEF TypeOK, vars
<1> QED
  BY <1>1, <1>2, <1>3, <1>4, <1>5, <1>6, <1>7, <1>8, <1>9, <1>10, <1>11,
     <1>12, <1>13, <1>13a, <1>14, <1>15 DEF Next, Shell, Worker

(* Every reachable state has the types of TypeOK, whatever overlaps, is    *)
(* killed or interrupted.                                                  *)
THEOREM TypeCorrect == Spec => []TypeOK
  BY TypeInit, TypeStep, PTL DEF Spec

-----------------------------------------------------------------------------
(***************************************************************************)
(* The helper script, when no two invocations use the logdir at a time.    *)
(* Workers may be killed and invocations interrupted.                      *)
(***************************************************************************)

(* At most one shell is alive. *)
OneAtATime ==
  \A q, r \in Runs : phase[q] \in Live /\ phase[r] \in Live => q = r

(* Workers exist, and find their script, only while the pool runs. *)
PoolHasHelper ==
  \A r \in Runs :
    /\ phase[r] \in {"chmod", "execute"} => helper
    /\ \A t \in Tests : worker[r][t] \in Busy => phase[r] = "execute"

(* The output follows the header: a worker that copies it has written the  *)
(* exit status.                                                            *)
CopyHasHeader ==
  \A r \in Runs, t \in Tests : worker[r][t] = "copying" => log[t] = outcome[r][t]

AloneInv == TypeOK /\ OneAtATime /\ PoolHasHelper /\ CopyHasHeader

(* Every step of an invocation that is alone keeps it alone, its helper in *)
(* place and its logs in order.                                            *)
LEMMA AloneStep ==
  ASSUME ~Overlap, AloneInv, [Next]_vars PROVE (OneAtATime /\ PoolHasHelper /\ CopyHasHeader)'
<1> USE DEF AloneInv, exec, coll
<1>1. ASSUME NEW r \in Runs, Start(r) PROVE (OneAtATime /\ PoolHasHelper /\ CopyHasHeader)'
  <2>1. OneAtATime'
    BY <1>1 DEF Start, TypeOK, OneAtATime, Live
  <2>2. PoolHasHelper'
    BY <1>1 DEF Start, TypeOK, PoolHasHelper, OneAtATime, Live, Busy
  <2>3. CopyHasHeader'
    BY <1>1 DEF Start, TypeOK, CopyHasHeader
  <2> QED
    BY <2>1, <2>2, <2>3
<1>2. ASSUME NEW r \in Runs, StartEmpty(r) PROVE (OneAtATime /\ PoolHasHelper /\ CopyHasHeader)'
  <2>1. OneAtATime'
    BY <1>2 DEF StartEmpty, TypeOK, OneAtATime, Live
  <2>2. PoolHasHelper'
    BY <1>2 DEF StartEmpty, TypeOK, PoolHasHelper, OneAtATime, Live, Busy
  <2>3. CopyHasHeader'
    BY <1>2 DEF StartEmpty, TypeOK, CopyHasHeader
  <2> QED
    BY <2>1, <2>2, <2>3
<1>3. ASSUME NEW r \in Runs, WriteHelper(r) PROVE (OneAtATime /\ PoolHasHelper /\ CopyHasHeader)'
  <2>1. OneAtATime'
    BY <1>3 DEF WriteHelper, TypeOK, OneAtATime, Live
  <2>2. PoolHasHelper'
    BY <1>3 DEF WriteHelper, TypeOK, PoolHasHelper, OneAtATime, Live, Busy
  <2>3. CopyHasHeader'
    BY <1>3 DEF WriteHelper, TypeOK, CopyHasHeader
  <2> QED
    BY <2>1, <2>2, <2>3
<1>4. ASSUME NEW r \in Runs, ChmodHelper(r) PROVE (OneAtATime /\ PoolHasHelper /\ CopyHasHeader)'
  <2>1. OneAtATime'
    BY <1>4 DEF ChmodHelper, TypeOK, OneAtATime, Live
  <2>2. PoolHasHelper'
    BY <1>4 DEF ChmodHelper, TypeOK, PoolHasHelper, OneAtATime, Live, Busy
  <2>3. CopyHasHeader'
    BY <1>4 DEF ChmodHelper, TypeOK, CopyHasHeader
  <2> QED
    BY <2>1, <2>2, <2>3
<1>5. ASSUME NEW r \in Runs, Spawn(r) PROVE (OneAtATime /\ PoolHasHelper /\ CopyHasHeader)'
  <2>1. OneAtATime'
    BY <1>5 DEF Spawn, TypeOK, OneAtATime, Live
  <2>2. PoolHasHelper'
    BY <1>5 DEF Spawn, TypeOK, PoolHasHelper, OneAtATime, Live, Busy
  <2>3. CopyHasHeader'
    BY <1>5 DEF Spawn, TypeOK, CopyHasHeader
  <2> QED
    BY <2>1, <2>2, <2>3
<1>6. ASSUME NEW r \in Runs, EndExecute(r) PROVE (OneAtATime /\ PoolHasHelper /\ CopyHasHeader)'
  <2>1. OneAtATime'
    BY <1>6 DEF EndExecute, TypeOK, OneAtATime, Live
  <2>2. PoolHasHelper'
    BY <1>6 DEF EndExecute, TypeOK, PoolHasHelper, OneAtATime, Live, Busy, Active
  <2>3. CopyHasHeader'
    BY <1>6 DEF EndExecute, TypeOK, CopyHasHeader
  <2> QED
    BY <2>1, <2>2, <2>3
<1>7. ASSUME NEW r \in Runs, BeginCollect(r) PROVE (OneAtATime /\ PoolHasHelper /\ CopyHasHeader)'
  <2>1. OneAtATime'
    BY <1>7 DEF BeginCollect, TypeOK, OneAtATime, Live
  <2>2. PoolHasHelper'
    BY <1>7 DEF BeginCollect, TypeOK, PoolHasHelper, OneAtATime, Live, Busy
  <2>3. CopyHasHeader'
    BY <1>7 DEF BeginCollect, TypeOK, CopyHasHeader
  <2> QED
    BY <2>1, <2>2, <2>3
<1>8. ASSUME NEW r \in Runs, Collect(r) PROVE (OneAtATime /\ PoolHasHelper /\ CopyHasHeader)'
  <2>1. OneAtATime'
    BY <1>8 DEF Collect, TypeOK, OneAtATime, Live
  <2>2. PoolHasHelper'
    BY <1>8 DEF Collect, TypeOK, PoolHasHelper, OneAtATime, Live, Busy
  <2>3. CopyHasHeader'
    BY <1>8 DEF Collect, TypeOK, CopyHasHeader
  <2> QED
    BY <2>1, <2>2, <2>3
<1>9. ASSUME NEW r \in Runs, EndCollect(r) PROVE (OneAtATime /\ PoolHasHelper /\ CopyHasHeader)'
  <2>1. OneAtATime'
    BY <1>9 DEF EndCollect, TypeOK, OneAtATime, Live
  <2>2. PoolHasHelper'
    BY <1>9 DEF EndCollect, TypeOK, PoolHasHelper, OneAtATime, Live, Busy
  <2>3. CopyHasHeader'
    BY <1>9 DEF EndCollect, TypeOK, CopyHasHeader
  <2> QED
    BY <2>1, <2>2, <2>3
<1>10. ASSUME NEW r \in Runs, Interrupt(r) PROVE (OneAtATime /\ PoolHasHelper /\ CopyHasHeader)'
  <2>1. OneAtATime'
    BY <1>10 DEF Interrupt, TypeOK, OneAtATime, Live
  <2>2. PoolHasHelper'
    BY <1>10 DEF Interrupt, TypeOK, PoolHasHelper, OneAtATime, Live, Busy, Active
  <2>3. CopyHasHeader'
    BY <1>10 DEF Interrupt, TypeOK, CopyHasHeader
  <2> QED
    BY <2>1, <2>2, <2>3
<1>11. ASSUME NEW r \in Runs, NEW t \in Tests, OpenHelper(r, t)
      PROVE (OneAtATime /\ PoolHasHelper /\ CopyHasHeader)'
  <2>1. OneAtATime' /\ PoolHasHelper'
    BY <1>11 DEF OpenHelper, TypeOK, OneAtATime, PoolHasHelper, Busy
  <2>2. CopyHasHeader'
    BY <1>11 DEF OpenHelper, TypeOK, CopyHasHeader
  <2> QED
    BY <2>1, <2>2
<1>12. ASSUME NEW r \in Runs, NEW t \in Tests, TestEnds(r, t)
      PROVE (OneAtATime /\ PoolHasHelper /\ CopyHasHeader)'
  <2>1. OneAtATime' /\ PoolHasHelper'
    BY <1>12 DEF TestEnds, TypeOK, OneAtATime, PoolHasHelper, Busy
  <2>2. CopyHasHeader'
    BY <1>12 DEF TestEnds, TypeOK, CopyHasHeader, OneAtATime, PoolHasHelper, Live, Busy
  <2> QED
    BY <2>1, <2>2
<1>13. ASSUME NEW r \in Runs, NEW t \in Tests, WriteHeader(r, t)
      PROVE (OneAtATime /\ PoolHasHelper /\ CopyHasHeader)'
  <2>1. OneAtATime' /\ PoolHasHelper'
    BY <1>13 DEF WriteHeader, TypeOK, OneAtATime, PoolHasHelper, Busy
  <2>2. CopyHasHeader'
    BY <1>13 DEF WriteHeader, TypeOK, CopyHasHeader, OneAtATime, PoolHasHelper, Live, Busy
  <2> QED
    BY <2>1, <2>2
<1>13a. ASSUME NEW r \in Runs, NEW t \in Tests, WriteRest(r, t)
      PROVE (OneAtATime /\ PoolHasHelper /\ CopyHasHeader)'
  <2>1. OneAtATime' /\ PoolHasHelper'
    BY <1>13a DEF WriteRest, TypeOK, OneAtATime, PoolHasHelper, Busy
  <2>2. CopyHasHeader'
    BY <1>13a DEF WriteRest, TypeOK, CopyHasHeader
  <2> QED
    BY <2>1, <2>2
<1>14. ASSUME NEW r \in Runs, NEW t \in Tests, Kill(r, t)
      PROVE (OneAtATime /\ PoolHasHelper /\ CopyHasHeader)'
  <2>1. OneAtATime' /\ PoolHasHelper'
    BY <1>14 DEF Kill, TypeOK, OneAtATime, PoolHasHelper, Busy
  <2>2. CopyHasHeader'
    BY <1>14 DEF Kill, TypeOK, CopyHasHeader
  <2> QED
    BY <2>1, <2>2
<1>15. CASE UNCHANGED vars
  BY <1>15 DEF vars, OneAtATime, PoolHasHelper, CopyHasHeader
<1> QED
  BY <1>1, <1>2, <1>3, <1>4, <1>5, <1>6, <1>7, <1>8, <1>9, <1>10, <1>11, <1>12, <1>13, <1>13a, <1>14, <1>15
  DEF Next, Shell, Worker

(* Without overlap no worker finds .run_one.sh missing                     *)
(* (HelperOutlivesWorkers).                                                *)
THEOREM HelperIsKept == ~Overlap => (Spec => []HelperOutlivesWorkers)
<1> SUFFICES ASSUME ~Overlap PROVE Spec => []HelperOutlivesWorkers
  OBVIOUS
<1>1. Init => AloneInv
  BY TypeInit DEF Init, AloneInv, OneAtATime, PoolHasHelper, CopyHasHeader, Live, Busy
<1>2. AloneInv /\ [Next]_vars => AloneInv'
  BY TypeStep, AloneStep DEF AloneInv
<1>3. AloneInv => HelperOutlivesWorkers
  BY DEF AloneInv, PoolHasHelper, HelperOutlivesWorkers, Active
<1> QED
  BY <1>1, <1>2, <1>3, PTL DEF Spec

-----------------------------------------------------------------------------
(***************************************************************************)
(* Fresh verdicts.  The hypothesis names what must not happen: another     *)
(* invocation on the same logdir, a worker killed by a signal, a command   *)
(* that reads the serial loop's input.  Interrupted invocations are        *)
(* allowed: what they leave behind is overwritten before it is read.       *)
(***************************************************************************)
Undisturbed == ~Overlap /\ MaxKills = 0 /\ StdinReaders = {}

(* FreshVerdict is not inductive.  What makes it so, in the order in which *)
(* an invocation passes through it:                                        *)
NothingStopped ==
  /\ faults.kills = 0
  /\ \A r \in Runs : stopped[r] = FALSE

(* The log of a test is what the test did in this invocation, and that of  *)
(* a test that passed is complete.                                         *)
Settled(r, t) == /\ worker[r][t] \notin Busy
                 /\ log[t] = outcome[r][t]
                 /\ outcome[r][t] = "ok" => output[t] = Prints[t]

(* No test is lost: it waits, it runs, or its own log is on disk. *)
NoTestLost ==
  \A r \in Runs :
    /\ phase[r] = "execute" =>
         \A t \in list[r] : \/ t \in todo[r]
                            \/ worker[r][t] \in Busy
                            \/ Settled(r, t)
    /\ phase[r] \in {"cleanup", "collect"} => \A t \in list[r] : Settled(r, t)
    /\ phase[r] = "collect" => unread[r] \subseteq list[r]

(* Nothing is reported before the pool has ended. *)
ReportAfterPool ==
  \A r \in Runs :
    phase[r] \in {"idle", "prepare", "chmod", "execute", "cleanup"} =>
      \A t \in Tests : verdict[r][t] = "none"

FreshInv == /\ TypeOK
            /\ OneAtATime
            /\ NothingStopped
            /\ PoolHasHelper
            /\ CopyHasHeader
            /\ NoTestLost
            /\ ReportAfterPool
            /\ FreshVerdict

(* FreshInv holds before the first invocation. *)
LEMMA FreshInit == ASSUME Undisturbed, Init PROVE FreshInv
<1>1. TypeOK
  BY TypeInit
<1> QED
  BY <1>1, RunnerAssumption
  DEF Init, FreshInv, OneAtATime, NothingStopped, PoolHasHelper, CopyHasHeader,
      NoTestLost, ReportAfterPool, FreshVerdict, Live, Busy

(* Every step of an undisturbed invocation, and a Ctrl-C, keep FreshInv. *)
LEMMA FreshStep == ASSUME Undisturbed, FreshInv, [Next]_vars PROVE FreshInv'
<1> USE DEF FreshInv, exec, coll
<1>0. TypeOK'
  BY TypeStep
<1>alone. OneAtATime' /\ PoolHasHelper' /\ CopyHasHeader'
  BY AloneStep DEF AloneInv, Undisturbed
<1> DEFINE Rest == /\ NothingStopped /\ NoTestLost
                   /\ ReportAfterPool /\ FreshVerdict
<1>1. ASSUME NEW r \in Runs, Start(r) PROVE Rest'
  <2>1. NothingStopped'
    BY <1>1 DEF Start, TypeOK, NothingStopped
  <2>2. NoTestLost'
    BY <1>1 DEF Start, TypeOK, NoTestLost, OneAtATime, NothingStopped, Settled, Live, Busy
  <2>3. ReportAfterPool'
    BY <1>1 DEF Start, TypeOK, ReportAfterPool
  <2>4. FreshVerdict'
    BY <1>1 DEF Start, TypeOK, FreshVerdict, ReportAfterPool, NoTestLost, Settled
  <2> QED
    BY <2>1, <2>2, <2>3, <2>4
<1>2. ASSUME NEW r \in Runs, StartEmpty(r) PROVE Rest'
  <2>1. NothingStopped'
    BY <1>2 DEF StartEmpty, TypeOK, NothingStopped
  <2>2. NoTestLost'
    BY <1>2 DEF StartEmpty, TypeOK, NoTestLost, OneAtATime, NothingStopped, Settled, Live, Busy
  <2>3. ReportAfterPool'
    BY <1>2 DEF StartEmpty, TypeOK, ReportAfterPool
  <2>4. FreshVerdict'
    BY <1>2 DEF StartEmpty, TypeOK, FreshVerdict, ReportAfterPool, NoTestLost, Settled
  <2> QED
    BY <2>1, <2>2, <2>3, <2>4
<1>3. ASSUME NEW r \in Runs, WriteHelper(r) PROVE Rest'
  <2>1. NothingStopped'
    BY <1>3 DEF WriteHelper, TypeOK, NothingStopped
  <2>2. NoTestLost'
    BY <1>3 DEF WriteHelper, TypeOK, NoTestLost, OneAtATime, NothingStopped, Settled, Live, Busy
  <2>3. ReportAfterPool'
    BY <1>3 DEF WriteHelper, TypeOK, ReportAfterPool
  <2>4. FreshVerdict'
    BY <1>3 DEF WriteHelper, TypeOK, FreshVerdict, ReportAfterPool, NoTestLost, Settled
  <2> QED
    BY <2>1, <2>2, <2>3, <2>4
<1>4. ASSUME NEW r \in Runs, ChmodHelper(r) PROVE Rest'
  <2>0. /\ phase[r] = "chmod"
        /\ phase' = [phase EXCEPT ![r] = "execute"]
        /\ todo'  = [todo EXCEPT ![r] = list[r]]
        /\ UNCHANGED <<list, worker, outcome, stopped, helper, log, output, coll,
                       faults>>
    BY <1>4 DEF ChmodHelper, PoolHasHelper
  <2>1. NothingStopped'
    BY <2>0 DEF TypeOK, NothingStopped
  <2>2. NoTestLost'
    BY <2>0 DEF TypeOK, NoTestLost, OneAtATime, NothingStopped, Settled, Live, Busy
  <2>3. ReportAfterPool'
    BY <2>0 DEF TypeOK, ReportAfterPool
  <2>4. FreshVerdict'
    BY <2>0 DEF TypeOK, FreshVerdict, ReportAfterPool, NoTestLost, Settled
  <2> QED
    BY <2>1, <2>2, <2>3, <2>4
<1>5. ASSUME NEW r \in Runs, Spawn(r) PROVE Rest'
  <2>1. NothingStopped'
    BY <1>5 DEF Spawn, TypeOK, NothingStopped
  <2>2. NoTestLost'
    BY <1>5 DEF Spawn, TypeOK, NoTestLost, OneAtATime, NothingStopped, Settled, Live, Busy
  <2>3. ReportAfterPool'
    BY <1>5 DEF Spawn, TypeOK, ReportAfterPool
  <2>4. FreshVerdict'
    BY <1>5 DEF Spawn, TypeOK, FreshVerdict, ReportAfterPool, NoTestLost, Settled
  <2> QED
    BY <2>1, <2>2, <2>3, <2>4
<1>6. ASSUME NEW r \in Runs, EndExecute(r) PROVE Rest'
  <2>1. NothingStopped'
    BY <1>6 DEF EndExecute, TypeOK, NothingStopped
  <2>2. NoTestLost'
    BY <1>6 DEF EndExecute, TypeOK, NoTestLost, Active, OneAtATime, NothingStopped, Settled, Live, Busy
  <2>3. ReportAfterPool'
    BY <1>6 DEF EndExecute, TypeOK, ReportAfterPool
  <2>4. FreshVerdict'
    BY <1>6 DEF EndExecute, TypeOK, FreshVerdict, ReportAfterPool, NoTestLost, Settled
  <2> QED
    BY <2>1, <2>2, <2>3, <2>4
<1>7. ASSUME NEW r \in Runs, BeginCollect(r) PROVE Rest'
  <2>1. NothingStopped'
    BY <1>7 DEF BeginCollect, TypeOK, NothingStopped
  <2>2. NoTestLost'
    BY <1>7 DEF BeginCollect, TypeOK, NoTestLost, OneAtATime, NothingStopped, Settled, Live, Busy
  <2>3. ReportAfterPool'
    BY <1>7 DEF BeginCollect, TypeOK, ReportAfterPool
  <2>4. FreshVerdict'
    BY <1>7 DEF BeginCollect, TypeOK, FreshVerdict, ReportAfterPool, NoTestLost, Settled
  <2> QED
    BY <2>1, <2>2, <2>3, <2>4
<1>8. ASSUME NEW r \in Runs, Collect(r) PROVE Rest'
  <2>1. NothingStopped'
    BY <1>8 DEF Collect, TypeOK, NothingStopped
  <2>2. NoTestLost'
    BY <1>8 DEF Collect, TypeOK, NoTestLost, OneAtATime, NothingStopped, Settled, Live, Busy
  <2>3. ReportAfterPool'
    BY <1>8 DEF Collect, TypeOK, ReportAfterPool
  <2>4. FreshVerdict'
    <3>1. PICK t \in unread[r] :
            verdict' = [verdict EXCEPT ![r][t] = VerdictOf(log[t])]
      BY <1>8 DEF Collect, IsFirst
    <3>2. /\ t \in Tests /\ log[t] = outcome[r][t]
          /\ VerdictOf(log[t]) = "PASS" => output[t] = Prints[t]
      BY <1>8, <3>1 DEF Collect, NoTestLost, Settled, TypeOK, VerdictOf
    <3>3. UNCHANGED <<outcome, phase, output>>
      BY <1>8 DEF Collect
    <3>4. ASSUME NEW q \in Runs, NEW u \in Tests, verdict[q][u]' # "none"
          PROVE  /\ verdict'[q][u] = VerdictOf(outcome[q][u])
                 /\ phase[q] = "collect" /\ verdict'[q][u] = "PASS"
                      => output[u] = Prints[u]
      BY <3>1, <3>2, <3>4 DEF TypeOK, FreshVerdict
    <3> QED
      BY <3>3, <3>4 DEF FreshVerdict, VerdictOf
  <2> QED
    BY <2>1, <2>2, <2>3, <2>4
<1>9. ASSUME NEW r \in Runs, EndCollect(r) PROVE Rest'
  <2>1. NothingStopped'
    BY <1>9 DEF EndCollect, TypeOK, NothingStopped
  <2>2. NoTestLost'
    BY <1>9 DEF EndCollect, TypeOK, NoTestLost, OneAtATime, NothingStopped, Settled, Live, Busy
  <2>3. ReportAfterPool'
    BY <1>9 DEF EndCollect, TypeOK, ReportAfterPool
  <2>4. FreshVerdict'
    BY <1>9 DEF EndCollect, TypeOK, FreshVerdict, ReportAfterPool, NoTestLost, Settled
  <2> QED
    BY <2>1, <2>2, <2>3, <2>4
<1>10. ASSUME NEW r \in Runs, Interrupt(r) PROVE Rest'
  <2>1. NothingStopped'
    BY <1>10 DEF Interrupt, TypeOK, NothingStopped
  <2>2. NoTestLost'
    BY <1>10 DEF Interrupt, TypeOK, NoTestLost, OneAtATime, NothingStopped, Settled, Live, Busy
  <2>3. ReportAfterPool'
    BY <1>10 DEF Interrupt, TypeOK, ReportAfterPool
  <2>4. FreshVerdict'
    BY <1>10 DEF Interrupt, TypeOK, FreshVerdict, ReportAfterPool, NoTestLost, Settled
  <2> QED
    BY <2>1, <2>2, <2>3, <2>4
<1>11. ASSUME NEW r \in Runs, NEW t \in Tests, OpenHelper(r, t) PROVE Rest'
  <2>1. NothingStopped'
    BY <1>11 DEF OpenHelper, TypeOK, NothingStopped
  <2>2. NoTestLost'
    BY <1>11 DEF OpenHelper, TypeOK, NoTestLost, PoolHasHelper, OneAtATime, NothingStopped, Settled, Live, Busy
  <2>3. ReportAfterPool'
    BY <1>11 DEF OpenHelper, TypeOK, ReportAfterPool
  <2>4. FreshVerdict'
    BY <1>11 DEF OpenHelper, TypeOK, FreshVerdict, PoolHasHelper, OneAtATime, ReportAfterPool, Live, Busy
  <2> QED
    BY <2>1, <2>2, <2>3, <2>4
<1>12. ASSUME NEW r \in Runs, NEW t \in Tests, TestEnds(r, t) PROVE Rest'
  <2>1. NothingStopped'
    BY <1>12 DEF TestEnds, TypeOK, NothingStopped
  <2>2. NoTestLost'
    BY <1>12 DEF TestEnds, TypeOK, NoTestLost, PoolHasHelper, OneAtATime, NothingStopped, Settled, Live, Busy, Undisturbed
  <2>3. ReportAfterPool'
    BY <1>12 DEF TestEnds, TypeOK, ReportAfterPool
  <2>4. FreshVerdict'
    BY <1>12 DEF TestEnds, TypeOK, FreshVerdict, PoolHasHelper, OneAtATime, ReportAfterPool, Live, Busy
  <2> QED
    BY <2>1, <2>2, <2>3, <2>4
<1>13. ASSUME NEW r \in Runs, NEW t \in Tests, WriteHeader(r, t) PROVE Rest'
  <2>1. NothingStopped'
    BY <1>13 DEF WriteHeader, TypeOK, NothingStopped
  <2>2. NoTestLost'
    BY <1>13 DEF WriteHeader, TypeOK, NoTestLost, PoolHasHelper, OneAtATime, NothingStopped, Settled, Live, Busy
  <2>3. ReportAfterPool'
    BY <1>13 DEF WriteHeader, TypeOK, ReportAfterPool
  <2>4. FreshVerdict'
    BY <1>13 DEF WriteHeader, TypeOK, FreshVerdict, PoolHasHelper, OneAtATime, ReportAfterPool, Live, Busy
  <2> QED
    BY <2>1, <2>2, <2>3, <2>4
<1>13a. ASSUME NEW r \in Runs, NEW t \in Tests, WriteRest(r, t) PROVE Rest'
  <2>1. NothingStopped'
    BY <1>13a DEF WriteRest, TypeOK, NothingStopped
  <2>2. NoTestLost'
    BY <1>13a DEF WriteRest, TypeOK, NoTestLost, CopyHasHeader, PoolHasHelper, OneAtATime, NothingStopped, Settled, Live, Busy
  <2>3. ReportAfterPool'
    BY <1>13a DEF WriteRest, TypeOK, ReportAfterPool
  <2>4. FreshVerdict'
    BY <1>13a DEF WriteRest, TypeOK, FreshVerdict, PoolHasHelper, OneAtATime, ReportAfterPool, Live, Busy
  <2> QED
    BY <2>1, <2>2, <2>3, <2>4
<1>14. ASSUME NEW r \in Runs, NEW t \in Tests PROVE ~Kill(r, t)
  BY DEF Kill, Undisturbed, NothingStopped
<1>15. CASE UNCHANGED vars
  BY <1>0, <1>alone, <1>15 DEF vars, OneAtATime, NothingStopped, PoolHasHelper, CopyHasHeader,
    NoTestLost, ReportAfterPool, FreshVerdict, Settled
<1> QED
  BY <1>0, <1>alone, <1>1, <1>2, <1>3, <1>4, <1>5, <1>6, <1>7, <1>8, <1>9, <1>10, <1>11, <1>12, <1>13, <1>13a, <1>14, <1>15
  DEF Next, Shell, Worker

-----------------------------------------------------------------------------
(***************************************************************************)
(* Counters and exit status.  Nothing is assumed here: invocations may     *)
(* overlap, workers may be killed, shells interrupted.                     *)
(***************************************************************************)

(* While the loop of collect_results runs, exactly the lines it has read   *)
(* have a verdict.                                                         *)
ReadIsReported ==
  \A r \in Runs :
    phase[r] = "collect" =>
      /\ unread[r] \subseteq list[r]
      /\ \A t \in Tests : verdict[r][t] = "none" <=> t \notin list[r] \ unread[r]

(* The counters count the verdicts. *)
Tallied ==
  \A r \in Runs :
    /\ count[r].pass = Cardinality(Reported(r, {"PASS"}))
    /\ count[r].skip = Cardinality(Reported(r, {"TIMEOUT"}))
    /\ count[r].fail = Cardinality(Reported(r, {"FAIL", "MISSING"}))

(* Only an invocation that got to its end has the exit status 0. *)
OkIsEarned ==
  \A r \in Runs :
    status[r] = "ok" => /\ phase[r] = "done"
                        /\ Reported(r, {"PASS", "TIMEOUT"}) = list[r]

CountInv == TypeOK /\ ReportAfterPool /\ ReadIsReported /\ Tallied /\ OkIsEarned

(* Every set of reported tests is finite. *)
LEMMA ReportedFinite ==
  ASSUME NEW r \in Runs, NEW V
  PROVE  IsFiniteSet(Reported(r, V)) /\ Cardinality(Reported(r, V)) \in Nat
<1>1. Reported(r, V) \in SUBSET Tests
  BY DEF Reported
<1>2. IsFiniteSet(Reported(r, V))
  BY <1>1, RunnerAssumption, FS_Subset
<1> QED
  BY <1>2, FS_CardinalityType

(* Before the first invocation everything is 0 and nobody is done. *)
LEMMA CountInit == Init => CountInv
<1> SUFFICES ASSUME Init PROVE CountInv
  OBVIOUS
<1>1. \A r \in Runs : \A V : "none" \notin V => Reported(r, V) = {}
  BY DEF Init, Reported
<1>2. Tallied
  <2> SUFFICES ASSUME NEW r \in Runs
               PROVE  /\ count[r].pass = Cardinality(Reported(r, {"PASS"}))
                      /\ count[r].skip = Cardinality(Reported(r, {"TIMEOUT"}))
                      /\ count[r].fail = Cardinality(Reported(r, {"FAIL", "MISSING"}))
    BY DEF Tallied
  <2>1. /\ Reported(r, {"PASS"}) = {} /\ Reported(r, {"TIMEOUT"}) = {}
        /\ Reported(r, {"FAIL", "MISSING"}) = {}
    BY <1>1
  <2> QED
    BY <2>1, FS_EmptySet DEF Init
<1> QED
  BY <1>2, TypeInit DEF Init, CountInv, ReportAfterPool, ReadIsReported, OkIsEarned

(* Every step keeps the tally. *)
LEMMA CountStep == CountInv /\ [Next]_vars => CountInv'
<1> SUFFICES ASSUME CountInv, [Next]_vars PROVE CountInv'
  OBVIOUS
<1> USE DEF CountInv, exec, coll
<1>0. TypeOK'
  BY TypeStep
<1> DEFINE Rest == ReportAfterPool /\ ReadIsReported /\ Tallied /\ OkIsEarned
<1>1. ASSUME UNCHANGED <<verdict, count>> PROVE Tallied'
  BY <1>1 DEF Tallied, Reported
<1>2. ASSUME NEW r \in Runs, Start(r) PROVE Rest'
  <2>1. Tallied'
    BY <1>1, <1>2 DEF Start
  <2>2. ReportAfterPool' /\ ReadIsReported'
    BY <1>2 DEF Start, TypeOK, ReportAfterPool, ReadIsReported
  <2>3. OkIsEarned'
    BY <1>2 DEF Start, TypeOK, OkIsEarned, Reported
  <2> QED
    BY <2>1, <2>2, <2>3
<1>3. ASSUME NEW r \in Runs, StartEmpty(r) PROVE Rest'
  <2>1. Tallied'
    BY <1>1, <1>3 DEF StartEmpty
  <2>2. ReportAfterPool' /\ ReadIsReported'
    BY <1>3 DEF StartEmpty, TypeOK, ReportAfterPool, ReadIsReported
  <2>3. OkIsEarned'
    BY <1>3 DEF StartEmpty, TypeOK, OkIsEarned, Reported
  <2> QED
    BY <2>1, <2>2, <2>3
<1>4. ASSUME NEW r \in Runs, NEW p \in {"chmod", "execute", "cleanup"},
             phase[r] \in {"prepare", "chmod", "execute"},
             phase' = [phase EXCEPT ![r] = p],
             UNCHANGED <<list, coll, status>>
      PROVE  Rest'
  <2>1. Tallied'
    BY <1>1, <1>4
  <2>2. ReportAfterPool' /\ ReadIsReported'
    BY <1>4 DEF TypeOK, ReportAfterPool, ReadIsReported
  <2>3. OkIsEarned'
    BY <1>4 DEF TypeOK, OkIsEarned, Reported
  <2> QED
    BY <2>1, <2>2, <2>3
<1>5. ASSUME NEW r \in Runs, NEW p \in {"done", "interrupted"},
             phase[r] \in Live,
             phase' = [phase EXCEPT ![r] = p],
             status' = [status EXCEPT ![r] = "failed"],
             UNCHANGED <<list, coll>>
      PROVE  Rest'
  <2>1. Tallied'
    BY <1>1, <1>5
  <2>2. ReportAfterPool' /\ ReadIsReported'
    BY <1>5 DEF TypeOK, ReportAfterPool, ReadIsReported, Live
  <2>3. OkIsEarned'
    BY <1>5 DEF TypeOK, OkIsEarned, Reported, Live
  <2> QED
    BY <2>1, <2>2, <2>3
<1>6. ASSUME NEW r \in Runs, WriteHelper(r) \/ ChmodHelper(r) \/ EndExecute(r)
      PROVE  Rest'
  BY <1>4, <1>5, <1>6 DEF WriteHelper, ChmodHelper, EndExecute, Live
<1>7. ASSUME NEW r \in Runs, BeginCollect(r) PROVE Rest'
  <2>1. Tallied'
    BY <1>1, <1>7 DEF BeginCollect
  <2>2. ReportAfterPool' /\ ReadIsReported'
    BY <1>7 DEF BeginCollect, TypeOK, ReportAfterPool, ReadIsReported
  <2>3. OkIsEarned'
    BY <1>7 DEF BeginCollect, TypeOK, OkIsEarned, Reported
  <2> QED
    BY <2>1, <2>2, <2>3
<1>8. ASSUME NEW r \in Runs, Collect(r) PROVE Rest'
  <2>1. PICK t \in Tests :
          /\ IsFirst(t, unread[r])
          /\ unread'  = [unread EXCEPT ![r] = @ \ {t}]
          /\ verdict' = [verdict EXCEPT ![r][t] = VerdictOf(log[t])]
          /\ count'   = [count EXCEPT ![r][Counted(VerdictOf(log[t]))] = @ + 1]
    BY <1>8 DEF Collect
  <2>2. PICK v \in Verdicts : v = VerdictOf(log[t])
    BY DEF VerdictOf, Verdicts
  <2>3. t \in unread[r] /\ verdict[r][t] = "none"
    BY <1>8, <2>1 DEF Collect, IsFirst, ReadIsReported
  <2>4. verdict' = [verdict EXCEPT ![r][t] = v]
        /\ count' = [count EXCEPT ![r][Counted(v)] = @ + 1]
    BY <2>1, <2>2
  <2>5. ReportAfterPool'
    BY <1>8, <2>4 DEF Collect, TypeOK, ReportAfterPool
  <2>6. ReadIsReported'
    BY <1>8, <2>1, <2>2, <2>3, <2>4 DEF Collect, TypeOK, ReadIsReported, Verdicts
  <2>7. Tallied'
    <3>1. ASSUME NEW q \in Runs, q # r
          PROVE  /\ count'[q] = count[q]
                 /\ \A V : Reported(q, V)' = Reported(q, V)
      BY <2>4, <3>1 DEF TypeOK, Reported
    <3>2. /\ count'[r].pass = Cardinality(Reported(r, {"PASS"})')
          /\ count'[r].skip = Cardinality(Reported(r, {"TIMEOUT"})')
          /\ count'[r].fail = Cardinality(Reported(r, {"FAIL", "MISSING"})')
      <4>1. count[r] \in [pass : Nat, fail : Nat, skip : Nat]
        BY DEF TypeOK
      <4>2. count'[r] = [count[r] EXCEPT ![Counted(v)] = @ + 1]
        BY <2>4 DEF TypeOK
      <4>3. /\ count'[r].pass = IF v = "PASS" THEN count[r].pass + 1 ELSE count[r].pass
            /\ count'[r].skip = IF v = "TIMEOUT" THEN count[r].skip + 1 ELSE count[r].skip
            /\ count'[r].fail = IF v \in {"FAIL", "MISSING"} THEN count[r].fail + 1
                                                            ELSE count[r].fail
        BY <2>2, <4>1, <4>2 DEF Counted, Verdicts
      <4>4. ASSUME NEW V, "none" \notin V
            PROVE  Cardinality(Reported(r, V)') =
                     IF v \in V THEN Cardinality(Reported(r, V)) + 1
                                ELSE Cardinality(Reported(r, V))
        <5>1. t \notin Reported(r, V)
          BY <2>3, <4>4 DEF Reported
        <5>2. CASE v \in V
          <6>1. Reported(r, V)' = Reported(r, V) \cup {t}
            BY <2>4, <5>2 DEF Reported, TypeOK
          <6>2. Cardinality(Reported(r, V) \cup {t}) = Cardinality(Reported(r, V)) + 1
            BY <5>1, ReportedFinite, FS_AddElement
          <6> QED
            BY <5>2, <6>1, <6>2
        <5>3. CASE v \notin V
          <6>1. Reported(r, V)' = Reported(r, V)
            BY <2>4, <5>1, <5>3 DEF Reported, TypeOK
          <6> QED
            BY <5>3, <6>1
        <5> QED
          BY <5>2, <5>3
      <4> QED
        BY <4>3, <4>4 DEF Tallied
    <3>3. ASSUME NEW q \in Runs
          PROVE  /\ count'[q].pass = Cardinality(Reported(q, {"PASS"})')
                 /\ count'[q].skip = Cardinality(Reported(q, {"TIMEOUT"})')
                 /\ count'[q].fail = Cardinality(Reported(q, {"FAIL", "MISSING"})')
      BY <3>1, <3>2 DEF Tallied
    <3> QED
      BY <3>3 DEF Tallied
  <2>8. OkIsEarned'
    <3>1. ASSUME NEW q \in Runs, q # r PROVE \A V : Reported(q, V)' = Reported(q, V)
      BY <2>4, <3>1 DEF TypeOK, Reported
    <3>2. phase[r] = "collect" /\ UNCHANGED <<phase, list, status>>
      BY <1>8 DEF Collect
    <3> QED
      BY <3>1, <3>2 DEF OkIsEarned
  <2> QED
    BY <2>5, <2>6, <2>7, <2>8
<1>9. ASSUME NEW r \in Runs, EndCollect(r) PROVE Rest'
  <2>1. Tallied'
    BY <1>1, <1>9 DEF EndCollect
  <2>2. ReportAfterPool' /\ ReadIsReported'
    BY <1>9 DEF EndCollect, TypeOK, ReportAfterPool, ReadIsReported
  <2>3. count[r].fail = 0 => Reported(r, {"PASS", "TIMEOUT"}) = list[r]
    <3> SUFFICES ASSUME count[r].fail = 0
                 PROVE  Reported(r, {"PASS", "TIMEOUT"}) = list[r]
      OBVIOUS
    <3>1. Reported(r, {"FAIL", "MISSING"}) = {}
      BY ReportedFinite, FS_EmptySet DEF Tallied
    <3>2. \A t \in Tests : verdict[r][t] \notin {"FAIL", "MISSING"}
      BY <3>1 DEF Reported
    <3>3. \A t \in Tests : verdict[r][t] = "none" <=> t \notin list[r]
      BY <1>9 DEF EndCollect, ReadIsReported
    <3> QED
      BY <3>2, <3>3 DEF Reported, TypeOK, Verdicts
  <2>4. OkIsEarned'
    BY <1>9, <2>3 DEF EndCollect, TypeOK, OkIsEarned, Reported
  <2> QED
    BY <2>1, <2>2, <2>4
<1>10. ASSUME NEW r \in Runs, Interrupt(r) PROVE Rest'
  BY <1>5, <1>10 DEF Interrupt
<1>11. ASSUME UNCHANGED <<phase, list, coll, status>> PROVE Rest'
  <2>1. Tallied'
    BY <1>1, <1>11
  <2>2. ReportAfterPool' /\ ReadIsReported'
    BY <1>11 DEF ReportAfterPool, ReadIsReported
  <2>3. OkIsEarned'
    BY <1>11 DEF OkIsEarned, Reported
  <2> QED
    BY <2>1, <2>2, <2>3
<1>12. ASSUME NEW r \in Runs, NEW t \in Tests, Worker(r, t) \/ Kill(r, t)
       PROVE  Rest'
  <2>1. UNCHANGED <<phase, list, coll, status>>
    BY <1>12 DEF Worker, OpenHelper, TestEnds, WriteHeader, WriteRest, Kill
  <2> QED
    BY <1>11, <2>1
<1>13. ASSUME NEW r \in Runs, Spawn(r) PROVE Rest'
  BY <1>11, <1>13 DEF Spawn
<1>14. CASE UNCHANGED vars
  BY <1>0, <1>11, <1>14 DEF vars
<1> QED
  BY <1>0, <1>2, <1>3, <1>6, <1>7, <1>8, <1>9, <1>10, <1>12, <1>13, <1>14
  DEF Next, Shell

(* Whatever overlaps, is killed or is interrupted: pass, fail_count and    *)
(* skip count what was reported, and an exit status of 0 means that the    *)
(* whole list was reported without FAIL or MISSING (CountsMatch).          *)
THEOREM CountersAreRight == Spec => []CountsMatch
<1>1. CountInv => CountsMatch
  BY DEF CountInv, Tallied, OkIsEarned, CountsMatch
<1> QED
  BY <1>1, CountInit, CountStep, PTL DEF Spec

-----------------------------------------------------------------------------
(***************************************************************************)
(* Every PASS has a witness.  Nothing is assumed here either.              *)
(***************************************************************************)

(* A line of the list is handed out once: what waits has no worker, and    *)
(* nothing has a worker before the pool starts.                            *)
HandedOutOnce ==
  \A r \in Runs, t \in Tests :
    phase[r] \in {"idle", "prepare", "chmod"} \/ t \in todo[r]
      => worker[r][t] = "none"

(* A command has no exit status before it ends, so none is overwritten.    *)
NoStatusYet ==
  \A r \in Runs, t \in Tests :
    worker[r][t] \in {"none", "starting", "running"} => outcome[r][t] = Unknown

(* A log that says 0 was written by an invocation whose command exited 0.  *)
OkLogHasWitness ==
  \A t \in Tests : log[t] = "ok" => \E q \in Runs : outcome[q][t] = "ok"

WitnessInv ==
  TypeOK /\ HandedOutOnce /\ NoStatusYet /\ OkLogHasWitness /\ PassHasWitness

(* Nothing has run and there is no log. *)
LEMMA WitnessInit == Init => WitnessInv
  BY TypeInit
  DEF Init, WitnessInv, HandedOutOnce, NoStatusYet, OkLogHasWitness,
      PassHasWitness, NoLog

(* No exit status is lost, no log and no verdict is made up. *)
LEMMA WitnessStep == WitnessInv /\ [Next]_vars => WitnessInv'
<1> SUFFICES ASSUME WitnessInv, [Next]_vars PROVE WitnessInv'
  OBVIOUS
<1> USE DEF WitnessInv, exec, coll
<1>0. TypeOK'
  BY TypeStep
<1> DEFINE Workers   == HandedOutOnce /\ NoStatusYet
           Witnesses == OkLogHasWitness /\ PassHasWitness
<1>1. ASSUME UNCHANGED <<outcome, log, verdict>> PROVE Witnesses'
  BY <1>1 DEF OkLogHasWitness, PassHasWitness
<1>2. ASSUME UNCHANGED exec, NEW r \in Runs, NEW p \in Phases,
             phase' = [phase EXCEPT ![r] = p],
             p \in {"idle", "prepare", "chmod"} =>
               phase[r] \in {"idle", "prepare", "chmod"}
      PROVE  Workers'
  BY <1>2 DEF TypeOK, HandedOutOnce, NoStatusYet
<1>3. ASSUME NEW r \in Runs,
             Start(r) \/ StartEmpty(r) \/ WriteHelper(r) \/ EndExecute(r)
               \/ EndCollect(r)
      PROVE  Workers' /\ Witnesses'
  <2>1. UNCHANGED <<outcome, log, verdict>>
    BY <1>3 DEF Start, StartEmpty, WriteHelper, EndExecute, EndCollect
  <2>2. Workers'
    BY <1>2, <1>3 DEF Start, StartEmpty, WriteHelper, EndExecute, EndCollect, Phases
  <2> QED
    BY <1>1, <2>1, <2>2
<1>4. ASSUME NEW r \in Runs, ChmodHelper(r) PROVE Workers' /\ Witnesses'
  <2>1. Witnesses'
    BY <1>1, <1>4 DEF ChmodHelper
  <2>2. Workers'
    BY <1>4 DEF ChmodHelper, TypeOK, HandedOutOnce, NoStatusYet
  <2> QED
    BY <2>1, <2>2
<1>5. ASSUME NEW r \in Runs, Spawn(r) PROVE Workers' /\ Witnesses'
  <2>1. Witnesses'
    BY <1>1, <1>5 DEF Spawn
  <2>2. Workers'
    BY <1>5 DEF Spawn, IsFirst, TypeOK, HandedOutOnce, NoStatusYet
  <2> QED
    BY <2>1, <2>2
<1>6. ASSUME NEW r \in Runs, BeginCollect(r) PROVE Workers' /\ Witnesses'
  <2>1. Witnesses'
    BY <1>1, <1>6 DEF BeginCollect
  <2>2. Workers'
    BY <1>2, <1>6 DEF BeginCollect, Phases
  <2> QED
    BY <2>1, <2>2
<1>7. ASSUME NEW r \in Runs, Collect(r) PROVE Workers' /\ Witnesses'
  <2>1. PICK t \in Tests : verdict' = [verdict EXCEPT ![r][t] = VerdictOf(log[t])]
    BY <1>7 DEF Collect
  <2>2. UNCHANGED <<phase, exec, log>>
    BY <1>7 DEF Collect
  <2>3. Workers'
    BY <2>2 DEF HandedOutOnce, NoStatusYet
  <2>4. OkLogHasWitness'
    BY <2>2 DEF OkLogHasWitness
  <2>5. VerdictOf(log[t]) = "PASS" => log[t] = "ok"
    BY DEF VerdictOf
  <2>6. PassHasWitness'
    BY <2>1, <2>2, <2>5 DEF TypeOK, PassHasWitness, OkLogHasWitness
  <2> QED
    BY <2>3, <2>4, <2>6
<1>8. ASSUME NEW r \in Runs, Interrupt(r) PROVE Workers' /\ Witnesses'
  <2>1. Witnesses'
    BY <1>1, <1>8 DEF Interrupt
  <2>2. Workers'
    BY <1>8 DEF Interrupt, TypeOK, HandedOutOnce, NoStatusYet, Active, Busy, Live
  <2> QED
    BY <2>1, <2>2
<1>9. ASSUME NEW r \in Runs, NEW t \in Tests, OpenHelper(r, t) \/ Kill(r, t)
      PROVE  Workers' /\ Witnesses'
  <2>1. Witnesses'
    BY <1>1, <1>9 DEF OpenHelper, Kill
  <2>2. PICK w \in {"running", "exited"} :
          /\ worker' = [worker EXCEPT ![r][t] = w]
          /\ w = "running" => worker[r][t] = "starting"
    BY <1>9 DEF OpenHelper, Kill
  <2>3. worker[r][t] # "none" /\ UNCHANGED <<phase, todo, outcome>>
    BY <1>9 DEF OpenHelper, Kill, Busy
  <2>4. Workers'
    BY <2>2, <2>3 DEF TypeOK, HandedOutOnce, NoStatusYet
  <2> QED
    BY <2>1, <2>4
<1>10. ASSUME NEW r \in Runs, NEW t \in Tests, TestEnds(r, t)
       PROVE  Workers' /\ Witnesses'
  <2>0. \A q \in Runs : todo'[q] \subseteq todo[q]
    BY <1>10 DEF TestEnds, TypeOK
  <2>1. Workers'
    BY <1>10, <2>0 DEF TestEnds, TypeOK, HandedOutOnce, NoStatusYet
  <2>2. PICK e \in Exits : outcome' = [outcome EXCEPT ![r][t] = e]
    BY <1>10 DEF TestEnds
  <2>3. outcome[r][t] = Unknown
    BY <1>10 DEF TestEnds, NoStatusYet
  <2>4. \A q \in Runs, u \in Tests : outcome[q][u] = "ok" => outcome'[q][u] = "ok"
    BY <2>2, <2>3 DEF TypeOK, Unknown
  <2>5. OkLogHasWitness'
    BY <1>10, <2>4 DEF TestEnds, TypeOK, OkLogHasWitness, Unknown
  <2>6. PassHasWitness'
    BY <1>10, <2>4 DEF TestEnds, PassHasWitness
  <2> QED
    BY <2>1, <2>5, <2>6
<1>11. ASSUME NEW r \in Runs, NEW t \in Tests, WriteHeader(r, t)
       PROVE  Workers' /\ Witnesses'
  <2>1. Workers'
    BY <1>11 DEF WriteHeader, TypeOK, HandedOutOnce, NoStatusYet
  <2>2. OkLogHasWitness'
    BY <1>11 DEF WriteHeader, TypeOK, OkLogHasWitness
  <2>3. PassHasWitness'
    BY <1>11 DEF WriteHeader, PassHasWitness
  <2> QED
    BY <2>1, <2>2, <2>3
<1>11a. ASSUME NEW r \in Runs, NEW t \in Tests, WriteRest(r, t)
        PROVE  Workers' /\ Witnesses'
  <2>1. Workers'
    BY <1>11a DEF WriteRest, TypeOK, HandedOutOnce, NoStatusYet
  <2>2. Witnesses'
    BY <1>1, <1>11a DEF WriteRest
  <2> QED
    BY <2>1, <2>2
<1>12. CASE UNCHANGED vars
  BY <1>0, <1>12
  DEF vars, HandedOutOnce, NoStatusYet, OkLogHasWitness, PassHasWitness
<1> QED
  BY <1>0, <1>3, <1>4, <1>5, <1>6, <1>7, <1>8, <1>9, <1>10, <1>11, <1>11a,
     <1>12 DEF Next, Shell, Worker

(* Whatever overlaps, is killed or is interrupted: a test reported PASS    *)
(* exited 0 in some invocation (PassHasWitness).                           *)
THEOREM PassesAreWitnessed == Spec => []PassHasWitness
<1>1. WitnessInv => PassHasWitness
  BY DEF WitnessInv
<1> QED
  BY <1>1, WitnessInit, WitnessStep, PTL DEF Spec

(* In an undisturbed logdir every verdict is that of this invocation, the  *)
(* log behind a PASS is complete (FreshVerdict), and a test reported PASS  *)
(* was started (PassWasStarted).                                           *)
THEOREM VerdictsAreFresh ==
  Undisturbed => (Spec => [](FreshVerdict /\ PassWasStarted))
<1> SUFFICES ASSUME Undisturbed PROVE Spec => [](FreshVerdict /\ PassWasStarted)
  OBVIOUS
<1>1. Init => FreshInv
  BY FreshInit
<1>2. FreshInv /\ [Next]_vars => FreshInv'
  BY FreshStep
<1>3. FreshInv /\ WitnessInv => FreshVerdict /\ PassWasStarted
  <2> SUFFICES ASSUME FreshVerdict, NoStatusYet PROVE PassWasStarted
    BY DEF FreshInv, WitnessInv
  <2> SUFFICES ASSUME NEW r \in Runs, NEW t \in Tests, verdict[r][t] = "PASS"
               PROVE  worker[r][t] # "none"
    BY DEF PassWasStarted
  <2>1. VerdictOf(outcome[r][t]) = "PASS"
    BY DEF FreshVerdict
  <2>2. outcome[r][t] # Unknown
    BY <2>1 DEF VerdictOf, Unknown, NoLog
  <2> QED
    BY <2>2 DEF NoStatusYet
<1> QED
  BY <1>1, <1>2, <1>3, WitnessInit, WitnessStep, PTL DEF Spec

-----------------------------------------------------------------------------
(***************************************************************************)
(* The serial loop starts every test of its list.  The hypothesis is that  *)
(* no command reads the loop's standard input; kills, interrupts and other *)
(* invocations are allowed.                                                *)
(***************************************************************************)

(* The serial loop is never stopped, and every line of its list waits, has *)
(* a worker, or had one; only the last of these is left when it ends.      *)
SerialLoop ==
  \A r \in Runs :
    Serial(r) =>
      /\ stopped[r] = FALSE
      /\ phase[r] = "execute" =>
           \A t \in list[r] : t \in todo[r] \/ worker[r][t] \in Busy \cup {"exited"}
      /\ phase[r] \in {"cleanup", "collect"} =>
           \A t \in list[r] : worker[r][t] = "exited"

(* Every step keeps track of the lines of a serial loop. *)
LEMMA SerialStep ==
  ASSUME StdinReaders = {}, TypeOK, SerialLoop, [Next]_vars PROVE SerialLoop'
<1> USE DEF exec, coll, Serial
<1>1. ASSUME NEW r \in Runs, NEW p \in Phases, phase' = [phase EXCEPT ![r] = p],
             p \in {"execute", "cleanup", "collect"} =>
               /\ phase[r] = "cleanup" /\ p = "collect"
               /\ UNCHANGED list,
             \A q \in Runs \ {r} : list'[q] = list[q],
             UNCHANGED exec
      PROVE  SerialLoop'
  BY <1>1 DEF TypeOK, SerialLoop
<1>2. ASSUME NEW r \in Runs, Start(r) PROVE SerialLoop'
  BY <1>1, <1>2 DEF Start, Phases, TypeOK
<1>3. ASSUME NEW r \in Runs,
             StartEmpty(r) \/ WriteHelper(r) \/ BeginCollect(r) \/ EndCollect(r)
      PROVE  SerialLoop'
  BY <1>1, <1>3 DEF StartEmpty, WriteHelper, BeginCollect, EndCollect, Phases
<1>4. ASSUME NEW r \in Runs, ChmodHelper(r) PROVE SerialLoop'
  <2>1. PICK p \in {"execute", "done"} :
          /\ phase' = [phase EXCEPT ![r] = p]
          /\ p = "execute" => todo'[r] = list[r]
          /\ \A q \in Runs \ {r} : todo'[q] = todo[q]
    BY <1>4 DEF ChmodHelper, TypeOK
  <2>2. UNCHANGED <<list, worker, stopped>>
    BY <1>4 DEF ChmodHelper
  <2> QED
    BY <2>1, <2>2 DEF TypeOK, SerialLoop
<1>5. ASSUME NEW r \in Runs, Spawn(r) PROVE SerialLoop'
  BY <1>5 DEF Spawn, IsFirst, TypeOK, SerialLoop, Busy
<1>6. ASSUME NEW r \in Runs, EndExecute(r) PROVE SerialLoop'
  <2>1. Serial(r) => \A t \in list[r] : worker[r][t] = "exited"
    BY <1>6 DEF EndExecute, Active, TypeOK, SerialLoop
  <2>2. /\ phase' = [phase EXCEPT ![r] = "cleanup"]
        /\ UNCHANGED <<list, todo, worker, stopped>>
    BY <1>6 DEF EndExecute
  <2> QED
    BY <2>1, <2>2 DEF TypeOK, SerialLoop
<1>7. ASSUME NEW r \in Runs, Collect(r) PROVE SerialLoop'
  BY <1>7 DEF Collect, SerialLoop
<1>8. ASSUME NEW r \in Runs, Interrupt(r) PROVE SerialLoop'
  <2>1. /\ phase' = [phase EXCEPT ![r] = "interrupted"]
        /\ UNCHANGED <<list, todo, stopped>>
    BY <1>8 DEF Interrupt
  <2>2. \A q \in Runs \ {r} : worker'[q] = worker[q]
    BY <1>8 DEF Interrupt, TypeOK
  <2> QED
    BY <2>1, <2>2 DEF TypeOK, SerialLoop
<1>9. ASSUME NEW r \in Runs, NEW t \in Tests, Worker(r, t) \/ Kill(r, t)
      PROVE  SerialLoop'
  <2>1. PICK w \in {"running", "logging", "copying", "exited"} :
          worker' = [worker EXCEPT ![r][t] = w]
    BY <1>9 DEF Worker, OpenHelper, TestEnds, WriteHeader, WriteRest, Kill
  <2>2. worker[r][t] \in Busy
    BY <1>9 DEF Worker, OpenHelper, TestEnds, WriteHeader, WriteRest, Kill, Busy
  <2>3. UNCHANGED <<phase, list, todo>>
    BY <1>9 DEF Worker, OpenHelper, TestEnds, WriteHeader, WriteRest, Kill
  <2>4. \A q \in Runs : Serial(q) /\ stopped[q] = FALSE => stopped'[q] = FALSE
    BY <1>9 DEF Worker, OpenHelper, TestEnds, WriteHeader, WriteRest, Kill, TypeOK
  <2> QED
    BY <2>1, <2>2, <2>3, <2>4 DEF TypeOK, SerialLoop, Busy
<1>10. CASE UNCHANGED vars
  BY <1>10 DEF vars, SerialLoop
<1> QED
  BY <1>2, <1>3, <1>4, <1>5, <1>6, <1>7, <1>8, <1>9, <1>10 DEF Next, Shell

(* With no reader of the loop's input every listed test is started before  *)
(* the serial invocation collects, whoever is killed (SerialStartsAll).    *)
THEOREM SerialRunsAll == StdinReaders = {} => (Spec => []SerialStartsAll)
<1> SUFFICES ASSUME StdinReaders = {} PROVE Spec => []SerialStartsAll
  OBVIOUS
<1>1. Init => SerialLoop
  BY DEF Init, SerialLoop
<1>2. TypeOK /\ SerialLoop /\ [Next]_vars => SerialLoop'
  BY SerialStep
<1>3. SerialLoop => SerialStartsAll
  BY DEF SerialLoop, SerialStartsAll
<1> QED
  BY <1>1, <1>2, <1>3, TypeCorrect, PTL DEF Spec

-----------------------------------------------------------------------------
(***************************************************************************)
(* The summary and the CSV file, when no two invocations use the logdir at *)
(* a time.  Workers may be killed and commands may read the loop's input:  *)
(* what is collected is then wrong in other ways, but it is all there.     *)
(***************************************************************************)

(* The summary has the lines read so far, sorted, and all of them come     *)
(* before the lines still to be read.                                      *)
SummarySoFar(r) ==
  /\ \A i \in DOMAIN summary :
       /\ summary[i].test \in list[r] \ unread[r]
       /\ summary[i].says = verdict[r][summary[i].test]
       /\ \A u \in unread[r] : summary[i].test < u
  /\ \A t \in list[r] \ unread[r] : \E i \in DOMAIN summary : summary[i].test = t
  /\ \A i, j \in DOMAIN summary : i < j => summary[i].test < summary[j].test

(* The CSV file has the ##PERF## lines of the tests reported PASS so far,  *)
(* sorted, and all of them come before those of the lines still to be read. *)
CsvSoFar(r) ==
  /\ \A i \in DOMAIN csv :
       /\ verdict[r][csv[i].test] = "PASS"
       /\ csv[i].line \in 1 .. output[csv[i].test]
       /\ \A u \in unread[r] : csv[i].test < u
  /\ \A t \in Tests, k \in Nat :
       verdict[r][t] = "PASS" /\ k \in 1 .. output[t] =>
         \E i \in DOMAIN csv : csv[i].test = t /\ csv[i].line = k
  /\ \A i, j \in DOMAIN csv : i < j => IsBefore(csv[i], csv[j])

FilesAreOwn ==
  \A r \in Runs :
    /\ phase[r] \in {"prepare", "chmod", "execute", "cleanup"} => summary = <<>>
    /\ phase[r] = "collect" => SummarySoFar(r) /\ CsvSoFar(r)

OwnInv == AloneInv /\ CountInv /\ FilesAreOwn

(* The rows of the CSV file are rows. *)
LEMMA RowsAre ==
  ASSUME TypeOK, NEW i \in DOMAIN csv
  PROVE  csv[i].test \in Tests /\ csv[i].line \in Nat
<1>1. csv[i] \in Rows
  BY DEF TypeOK
<1> QED
  BY <1>1 DEF Rows

(* A loop iteration appends the line of the least test left. *)
LEMMA OwnCollect ==
  ASSUME ~Overlap, OwnInv, NEW r \in Runs, Collect(r)
  PROVE  SummarySoFar(r)' /\ CsvSoFar(r)'
<1> USE DEF OwnInv, AloneInv
<1>1. PICK t \in Tests :
        /\ IsFirst(t, unread[r])
        /\ unread'  = [unread EXCEPT ![r] = @ \ {t}]
        /\ verdict' = [verdict EXCEPT ![r][t] = VerdictOf(log[t])]
        /\ summary' = Append(summary, [test |-> t, says |-> VerdictOf(log[t])])
        /\ csv'     = IF VerdictOf(log[t]) = "PASS" THEN csv \o RowsOf(t) ELSE csv
  BY DEF Collect
<1>2. PICK v \in Verdicts : v = VerdictOf(log[t])
  BY DEF VerdictOf, Verdicts
<1>3. /\ unread'[r] = unread[r] \ {t}
      /\ verdict'[r] = [verdict[r] EXCEPT ![t] = v]
      /\ verdict'[r][t] = v
      /\ \A u \in Tests \ {t} : verdict'[r][u] = verdict[r][u]
      /\ UNCHANGED <<list, output>>
  BY <1>1, <1>2, ZenonT(100) DEF TypeOK, Collect
<1>4. /\ t \in unread[r] /\ \A u \in unread[r] \ {t} : t < u
      /\ unread[r] \subseteq list[r] /\ list[r] \subseteq Tests
      /\ verdict[r][t] = "none"
  <2>1. \A u \in unread[r] : u \in Tests /\ u \in Nat /\ t \in Nat
    BY RunnerAssumption DEF TypeOK
  <2>2. phase[r] = "collect"
    BY DEF Collect
  <2> QED
    BY <1>1, <2>1, <2>2 DEF IsFirst, CountInv, ReadIsReported, TypeOK
<1>5. SummarySoFar(r) /\ CsvSoFar(r)
  BY DEF Collect, FilesAreOwn
<1>6. SummarySoFar(r)'
  <2> DEFINE n == Len(summary)
  <2>1. /\ n \in Nat /\ DOMAIN summary = 1 .. n
        /\ DOMAIN summary' = 1 .. n + 1
        /\ \A i \in 1 .. n : summary'[i] = summary[i]
        /\ summary'[n + 1] = [test |-> t, says |-> v]
    BY <1>1, <1>2 DEF TypeOK
  <2> HIDE DEF n
  <2>2. ASSUME NEW i \in 1 .. n
        PROVE  /\ summary'[i].test \in list[r] \ unread[r]
               /\ summary'[i].test # t
               /\ summary'[i].says = verdict'[r][summary'[i].test]
               /\ \A u \in unread[r] : summary'[i].test < u
    BY <1>3, <1>4, <1>5, <2>1 DEF SummarySoFar
  <2>3. \A i \in 1 .. n + 1 : i \in 1 .. n \/ i = n + 1
    BY <2>1
  <2>4. \A i \in DOMAIN summary' :
          /\ summary'[i].test \in list'[r] \ unread'[r]
          /\ summary'[i].says = verdict'[r][summary'[i].test]
          /\ \A u \in unread'[r] : summary'[i].test < u
    BY <1>3, <1>4, <2>1, <2>2, <2>3
  <2>5. ASSUME NEW u \in list'[r] \ unread'[r]
        PROVE  \E i \in DOMAIN summary' : summary'[i].test = u
    <3>1. CASE u = t
      BY <2>1, <3>1
    <3>2. CASE u # t
      <4>1. PICK i \in DOMAIN summary : summary[i].test = u
        BY <1>3, <1>5, <2>5, <3>2 DEF SummarySoFar
      <4> QED
        BY <2>1, <4>1
    <3> QED
      BY <3>1, <3>2
  <2>6. ASSUME NEW i \in DOMAIN summary', NEW j \in DOMAIN summary', i < j
        PROVE  summary'[i].test < summary'[j].test
    <3>1. i \in 1 .. n
      BY <2>1, <2>6
    <3>2. CASE j = n + 1
      BY <1>4, <2>1, <2>2, <3>1, <3>2
    <3>3. CASE j \in 1 .. n
      BY <1>5, <2>1, <2>6, <3>1, <3>3 DEF SummarySoFar
    <3> QED
      BY <2>1, <2>3, <3>2, <3>3
  <2> QED
    BY <2>4, <2>5, <2>6 DEF SummarySoFar
<1>7. CASE v # "PASS"
  <2>1. csv' = csv
    BY <1>1, <1>2, <1>7
  <2>2. \A u \in Tests : verdict'[r][u] = "PASS" <=> verdict[r][u] = "PASS"
    BY <1>3, <1>4, <1>7
  <2>3. \A i \in DOMAIN csv : csv[i].test \in Tests
    BY RowsAre
  <2>4. CsvSoFar(r)'
    BY <1>3, <1>5, <2>1, <2>2, <2>3 DEF CsvSoFar, IsBefore
  <2> QED
    BY <1>6, <2>4
<1>8. CASE v = "PASS"
  <2> DEFINE n == Len(csv)
             m == output[t]
  <2>1. /\ n \in Nat /\ m \in Nat /\ DOMAIN csv = 1 .. n
        /\ \A i \in 1 .. n : csv[i].test \in Tests /\ csv[i].line \in Nat
    <3>1. n \in Nat /\ m \in Nat /\ DOMAIN csv = 1 .. n
      BY DEF TypeOK
    <3> QED
      BY <3>1, RowsAre
  <2>2. /\ DOMAIN csv' = 1 .. n + m
        /\ \A i \in 1 .. n : csv'[i] = csv[i]
        /\ \A k \in 1 .. m : csv'[n + k] = [test |-> t, line |-> k]
    <3>1. RowsOf(t) \in Seq(Rows) /\ csv \in Seq(Rows)
      BY RowsType DEF TypeOK
    <3>2. Len(RowsOf(t)) = m /\ \A k \in 1 .. m : RowsOf(t)[k] = [test |-> t, line |-> k]
      BY <2>1, <3>1 DEF RowsOf
    <3>3. csv' = csv \o RowsOf(t)
      BY <1>1, <1>2, <1>8
    <3> QED
      BY <2>1, <3>1, <3>2, <3>3
  <2> HIDE DEF n
  <2>3. ASSUME NEW i \in 1 .. n + m
        PROVE  \/ i \in 1 .. n /\ csv'[i] = csv[i]
               \/ \E k \in 1 .. m : i = n + k /\ csv'[i] = [test |-> t, line |-> k]
    <3>1. CASE i <= n
      <4>1. i \in 1 .. n
        BY <2>1, <3>1
      <4> QED
        BY <2>2, <4>1
    <3>2. CASE i > n
      <4>1. i - n \in 1 .. m /\ i = n + (i - n)
        BY <2>1, <3>2
      <4> DEFINE k == i - n
      <4> HIDE DEF k
      <4>2. k \in 1 .. m /\ i = n + k
        BY <4>1 DEF k
      <4> QED
        BY <2>2, <4>2
    <3>3. n \in Nat /\ i \in Int
      BY <2>1
    <3> QED
      BY <3>1, <3>2, <3>3
  <2>4. ASSUME NEW i \in 1 .. n
        PROVE  /\ csv[i].test \in Tests \ {t} /\ csv[i].test < t
               /\ verdict'[r][csv[i].test] = "PASS"
               /\ csv[i].line \in 1 .. output[csv[i].test]
               /\ \A u \in unread[r] : csv[i].test < u
    BY <1>3, <1>4, <1>5, <2>1 DEF CsvSoFar
  <2>5. \A i \in DOMAIN csv' :
          /\ verdict'[r][csv'[i].test] = "PASS"
          /\ csv'[i].line \in 1 .. output'[csv'[i].test]
          /\ \A u \in unread'[r] : csv'[i].test < u
    <3> SUFFICES ASSUME NEW i \in 1 .. n + m
                 PROVE  /\ verdict'[r][csv'[i].test] = "PASS"
                        /\ csv'[i].line \in 1 .. output'[csv'[i].test]
                        /\ \A u \in unread'[r] : csv'[i].test < u
      BY <2>2
    <3>1. CASE i \in 1 .. n /\ csv'[i] = csv[i]
      BY <1>3, <2>4, <3>1
    <3>2. ASSUME NEW k \in 1 .. m, csv'[i] = [test |-> t, line |-> k]
          PROVE  /\ verdict'[r][csv'[i].test] = "PASS"
                 /\ csv'[i].line \in 1 .. output'[csv'[i].test]
                 /\ \A u \in unread'[r] : csv'[i].test < u
      <4>1. csv'[i].test = t /\ csv'[i].line = k
        BY <3>2
      <4> QED
        BY <1>3, <1>4, <1>8, <4>1
    <3> QED
      BY <2>3, <3>1, <3>2
  <2>6. ASSUME NEW u \in Tests, NEW k \in Nat, verdict'[r][u] = "PASS",
               k \in 1 .. output'[u]
        PROVE  \E i \in DOMAIN csv' : csv'[i].test = u /\ csv'[i].line = k
    <3>1. CASE u = t
      <4>1. k \in 1 .. m
        BY <1>3, <2>6, <3>1
      <4>2. n + k \in DOMAIN csv' /\ csv'[n + k] = [test |-> t, line |-> k]
        BY <2>1, <2>2, <4>1
      <4>3. csv'[n + k].test = u /\ csv'[n + k].line = k
        BY <3>1, <4>2
      <4> QED
        BY <4>2, <4>3
    <3>2. CASE u # t
      <4>1. verdict[r][u] = "PASS" /\ k \in 1 .. output[u]
        BY <1>3, <2>6, <3>2
      <4>2. PICK i \in 1 .. n : csv[i].test = u /\ csv[i].line = k
        BY <1>5, <2>1, <4>1 DEF CsvSoFar
      <4>3. i \in DOMAIN csv' /\ csv'[i] = csv[i]
        BY <2>1, <2>2
      <4> QED
        BY <4>2, <4>3
    <3> QED
      BY <3>1, <3>2
  <2>7. ASSUME NEW i \in DOMAIN csv', NEW j \in DOMAIN csv', i < j
        PROVE  IsBefore(csv'[i], csv'[j])
    <3>1. i \in 1 .. n + m /\ j \in 1 .. n + m
      BY <2>2
    <3>2. CASE i \in 1 .. n /\ j \in 1 .. n
      BY <1>5, <2>1, <2>2, <2>7, <3>2 DEF CsvSoFar
    <3>3. CASE i \in 1 .. n /\ j \notin 1 .. n
      <4>1. PICK k \in 1 .. m : csv'[j] = [test |-> t, line |-> k]
        BY <2>3, <3>1, <3>3
      <4>2. csv'[j].test = t /\ csv'[i] = csv[i]
        BY <2>2, <3>3, <4>1
      <4> QED
        BY <2>4, <3>3, <4>2 DEF IsBefore
    <3>4. CASE i \notin 1 .. n
      <4>0. j \notin 1 .. n
        BY <2>1, <2>7, <3>1, <3>4
      <4>1. PICK k \in 1 .. m : i = n + k /\ csv'[i] = [test |-> t, line |-> k]
        BY <2>3, <3>1, <3>4
      <4>2. PICK l \in 1 .. m : j = n + l /\ csv'[j] = [test |-> t, line |-> l]
        BY <2>3, <3>1, <4>0
      <4>3. k < l
        BY <2>1, <2>7, <4>1, <4>2
      <4>4. csv'[i].test = csv'[j].test /\ csv'[i].line = k /\ csv'[j].line = l
        BY <4>1, <4>2
      <4> QED
        BY <4>3, <4>4 DEF IsBefore
    <3> QED
      BY <3>2, <3>3, <3>4
  <2>8. CsvSoFar(r)'
    BY <2>5, <2>6, <2>7 DEF CsvSoFar
  <2> QED
    BY <1>6, <2>8
<1> QED
  BY <1>7, <1>8

(* Every step of an invocation that is alone keeps its files its own. *)
LEMMA OwnStep == ASSUME ~Overlap, OwnInv, [Next]_vars PROVE OwnInv'
<1> USE DEF OwnInv, exec, coll
<1>0. AloneInv' /\ CountInv'
  BY AloneStep, CountStep, TypeStep DEF AloneInv
<1>1. ASSUME NEW r \in Runs, NEW p \in Phases, phase' = [phase EXCEPT ![r] = p],
             p \in {"chmod", "execute", "cleanup"} =>
               phase[r] \in {"prepare", "chmod", "execute"},
             p \notin {"prepare", "collect"},
             UNCHANGED <<list, output, coll, summary, csv>>
      PROVE  FilesAreOwn'
  BY <1>1 DEF AloneInv, TypeOK, FilesAreOwn, SummarySoFar, CsvSoFar, IsBefore
<1>2. ASSUME NEW r \in Runs, Start(r) PROVE FilesAreOwn'
  <2>1. \A q \in Runs : q # r => phase'[q] \notin Live
    BY <1>2 DEF Start, AloneInv, TypeOK
  <2>2. phase'[r] = "prepare" /\ summary' = <<>>
    BY <1>2 DEF Start, AloneInv, TypeOK
  <2> QED
    BY <2>1, <2>2 DEF FilesAreOwn, Live
<1>3. ASSUME NEW r \in Runs,
             StartEmpty(r) \/ WriteHelper(r) \/ EndExecute(r) \/ EndCollect(r)
      PROVE  FilesAreOwn'
  BY <1>1, <1>3 DEF StartEmpty, WriteHelper, EndExecute, EndCollect, Phases
<1>4. ASSUME NEW r \in Runs, ChmodHelper(r) PROVE FilesAreOwn'
  BY <1>1, <1>4 DEF ChmodHelper, Phases
<1>5. ASSUME NEW r \in Runs, BeginCollect(r) PROVE FilesAreOwn'
  <2>1. /\ phase[r] = "cleanup" /\ phase' = [phase EXCEPT ![r] = "collect"]
        /\ csv' = <<>> /\ unread' = [unread EXCEPT ![r] = list[r]]
        /\ UNCHANGED <<list, verdict, count, summary>>
    BY <1>5 DEF BeginCollect
  <2>2. summary = <<>>
    BY <2>1 DEF FilesAreOwn
  <2>3. \A t \in Tests : verdict[r][t] = "none"
    BY <2>1 DEF CountInv, ReportAfterPool
  <2>5. SummarySoFar(r)'
    BY <2>1, <2>2 DEF SummarySoFar, AloneInv, TypeOK
  <2>6. CsvSoFar(r)'
    BY <2>1, <2>3 DEF CsvSoFar
  <2>7. \A q \in Runs : q # r => phase'[q] \notin Live
    BY <2>1 DEF AloneInv, OneAtATime, TypeOK, Live
  <2> QED
    BY <2>1, <2>5, <2>6, <2>7 DEF FilesAreOwn, Live, AloneInv, TypeOK
<1>6. ASSUME NEW r \in Runs, Collect(r) PROVE FilesAreOwn'
  <2>1. SummarySoFar(r)' /\ CsvSoFar(r)'
    BY <1>6, OwnCollect
  <2>2. phase[r] = "collect" /\ UNCHANGED phase
    BY <1>6 DEF Collect
  <2>3. \A q \in Runs : q # r => phase'[q] \notin Live
    BY <2>2 DEF AloneInv, OneAtATime, Live
  <2> QED
    BY <2>1, <2>2, <2>3 DEF FilesAreOwn, Live
<1>7. ASSUME NEW r \in Runs, Interrupt(r) PROVE FilesAreOwn'
  BY <1>1, <1>7 DEF Interrupt, Phases
<1>8. ASSUME UNCHANGED <<phase, list, output, coll, summary, csv>> PROVE FilesAreOwn'
  BY <1>8 DEF FilesAreOwn, SummarySoFar, CsvSoFar, IsBefore
<1>9. ASSUME NEW r \in Runs, Spawn(r) PROVE FilesAreOwn'
  BY <1>8, <1>9 DEF Spawn
<1>10. ASSUME NEW r \in Runs, NEW t \in Tests, Worker(r, t) \/ Kill(r, t)
       PROVE  FilesAreOwn'
  <2>1. UNCHANGED <<phase, summary>>
    BY <1>10 DEF Worker, OpenHelper, TestEnds, WriteHeader, WriteRest, Kill
  <2>2. phase[r] = "execute"
    BY <1>10
    DEF Worker, OpenHelper, TestEnds, WriteHeader, WriteRest, Kill, AloneInv,
        PoolHasHelper, Busy
  <2>3. \A q \in Runs : phase[q] # "collect"
    BY <2>2 DEF AloneInv, OneAtATime, Live
  <2> QED
    BY <2>1, <2>3 DEF FilesAreOwn
<1>11. CASE UNCHANGED vars
  BY <1>0, <1>8, <1>11 DEF vars
<1> QED
  BY <1>0, <1>2, <1>3, <1>4, <1>5, <1>6, <1>7, <1>9, <1>10, <1>11
  DEF Next, Shell

(* Without overlap, the summary and the CSV file that an invocation leaves *)
(* are those of its own list and of the logs it passed, in order and       *)
(* complete (ReportIsOwn).                                                 *)
THEOREM ReportsAreOwn == ~Overlap => (Spec => []ReportIsOwn)
<1> SUFFICES ASSUME ~Overlap PROVE Spec => []ReportIsOwn
  OBVIOUS
<1>1. Init => OwnInv
  BY TypeInit, CountInit
  DEF Init, OwnInv, AloneInv, OneAtATime, PoolHasHelper, CopyHasHeader, FilesAreOwn,
      Live, Busy
<1>2. OwnInv /\ [Next]_vars => OwnInv'
  BY OwnStep
<1>3. OwnInv => ReportIsOwn
  <2> SUFFICES ASSUME OwnInv, NEW r \in Runs, phase[r] = "collect", unread[r] = {}
               PROVE  /\ {summary[i].test : i \in DOMAIN summary} = list[r]
                      /\ \A i \in DOMAIN summary :
                           summary[i].says = verdict[r][summary[i].test]
                      /\ \A i, j \in DOMAIN summary :
                           i < j => summary[i].test < summary[j].test
                      /\ \A i \in DOMAIN csv : csv[i].test \in Reported(r, {"PASS"})
                      /\ \A t \in Reported(r, {"PASS"}) :
                           {csv[i].line : i \in {j \in DOMAIN csv : csv[j].test = t}}
                             = 1 .. output[t]
                      /\ \A i, j \in DOMAIN csv : i < j => IsBefore(csv[i], csv[j])
    BY DEF ReportIsOwn
  <2>1. SummarySoFar(r) /\ CsvSoFar(r) /\ TypeOK
    BY DEF OwnInv, FilesAreOwn, AloneInv
  <2>2. {summary[i].test : i \in DOMAIN summary} = list[r]
    BY <2>1 DEF SummarySoFar
  <2>3. \A i \in DOMAIN csv : csv[i].test \in Reported(r, {"PASS"})
    <3>1. \A i \in DOMAIN csv : csv[i].test \in Tests
      BY <2>1, RowsAre
    <3> QED
      BY <2>1, <3>1 DEF CsvSoFar, Reported
  <2>4. ASSUME NEW t \in Reported(r, {"PASS"})
        PROVE  {csv[i].line : i \in {j \in DOMAIN csv : csv[j].test = t}}
                 = 1 .. output[t]
    <3>1. \A i \in DOMAIN csv : csv[i].test = t => csv[i].line \in 1 .. output[t]
      BY <2>1 DEF CsvSoFar
    <3>2. \A k \in 1 .. output[t] :
            \E i \in DOMAIN csv : csv[i].test = t /\ csv[i].line = k
      <4>1. output[t] \in Nat /\ t \in Tests /\ verdict[r][t] = "PASS"
        BY <2>1, <2>4 DEF Reported, TypeOK
      <4>2. \A k \in 1 .. output[t] : k \in Nat
        BY <4>1
      <4> QED
        BY <2>1, <4>1, <4>2 DEF CsvSoFar
    <3> QED
      BY <3>1, <3>2
  <2> QED
    BY <2>1, <2>2, <2>3, <2>4 DEF SummarySoFar, CsvSoFar
<1> QED
  BY <1>1, <1>2, <1>3, PTL DEF Spec

-----------------------------------------------------------------------------
(***************************************************************************)
(* What a killed worker costs.  Workers may be killed, invocations         *)
(* interrupted and commands may read the serial loop's input; only that    *)
(* two invocations share the logdir is excluded.  FreshVerdict is then     *)
(* false, and what is left of it is counted.                               *)
(***************************************************************************)

(* The misreported tests that had a worker. *)
Bereft(r) == {t \in Misreported(r) : worker[r][t] = "exited"}

(* The pool did not get to the end of its list: xargs gave up after a      *)
(* child died of a signal, or a command swallowed the serial loop's input. *)
Curtailed(r) == IF Serial(r) THEN StdinReaders # {} ELSE stopped[r]

(* Every misreport has a cause: the test had a worker, and there are no    *)
(* more of these than killed workers, or the pool did not reach it.  What  *)
(* is reported of a test that did end here is FAIL if it is not the truth, *)
(* so a failure or a timeout is never reported as a PASS.                  *)
LossesAccounted ==
  \A r \in Runs :
    /\ \A t \in Misreported(r) :
         /\ worker[r][t] = "exited" \/ (worker[r][t] = "none" /\ Curtailed(r))
         /\ outcome[r][t] # Unknown => verdict[r][t] = "FAIL"
    /\ Cardinality(Bereft(r)) <= faults.kills

(* The workers that ended without their log, or with a part of it. *)
CutShort(r) ==
  {t \in Tests : /\ worker[r][t] = "exited"
                 /\ \/ log[t] # outcome[r][t]
                    \/ outcome[r][t] = "ok" /\ output[t] # Prints[t]}

(* While an invocation is alive, each of them was killed, *)
KillsCover == \A r \in Runs : phase[r] \in Live => Cardinality(CutShort(r)) <= faults.kills

(* and the log of a test that ended is its own or has no "# Exit:" line.   *)
LogsAreOwn ==
  \A r \in Runs, t \in Tests :
    phase[r] \in Live /\ outcome[r][t] # Unknown => log[t] \in {outcome[r][t], Unknown}

(* A line of the list waits, has a worker or had one, unless the pool is   *)
(* curtailed; the serial loop never gives up.                              *)
LinesHandedOut ==
  \A r \in Runs :
    /\ Serial(r) => stopped[r] = FALSE
    /\ phase[r] = "execute" =>
         \A t \in list[r] : t \in todo[r] \/ worker[r][t] # "none" \/ Curtailed(r)
    /\ phase[r] \in {"cleanup", "collect"} =>
         \A t \in list[r] : worker[r][t] # "none" \/ Curtailed(r)

(* The misreports of the invocation that is collecting are cut short. *)
BereftNow == \A r \in Runs : phase[r] = "collect" => Bereft(r) \subseteq CutShort(r)

LossInv == /\ AloneInv /\ CountInv /\ WitnessInv
           /\ KillsCover /\ LogsAreOwn /\ LinesHandedOut /\ BereftNow
           /\ LossesAccounted

(* Sets of tests are finite, and a subset of one is not larger. *)
LEMMA FewerTests ==
  ASSUME NEW S \in SUBSET Tests, NEW T \in SUBSET S
  PROVE  /\ IsFiniteSet(S) /\ Cardinality(S) \in Nat
         /\ Cardinality(T) \in Nat /\ Cardinality(T) <= Cardinality(S)
<1>1. IsFiniteSet(S)
  BY RunnerAssumption, FS_Subset
<1>2. IsFiniteSet(T) /\ Cardinality(T) <= Cardinality(S)
  BY <1>1, FS_Subset
<1> QED
  BY <1>1, <1>2, FS_CardinalityType

(* One more test. *)
LEMMA OneMoreTest ==
  ASSUME NEW S \in SUBSET Tests, NEW t \in Tests, NEW T \in SUBSET (S \cup {t})
  PROVE  Cardinality(T) <= Cardinality(S) + 1
<1>1. IsFiniteSet(S) /\ Cardinality(S) \in Nat
  BY FewerTests
<1>2. Cardinality(S \cup {t}) = IF t \in S THEN Cardinality(S) ELSE Cardinality(S) + 1
  BY <1>1, FS_AddElement, Zenon
<1>3. S \cup {t} \in SUBSET Tests
  OBVIOUS
<1>4. Cardinality(T) <= Cardinality(S \cup {t}) /\ Cardinality(T) \in Nat
  BY <1>3, FewerTests
<1> QED
  BY <1>1, <1>2, <1>4

(* Nothing is lost before anything has run. *)
LEMMA LossInit == Init => LossInv
<1> SUFFICES ASSUME Init PROVE LossInv
  OBVIOUS
<1>1. AloneInv /\ CountInv /\ WitnessInv
  BY TypeInit, CountInit, WitnessInit
  DEF Init, AloneInv, OneAtATime, PoolHasHelper, CopyHasHeader, Live, Busy
<1>2. \A r \in Runs : Misreported(r) = {} /\ Bereft(r) = {} /\ CutShort(r) = {}
  BY DEF Init, Misreported, Bereft, CutShort
<1>3. Cardinality({}) = 0 /\ faults.kills = 0
  BY FS_EmptySet DEF Init
<1>4. KillsCover /\ LossesAccounted
  <2>1. \A r \in Runs : /\ Cardinality(CutShort(r)) <= faults.kills
                        /\ Cardinality(Bereft(r)) <= faults.kills
    BY <1>2, <1>3
  <2> QED
    BY <2>1, <1>2 DEF KillsCover, LossesAccounted
<1>5. LogsAreOwn /\ LinesHandedOut /\ BereftNow
  BY <1>2 DEF Init, LogsAreOwn, LinesHandedOut, BereftNow, Live
<1> QED
  BY <1>1, <1>4, <1>5 DEF LossInv

(* Every step keeps the account of the losses. *)
LEMMA LossStep == ASSUME ~Overlap, LossInv, [Next]_vars PROVE LossInv'
<1> USE DEF exec, coll
<1>0. AloneInv' /\ CountInv' /\ WitnessInv' /\ TypeOK /\ TypeOK'
  BY AloneStep, CountStep, WitnessStep, TypeStep DEF LossInv, AloneInv
<1> DEFINE Ends == LossesAccounted /\ BereftNow
           Logs == KillsCover /\ LogsAreOwn
<1>1. \A r \in Runs :
        phase[r] \in {"idle", "prepare", "chmod", "execute", "cleanup"} =>
          Misreported(r) = {} /\ Bereft(r) = {}
  BY DEF LossInv, CountInv, ReportAfterPool, Misreported, Bereft
<1>2. \A q, r \in Runs : phase[q] \in Live /\ phase[r] \in Live => q = r
  BY DEF LossInv, AloneInv, OneAtATime
<1>3. \A r \in Runs, t \in Tests : worker[r][t] \in Busy => phase[r] = "execute" /\ helper
  BY DEF LossInv, AloneInv, PoolHasHelper
<1>4. faults.kills \in Nat
  BY <1>0, RunnerAssumption DEF TypeOK
(* Steps of a shell outside its pool. *)
<1>5. ASSUME UNCHANGED <<worker, outcome, stopped, log, output, verdict, faults>>
      PROVE  /\ LossesAccounted'
             /\ \A r \in Runs : /\ Misreported(r)' = Misreported(r)
                                /\ Bereft(r)' = Bereft(r)
                                /\ CutShort(r)' = CutShort(r)
                                /\ Curtailed(r)' = Curtailed(r)
  <2>1. \A r \in Runs : /\ Misreported(r)' = Misreported(r)
                        /\ Bereft(r)' = Bereft(r)
                        /\ CutShort(r)' = CutShort(r)
                        /\ Curtailed(r)' = Curtailed(r)
    BY <1>5 DEF Misreported, Bereft, CutShort, Curtailed, VerdictOf, Serial
  <2> QED
    BY <1>5, <2>1 DEF LossInv, LossesAccounted
<1>6. ASSUME NEW r \in Runs, NEW p \in Phases, phase' = [phase EXCEPT ![r] = p],
             p \in Live => phase[r] \in Live,
             p = "collect" => phase[r] = "cleanup",
             UNCHANGED <<worker, outcome, stopped, log, output, verdict, faults>>
      PROVE  Ends' /\ Logs'
  <2>1. KillsCover' /\ LogsAreOwn'
    BY <1>0, <1>5, <1>6 DEF LossInv, TypeOK, KillsCover, LogsAreOwn
  <2>2. BereftNow'
    BY <1>0, <1>1, <1>5, <1>6, SMTT(30) DEF LossInv, TypeOK, BereftNow
  <2> QED
    BY <1>5, <1>6, <2>1, <2>2
<1>7. ASSUME NEW r \in Runs, Start(r) PROVE Ends' /\ Logs' /\ LinesHandedOut'
  <2>1. /\ phase[r] = "idle" /\ phase' = [phase EXCEPT ![r] = "prepare"]
        /\ \A q \in Runs : q # r => list'[q] = list[q]
        /\ UNCHANGED <<todo, worker, outcome, stopped, log, output, verdict, faults>>
    BY <1>0, <1>7 DEF Start, TypeOK
  <2>2. \A t \in Tests : worker[r][t] = "none" /\ outcome[r][t] = Unknown
    BY <2>1 DEF LossInv, WitnessInv, HandedOutOnce, NoStatusYet
  <2>3. CutShort(r)' = {} /\ Cardinality({}) = 0
    BY <2>1, <2>2, FS_EmptySet DEF CutShort
  <2>4. KillsCover'
    <3>1. Cardinality(CutShort(r)') <= faults'.kills
      BY <1>4, <2>1, <2>3
    <3> QED
      BY <1>0, <1>5, <2>1, <3>1 DEF LossInv, TypeOK, KillsCover
  <2>5. LogsAreOwn'
    BY <1>0, <2>1, <2>2 DEF LossInv, TypeOK, LogsAreOwn
  <2>6. BereftNow'
    BY <1>0, <1>5, <2>1 DEF LossInv, TypeOK, BereftNow
  <2>7. LinesHandedOut'
    BY <1>0, <1>5, <2>1 DEF LossInv, TypeOK, LinesHandedOut, Serial
  <2> QED
    BY <1>5, <2>1, <2>4, <2>5, <2>6, <2>7
<1>8. ASSUME NEW r \in Runs,
             StartEmpty(r) \/ WriteHelper(r) \/ EndCollect(r)
      PROVE  Ends' /\ Logs' /\ LinesHandedOut'
  <2>1. PICK p \in {"done", "chmod"} :
          /\ phase' = [phase EXCEPT ![r] = p]
          /\ p \in Live => phase[r] \in Live
          /\ UNCHANGED <<list, todo, worker, outcome, stopped, log, output, verdict,
                       faults>>
    BY <1>8 DEF StartEmpty, WriteHelper, EndCollect, Live
  <2>2. LinesHandedOut'
    BY <1>0, <1>5, <2>1 DEF LossInv, TypeOK, LinesHandedOut, Serial
  <2> QED
    BY <1>6, <2>1, <2>2 DEF Phases
<1>9. ASSUME NEW r \in Runs, ChmodHelper(r) PROVE Ends' /\ Logs' /\ LinesHandedOut'
  <2>1. PICK p \in {"execute", "done"} :
          /\ phase' = [phase EXCEPT ![r] = p]
          /\ p = "execute" => todo'[r] = list[r]
          /\ \A q \in Runs \ {r} : todo'[q] = todo[q]
    BY <1>0, <1>9 DEF ChmodHelper, TypeOK
  <2>2. /\ phase[r] = "chmod"
        /\ UNCHANGED <<list, worker, outcome, stopped, log, output, verdict, faults>>
    BY <1>9 DEF ChmodHelper
  <2>3. LinesHandedOut'
    BY <1>0, <1>5, <2>1, <2>2, SMTT(30) DEF LossInv, TypeOK, LinesHandedOut, Serial
  <2> QED
    BY <1>6, <2>1, <2>2, <2>3 DEF Phases, Live
<1>10. ASSUME NEW r \in Runs, EndExecute(r) PROVE Ends' /\ Logs' /\ LinesHandedOut'
  <2>1. /\ phase[r] = "execute" /\ phase' = [phase EXCEPT ![r] = "cleanup"]
        /\ todo[r] = {} \/ stopped[r]
        /\ UNCHANGED <<list, todo, worker, outcome, stopped, log, output, verdict,
                       faults>>
    BY <1>10 DEF EndExecute
  <2>2. \A t \in list[r] : worker[r][t] # "none" \/ Curtailed(r)
    BY <1>0, <2>1 DEF LossInv, LinesHandedOut, Curtailed, TypeOK
  <2>3. LinesHandedOut'
    BY <1>0, <1>5, <2>1, <2>2 DEF LossInv, TypeOK, LinesHandedOut, Serial
  <2> QED
    BY <1>6, <2>1, <2>3 DEF Phases, Live
<1>11. ASSUME NEW r \in Runs, BeginCollect(r) PROVE Ends' /\ Logs' /\ LinesHandedOut'
  <2>1. /\ phase[r] = "cleanup" /\ phase' = [phase EXCEPT ![r] = "collect"]
        /\ UNCHANGED <<list, todo, worker, outcome, stopped, log, output, verdict,
                       faults>>
    BY <1>11 DEF BeginCollect
  <2>2. LinesHandedOut'
    BY <1>0, <1>5, <2>1 DEF LossInv, TypeOK, LinesHandedOut, Serial
  <2> QED
    BY <1>6, <2>1, <2>2 DEF Phases, Live
(* One line of the report. *)
<1>12. ASSUME NEW r \in Runs, Collect(r) PROVE Ends' /\ Logs' /\ LinesHandedOut'
  <2>1. PICK t \in unread[r] : t \in Tests /\ verdict' = [verdict EXCEPT ![r][t] = VerdictOf(log[t])]
    BY <1>12 DEF Collect, IsFirst
  <2>2. /\ phase[r] = "collect"
        /\ UNCHANGED <<phase, list, todo, worker, outcome, stopped, log, output, faults>>
    BY <1>12 DEF Collect
  <2>3. \A q \in Runs : CutShort(q)' = CutShort(q) /\ Curtailed(q)' = Curtailed(q)
    BY <2>2 DEF CutShort, Curtailed, Serial
  <2>4. \A q \in Runs : q # r => Misreported(q)' = Misreported(q) /\ Bereft(q)' = Bereft(q)
    BY <1>0, <2>1, <2>2 DEF TypeOK, Misreported, Bereft, VerdictOf
  <2>5. \A u \in Tests : u \in Misreported(r)' =>
          \/ u \in Misreported(r) /\ verdict'[r][u] = verdict[r][u]
          \/ u = t /\ verdict'[r][u] = VerdictOf(log[t]) /\ log[t] # outcome[r][t]
    BY <1>0, <2>1, <2>2 DEF TypeOK, Misreported, VerdictOf
  <2>6. t \in list[r] /\ (worker[r][t] = "none" => Curtailed(r))
    BY <2>1, <2>2 DEF LossInv, CountInv, ReadIsReported, LinesHandedOut
  <2>7. worker[r][t] \in {"none", "exited"}
    BY <1>0, <1>3, <2>1, <2>2 DEF TypeOK, WorkerStates
  <2>8. outcome[r][t] # Unknown => log[t] \in {outcome[r][t], Unknown}
    BY <2>1, <2>2 DEF LossInv, LogsAreOwn, Live
  <2>9. Bereft(r)' \subseteq CutShort(r)
    BY <2>2, <2>5 DEF LossInv, BereftNow, Bereft, CutShort, Misreported
  <2>10. BereftNow'
    BY <1>2, <2>2, <2>3, <2>9 DEF BereftNow, Live
  <2>11. \A q \in Runs : Cardinality(Bereft(q)') <= faults'.kills
    <3>1. Cardinality(CutShort(r)) <= faults.kills
      BY <2>2 DEF LossInv, KillsCover, Live
    <3>2. CutShort(r) \in SUBSET Tests
      BY DEF CutShort
    <3>3. /\ Cardinality(CutShort(r)) \in Nat /\ Cardinality(Bereft(r)') \in Nat
          /\ Cardinality(Bereft(r)') <= Cardinality(CutShort(r))
      BY <2>9, <3>2, FewerTests
    <3>4. Cardinality(Bereft(r)') <= faults'.kills
      BY <1>4, <2>2, <3>1, <3>3
    <3> QED
      BY <2>2, <2>4, <3>4 DEF LossInv, LossesAccounted
  <2>12. \A u \in Misreported(r)' :
           /\ worker'[r][u] = "exited" \/ (worker'[r][u] = "none" /\ Curtailed(r)')
           /\ outcome'[r][u] # Unknown => verdict'[r][u] = "FAIL"
    <3> SUFFICES ASSUME NEW u \in Misreported(r)'
                 PROVE  /\ \/ worker'[r][u] = "exited"
                           \/ worker'[r][u] = "none" /\ Curtailed(r)'
                        /\ outcome'[r][u] # Unknown => verdict'[r][u] = "FAIL"
      OBVIOUS
    <3>1. u \in Tests
      BY DEF Misreported
    <3>2. CASE u \in Misreported(r) /\ verdict'[r][u] = verdict[r][u]
      BY <2>2, <2>3, <3>2 DEF LossInv, LossesAccounted
    <3>3. CASE u = t /\ verdict'[r][u] = VerdictOf(log[t]) /\ log[t] # outcome[r][t]
      <4>1. outcome[r][t] # Unknown => VerdictOf(log[t]) = "FAIL"
        BY <2>8, <3>3 DEF VerdictOf, Unknown, NoLog
      <4> QED
        BY <2>2, <2>3, <2>6, <2>7, <3>3, <4>1
    <3> QED
      BY <2>5, <3>1, <3>2, <3>3
  <2>13. LossesAccounted'
    <3>1. ASSUME NEW q \in Runs, NEW u \in Misreported(q)', q # r
          PROVE  /\ \/ worker'[q][u] = "exited"
                    \/ worker'[q][u] = "none" /\ Curtailed(q)'
                 /\ outcome'[q][u] # Unknown => verdict'[q][u] = "FAIL"
      <4>1. u \in Misreported(q) /\ Curtailed(q)' = Curtailed(q)
        BY <2>3, <2>4, <3>1
      <4>2. verdict'[q] = verdict[q]
        BY <1>0, <2>1, <3>1 DEF TypeOK
      <4> QED
        BY <2>2, <4>1, <4>2 DEF LossInv, LossesAccounted
    <3>2. \A q \in Runs : \A u \in Misreported(q)' :
            /\ \/ worker'[q][u] = "exited"
               \/ worker'[q][u] = "none" /\ Curtailed(q)'
            /\ outcome'[q][u] # Unknown => verdict'[q][u] = "FAIL"
      BY <2>12, <3>1
    <3> QED
      BY <2>11, <3>2 DEF LossesAccounted
  <2>14. Logs' /\ LinesHandedOut'
    BY <2>2, <2>3 DEF LossInv, KillsCover, LogsAreOwn, LinesHandedOut, Serial
  <2> QED
    BY <2>10, <2>13, <2>14
(* Steps of the pool: nothing is reported yet. *)
<1>13. ASSUME NEW r \in Runs, phase[r] = "execute",
              UNCHANGED <<phase, verdict>>, faults'.kills \in Nat,
              faults'.kills >= faults.kills,
              \A q \in Runs : q # r => /\ worker'[q] = worker[q]
                                       /\ outcome'[q] = outcome[q]
                                       /\ stopped'[q] = stopped[q]
       PROVE  Ends'
  <2>1. \A q \in Runs : q # r => /\ Misreported(q)' = Misreported(q)
                                 /\ Bereft(q)' = Bereft(q)
                                 /\ Curtailed(q)' = Curtailed(q)
    BY <1>13 DEF Misreported, Bereft, Curtailed, VerdictOf, Serial
  <2>2. Misreported(r)' = {} /\ Bereft(r)' = {} /\ Cardinality({}) = 0
    BY <1>13, FS_EmptySet DEF LossInv, CountInv, ReportAfterPool, Misreported, Bereft
  <2>3. \A q \in Runs : Cardinality(Bereft(q)') <= faults'.kills
    <3>1. Cardinality(Bereft(r)') <= faults'.kills
      BY <1>13, <2>2
    <3>2. ASSUME NEW q \in Runs, q # r PROVE Cardinality(Bereft(q)') <= faults'.kills
      <4>1. Bereft(q) \in SUBSET Tests
        BY DEF Bereft, Misreported
      <4>2. Cardinality(Bereft(q)) \in Nat
        BY <4>1, FewerTests
      <4> QED
        BY <1>4, <1>13, <2>1, <3>2, <4>2 DEF LossInv, LossesAccounted
    <3> QED
      BY <3>1, <3>2
  <2>4. LossesAccounted'
    <3>1. ASSUME NEW q \in Runs, NEW t \in Misreported(q)'
          PROVE  /\ \/ worker'[q][t] = "exited"
                    \/ worker'[q][t] = "none" /\ Curtailed(q)'
                 /\ outcome'[q][t] # Unknown => verdict'[q][t] = "FAIL"
      <4>1. q # r
        BY <2>2, <3>1
      <4>2. t \in Misreported(q) /\ Curtailed(q)' = Curtailed(q)
        BY <2>1, <4>1
      <4>3. UNCHANGED <<worker[q], outcome[q], verdict>>
        BY <1>13, <4>1
      <4> QED
        BY <4>2, <4>3 DEF LossInv, LossesAccounted
    <3>2. \A q \in Runs : \A t \in Misreported(q)' :
            /\ \/ worker'[q][t] = "exited"
               \/ worker'[q][t] = "none" /\ Curtailed(q)'
            /\ outcome'[q][t] # Unknown => verdict'[q][t] = "FAIL"
      BY <3>1
    <3> QED
      BY <2>3, <3>2 DEF LossesAccounted
  <2>5. BereftNow'
    BY <1>2, <1>13 DEF BereftNow, Live
  <2> QED
    BY <2>4, <2>5
<1>14. ASSUME NEW r \in Runs, phase[r] = "execute", UNCHANGED phase,
              CutShort(r)' \subseteq CutShort(r), UNCHANGED faults
       PROVE  KillsCover'
  <2>1. CutShort(r) \in SUBSET Tests /\ Cardinality(CutShort(r)) <= faults.kills
    BY <1>14 DEF LossInv, KillsCover, CutShort, Live
  <2>2. /\ Cardinality(CutShort(r)) \in Nat /\ Cardinality(CutShort(r)') \in Nat
        /\ Cardinality(CutShort(r)') <= Cardinality(CutShort(r))
    BY <1>14, <2>1, FewerTests
  <2>3. Cardinality(CutShort(r)') <= faults'.kills
    BY <1>4, <1>14, <2>1, <2>2
  <2> QED
    BY <1>2, <1>14, <2>3 DEF KillsCover, Live
<1>15. ASSUME NEW r \in Runs, Spawn(r) PROVE Ends' /\ Logs' /\ LinesHandedOut'
  <2>1. PICK t \in todo[r] : /\ t \in Tests
                             /\ todo'   = [todo EXCEPT ![r] = @ \ {t}]
                             /\ worker' = [worker EXCEPT ![r][t] = "starting"]
    BY <1>15 DEF Spawn, IsFirst
  <2>2. /\ phase[r] = "execute"
        /\ UNCHANGED <<phase, list, outcome, stopped, log, output, verdict, faults>>
    BY <1>15 DEF Spawn
  <2>3. Ends'
    BY <1>0, <1>4, <1>13, <2>1, <2>2 DEF TypeOK
  <2>4. CutShort(r)' \subseteq CutShort(r)
    BY <1>0, <2>1, <2>2 DEF TypeOK, CutShort
  <2>5. LogsAreOwn'
    BY <2>2 DEF LossInv, LogsAreOwn
  <2>6. LinesHandedOut'
    BY <1>0, <2>1, <2>2, SMTT(30) DEF LossInv, TypeOK, LinesHandedOut, Curtailed, Serial
  <2> QED
    BY <1>14, <2>2, <2>3, <2>4, <2>5, <2>6
<1>16. ASSUME NEW r \in Runs, NEW t \in Tests, OpenHelper(r, t)
       PROVE  Ends' /\ Logs' /\ LinesHandedOut'
  <2>1. /\ phase[r] = "execute" /\ worker' = [worker EXCEPT ![r][t] = "running"]
        /\ UNCHANGED <<phase, list, todo, outcome, stopped, log, output, verdict, faults>>
    BY <1>3, <1>16 DEF OpenHelper, Busy
  <2>2. Ends'
    BY <1>0, <1>4, <1>13, <2>1 DEF TypeOK
  <2>3. CutShort(r)' \subseteq CutShort(r)
    BY <1>0, <2>1 DEF TypeOK, CutShort
  <2>4. LogsAreOwn'
    BY <2>1 DEF LossInv, LogsAreOwn
  <2>5. LinesHandedOut'
    BY <1>0, <2>1 DEF LossInv, TypeOK, LinesHandedOut, Curtailed, Serial
  <2> QED
    BY <1>14, <2>1, <2>2, <2>3, <2>4, <2>5
<1>17. ASSUME NEW r \in Runs, NEW t \in Tests, TestEnds(r, t)
       PROVE  Ends' /\ Logs' /\ LinesHandedOut'
  <2>1. PICK e \in Exits : outcome' = [outcome EXCEPT ![r][t] = e]
    BY <1>17 DEF TestEnds
  <2>2. /\ phase[r] = "execute"
        /\ log' = [log EXCEPT ![t] = Unknown]
        /\ worker' = [worker EXCEPT ![r][t] = "logging"]
        /\ \A u \in Tests \ {t} : output'[u] = output[u]
        /\ \A q \in Runs : \/ todo'[q] = todo[q]
                           \/ q = r /\ Serial(r) /\ StdinReaders # {}
        /\ UNCHANGED <<phase, list, stopped, verdict, faults>>
    BY <1>0, <1>3, <1>17 DEF TestEnds, Busy, TypeOK
  <2>3. Ends'
    BY <1>0, <1>4, <1>13, <2>1, <2>2 DEF TypeOK
  <2>4. CutShort(r)' \subseteq CutShort(r)
    BY <1>0, <2>1, <2>2 DEF TypeOK, CutShort
  <2>5. LogsAreOwn'
    BY <1>0, <1>2, <2>1, <2>2, SMTT(30) DEF LossInv, TypeOK, LogsAreOwn, Live
  <2>6. LinesHandedOut'
    BY <1>0, <2>2, SMTT(30) DEF LossInv, TypeOK, LinesHandedOut, Curtailed, Serial
  <2> QED
    BY <1>14, <2>2, <2>3, <2>4, <2>5, <2>6
<1>18. ASSUME NEW r \in Runs, NEW t \in Tests, WriteHeader(r, t)
       PROVE  Ends' /\ Logs' /\ LinesHandedOut'
  <2>1. /\ phase[r] = "execute"
        /\ log' = [log EXCEPT ![t] = outcome[r][t]]
        /\ \A u \in Tests \ {t} : output'[u] = output[u]
        /\ worker' = [worker EXCEPT ![r][t] = "copying"]
        /\ UNCHANGED <<phase, list, todo, outcome, stopped, verdict, faults>>
    BY <1>0, <1>3, <1>18 DEF WriteHeader, Busy, TypeOK
  <2>2. Ends'
    BY <1>0, <1>4, <1>13, <2>1 DEF TypeOK
  <2>3. CutShort(r)' \subseteq CutShort(r)
    BY <1>0, <2>1 DEF TypeOK, CutShort
  <2>4. LogsAreOwn'
    BY <1>0, <1>2, <2>1 DEF LossInv, TypeOK, LogsAreOwn, Live
  <2>5. LinesHandedOut'
    BY <1>0, <2>1, SMTT(30) DEF LossInv, TypeOK, LinesHandedOut, Curtailed, Serial
  <2> QED
    BY <1>14, <2>1, <2>2, <2>3, <2>4, <2>5
<1>18a. ASSUME NEW r \in Runs, NEW t \in Tests, WriteRest(r, t)
       PROVE  Ends' /\ Logs' /\ LinesHandedOut'
  <2>1. /\ phase[r] = "execute"
        /\ log[t] = outcome[r][t]
        /\ outcome[r][t] = "ok" => output'[t] = Prints[t]
        /\ \A u \in Tests \ {t} : output'[u] = output[u]
        /\ worker' = [worker EXCEPT ![r][t] = "exited"]
        /\ UNCHANGED <<phase, list, todo, outcome, stopped, log, verdict, faults>>
    BY <1>0, <1>3, <1>18a DEF WriteRest, Busy, TypeOK, LossInv, AloneInv, CopyHasHeader
  <2>2. Ends'
    BY <1>0, <1>4, <1>13, <2>1 DEF TypeOK
  <2>3. CutShort(r)' \subseteq CutShort(r)
    BY <1>0, <2>1 DEF TypeOK, CutShort
  <2>4. LogsAreOwn'
    BY <2>1 DEF LossInv, LogsAreOwn
  <2>5. LinesHandedOut'
    BY <1>0, <2>1, SMTT(30) DEF LossInv, TypeOK, LinesHandedOut, Curtailed, Serial
  <2> QED
    BY <1>14, <2>1, <2>2, <2>3, <2>4, <2>5
(* A kill: one more test cut short, one more kill. *)
<1>19. ASSUME NEW r \in Runs, NEW t \in Tests, Kill(r, t)
       PROVE  Ends' /\ Logs' /\ LinesHandedOut'
  <2>1. /\ phase[r] = "execute"
        /\ faults' = [faults EXCEPT !.kills = @ + 1]
        /\ worker' = [worker EXCEPT ![r][t] = "exited"]
        /\ stopped' = [stopped EXCEPT ![r] = ~Serial(r)]
        /\ UNCHANGED <<phase, list, todo, outcome, log, output, verdict>>
    BY <1>3, <1>19 DEF Kill
  <2>2. faults'.kills = faults.kills + 1
    BY <1>0, <2>1 DEF TypeOK
  <2>3. Ends'
    BY <1>0, <1>4, <1>13, <2>1, <2>2, SMTT(30) DEF TypeOK
  <2>4. CutShort(r)' \subseteq CutShort(r) \cup {t}
    BY <1>0, <2>1 DEF TypeOK, CutShort
  <2>5. KillsCover'
    <3>1. CutShort(r) \in SUBSET Tests /\ Cardinality(CutShort(r)) <= faults.kills
      BY <2>1 DEF LossInv, KillsCover, CutShort, Live
    <3>2. Cardinality(CutShort(r)') <= Cardinality(CutShort(r)) + 1
      BY <2>4, <3>1, OneMoreTest
    <3>3. CutShort(r)' \in SUBSET Tests
      BY DEF CutShort
    <3>4. Cardinality(CutShort(r)) \in Nat /\ Cardinality(CutShort(r)') \in Nat
      BY <3>1, <3>3, FewerTests
    <3>5. Cardinality(CutShort(r)') <= faults'.kills
      BY <1>4, <2>2, <3>1, <3>2, <3>4
    <3> QED
      BY <1>2, <2>1, <3>5 DEF KillsCover, Live
  <2>6. LogsAreOwn'
    BY <2>1 DEF LossInv, LogsAreOwn
  <2>7. LinesHandedOut'
    BY <1>0, <2>1, SMTT(30) DEF LossInv, TypeOK, LinesHandedOut, Curtailed, Serial
  <2> QED
    BY <2>3, <2>5, <2>6, <2>7
(* Ctrl-C: the workers that exit have not been reported. *)
<1>20. ASSUME NEW r \in Runs, Interrupt(r) PROVE Ends' /\ Logs' /\ LinesHandedOut'
  <2>1. /\ phase[r] \in Live /\ phase' = [phase EXCEPT ![r] = "interrupted"]
        /\ worker' = [worker EXCEPT ![r] =
             [t \in Tests |-> IF t \in Active(r) THEN "exited" ELSE worker[r][t]]]
        /\ UNCHANGED <<list, todo, outcome, stopped, log, output, verdict>>
    BY <1>0, <1>20 DEF Interrupt, TypeOK
  <2>2. faults'.kills = faults.kills
    BY <1>0, <1>20 DEF Interrupt, TypeOK
  <2>3. \A q \in Runs : Misreported(q)' = Misreported(q) /\ Curtailed(q)' = Curtailed(q)
    BY <2>1 DEF Misreported, Curtailed, VerdictOf, Serial
  <2>4. \A q \in Runs : \A t \in Misreported(q) : worker'[q][t] = worker[q][t]
    <3> SUFFICES ASSUME NEW q \in Runs, NEW t \in Misreported(q)
                 PROVE  worker'[q][t] = worker[q][t]
      OBVIOUS
    <3>1. t \in Tests /\ worker[q][t] \notin Busy
      BY <1>1, <1>3 DEF Misreported
    <3> QED
      BY <1>0, <2>1, <3>1 DEF TypeOK, Active
  <2>5. \A q \in Runs : Bereft(q)' = Bereft(q)
    BY <2>3, <2>4 DEF Bereft
  <2>6. LossesAccounted'
    BY <2>1, <2>2, <2>3, <2>4, <2>5 DEF LossInv, LossesAccounted
  <2>7. \A q \in Runs : phase'[q] \notin Live
    BY <1>0, <1>2, <2>1 DEF TypeOK, Live
  <2>8. BereftNow' /\ KillsCover' /\ LogsAreOwn'
    BY <2>7 DEF BereftNow, KillsCover, LogsAreOwn, Live
  <2>9. LinesHandedOut'
    BY <2>1, <2>7 DEF LossInv, LinesHandedOut, Live, Serial
  <2> QED
    BY <2>6, <2>8, <2>9
<1>21. CASE UNCHANGED vars
  <2>1. UNCHANGED <<phase, list, todo, worker, outcome, stopped, log, output,
                    verdict, faults>>
    BY <1>21 DEF vars
  <2>2. KillsCover' /\ LogsAreOwn' /\ BereftNow'
    BY <1>5, <2>1 DEF LossInv, KillsCover, LogsAreOwn, BereftNow
  <2>3. LinesHandedOut'
    BY <1>5, <2>1 DEF LossInv, LinesHandedOut, Serial
  <2> QED
    BY <1>0, <1>5, <2>1, <2>2, <2>3 DEF LossInv
<1> QED
  BY <1>0, <1>7, <1>8, <1>9, <1>10, <1>11, <1>12, <1>15, <1>16, <1>17, <1>18, <1>18a,
     <1>19, <1>20, <1>21 DEF LossInv, Next, Shell, Worker

(* Without overlap every misreport has its cause, and workers that were    *)
(* killed account for those of tests that had one; a test that failed or   *)
(* timed out in this invocation is not reported PASS, whoever is killed.   *)
THEOREM LossesHaveCauses == ~Overlap => (Spec => []LossesAccounted)
<1> SUFFICES ASSUME ~Overlap PROVE Spec => []LossesAccounted
  OBVIOUS
<1>1. LossInv /\ [Next]_vars => LossInv'
  BY LossStep
<1>2. LossInv => LossesAccounted
  BY DEF LossInv
<1> QED
  BY <1>1, <1>2, LossInit, PTL DEF Spec

(* In the serial loop, which never gives up its list (`|| true` in         *)
(* execute.sh), at most one report is lost for each worker killed: a wrong *)
(* verdict or a PASS without all its rows (OneLossPerKill).                *)
THEOREM SerialLosesOnePerKill ==
  ~Overlap /\ StdinReaders = {} => (Spec => []OneLossPerKill)
<1> SUFFICES ASSUME ~Overlap, StdinReaders = {} PROVE Spec => []OneLossPerKill
  OBVIOUS
<1>1. LossInv /\ [Next]_vars => LossInv'
  BY LossStep
<1>2. LossInv => OneLossPerKill
  <2> SUFFICES ASSUME LossInv, NEW r \in Runs, Serial(r)
               PROVE  /\ Cardinality(Misreported(r)) <= faults.kills
                      /\ phase[r] = "collect" =>
                           Cardinality(Misreported(r) \cup Torn(r)) <= faults.kills
    BY DEF OneLossPerKill
  <2>1. ~Curtailed(r)
    BY DEF Curtailed
  <2>2. \A t \in Misreported(r) : worker[r][t] = "exited"
    BY <2>1 DEF LossInv, LossesAccounted
  <2>3. Misreported(r) = Bereft(r)
    BY <2>2 DEF Bereft
  <2>4. ASSUME phase[r] = "collect"
        PROVE  Cardinality(Misreported(r) \cup Torn(r)) <= faults.kills
    <3>1. Misreported(r) \subseteq CutShort(r)
      BY <2>3, <2>4 DEF LossInv, BereftNow
    <3>2. ASSUME NEW t \in Torn(r) PROVE t \in CutShort(r)
      <4>1. /\ t \in Tests /\ outcome[r][t] = "ok" /\ output[t] # Prints[t]
        BY DEF Torn
      <4>2. worker[r][t] \notin {"none", "starting", "running"}
        BY <4>1 DEF LossInv, WitnessInv, NoStatusYet, Unknown
      <4>3. worker[r][t] \notin Busy
        BY <2>4, <4>1 DEF LossInv, AloneInv, PoolHasHelper
      <4>4. worker[r][t] = "exited"
        BY <4>1, <4>2, <4>3 DEF LossInv, AloneInv, TypeOK, WorkerStates
      <4> QED
        BY <4>1, <4>4 DEF CutShort
    <3>3. CutShort(r) \in SUBSET Tests /\ Cardinality(CutShort(r)) <= faults.kills
      BY <2>4 DEF LossInv, KillsCover, CutShort, Live
    <3>4. Misreported(r) \cup Torn(r) \in SUBSET CutShort(r)
      BY <3>1, <3>2
    <3>5. /\ Cardinality(CutShort(r)) \in Nat
          /\ Cardinality(Misreported(r) \cup Torn(r)) \in Nat
          /\ Cardinality(Misreported(r) \cup Torn(r)) <= Cardinality(CutShort(r))
      BY <3>3, <3>4, FewerTests
    <3>6. faults.kills \in Nat
      BY RunnerAssumption DEF LossInv, AloneInv, TypeOK
    <3> QED
      BY <3>3, <3>5, <3>6
  <2> QED
    BY <2>3, <2>4 DEF LossInv, LossesAccounted
<1> QED
  BY <1>1, <1>2, LossInit, PTL DEF Spec

-----------------------------------------------------------------------------
(***************************************************************************)
(* The refinement of RunReport by an undisturbed logdir.                   *)
(***************************************************************************)

(* Only listed tests are executed, and only an invocation with a list gets *)
(* past its first line.                                                    *)
OnlyListed ==
  \A r \in Runs :
    /\ phase[r] \in {"idle", "prepare", "chmod"} => todo[r] = {}
    /\ phase[r] = "idle" => list[r] = {}
    /\ phase[r] \in Live => list[r] # {}
    /\ todo[r] \subseteq list[r]
    /\ \A t \in Tests : worker[r][t] \in Busy => t \in list[r]

(* Every listed test waits, is being run, or has an exit status; after the *)
(* pool has ended, all have one.                                           *)
AllRun ==
  \A r \in Runs :
    /\ phase[r] = "execute" =>
         \A t \in list[r] : \/ t \in todo[r]
                            \/ worker[r][t] \in {"starting", "running"}
                            \/ outcome[r][t] \in Exits
    /\ phase[r] \in {"cleanup", "collect"} =>
         \A t \in list[r] : outcome[r][t] \in Exits

RefInv == FreshInv /\ CountInv /\ WitnessInv /\ OnlyListed /\ AllRun

(* Every step of an undisturbed invocation keeps to its list. *)
LEMMA ListedStep ==
  ASSUME Undisturbed, RefInv, [Next]_vars PROVE OnlyListed' /\ AllRun'
<1> USE DEF RefInv, FreshInv, exec, coll
<1> DEFINE Both == OnlyListed /\ AllRun
<1>1. ASSUME NEW r \in Runs, NEW p \in Phases, phase' = [phase EXCEPT ![r] = p],
             p \notin {"idle", "prepare", "execute", "cleanup"},
             p = "chmod" => phase[r] = "prepare",
             p = "collect" => phase[r] = "cleanup",
             UNCHANGED <<list, exec>>
      PROVE  Both'
  BY <1>1 DEF TypeOK, OnlyListed, AllRun, Live
<1>2. ASSUME NEW r \in Runs, Start(r) PROVE Both'
  <2>1. PICK L \in (SUBSET Tests) \ {{}} :
          list' = [list EXCEPT ![r] = L] /\ phase' = [phase EXCEPT ![r] = "prepare"]
    BY <1>2 DEF Start
  <2>2. UNCHANGED exec /\ todo[r] = {} /\ \A t \in Tests : worker[r][t] \notin Busy
    BY <1>2 DEF Start, OnlyListed, PoolHasHelper
  <2>3. /\ phase'[r] = "prepare" /\ list'[r] = L
        /\ \A q \in Runs \ {r} : phase'[q] = phase[q] /\ list'[q] = list[q]
    BY <2>1 DEF TypeOK
  <2>4. OnlyListed'
    BY <2>1, <2>2, <2>3 DEF OnlyListed
  <2>5. AllRun'
    BY <2>2, <2>3 DEF AllRun
  <2> QED
    BY <2>4, <2>5
<1>3. ASSUME NEW r \in Runs,
             StartEmpty(r) \/ WriteHelper(r) \/ BeginCollect(r) \/ EndCollect(r)
      PROVE  Both'
  BY <1>1, <1>3 DEF StartEmpty, WriteHelper, BeginCollect, EndCollect, Phases
<1>4. ASSUME NEW r \in Runs, ChmodHelper(r) PROVE Both'
  <2>1. /\ phase[r] = "chmod" /\ phase' = [phase EXCEPT ![r] = "execute"]
        /\ todo' = [todo EXCEPT ![r] = list[r]]
        /\ UNCHANGED <<list, worker, outcome>>
    BY <1>4 DEF ChmodHelper, PoolHasHelper
  <2> QED
    BY <2>1 DEF TypeOK, OnlyListed, AllRun, Live
<1>5. ASSUME NEW r \in Runs, Spawn(r) PROVE Both'
  <2>1. PICK t \in todo[r] :
          /\ todo'   = [todo EXCEPT ![r] = @ \ {t}]
          /\ worker' = [worker EXCEPT ![r][t] = "starting"]
    BY <1>5 DEF Spawn, IsFirst
  <2>2. phase[r] = "execute" /\ t \in Tests /\ UNCHANGED <<phase, list, outcome>>
    BY <1>5 DEF Spawn, TypeOK
  <2>3. OnlyListed'
    BY <2>1, <2>2 DEF TypeOK, OnlyListed
  <2>4. AllRun'
    BY <2>1, <2>2 DEF TypeOK, AllRun
  <2> QED
    BY <2>3, <2>4
<1>6. ASSUME NEW r \in Runs, EndExecute(r) PROVE Both'
  <2>1. \A t \in list[r] : outcome[r][t] \in Exits
    BY <1>6 DEF EndExecute, NothingStopped, Active, Busy, TypeOK, AllRun
  <2>2. /\ phase[r] = "execute" /\ phase' = [phase EXCEPT ![r] = "cleanup"]
        /\ UNCHANGED <<list, exec>>
    BY <1>6 DEF EndExecute
  <2> QED
    BY <2>1, <2>2 DEF TypeOK, OnlyListed, AllRun, Live
<1>7. ASSUME NEW r \in Runs, Collect(r) PROVE Both'
  BY <1>7 DEF Collect, OnlyListed, AllRun
<1>8. ASSUME NEW r \in Runs, Interrupt(r) PROVE Both'
  <2>1. OnlyListed'
    BY <1>8 DEF Interrupt, TypeOK, OnlyListed, Live, Busy
  <2>2. /\ phase' = [phase EXCEPT ![r] = "interrupted"]
        /\ \A q \in Runs \ {r} : worker'[q] = worker[q]
        /\ UNCHANGED <<list, todo, outcome>>
    BY <1>8 DEF Interrupt, TypeOK
  <2>3. AllRun'
    BY <2>2 DEF TypeOK, AllRun
  <2> QED
    BY <2>1, <2>3
<1>9. ASSUME NEW r \in Runs, NEW t \in Tests, OpenHelper(r, t) PROVE Both'
  <2>1. helper
    BY <1>9 DEF OpenHelper, PoolHasHelper, Busy
  <2> QED
    BY <1>9, <2>1 DEF OpenHelper, TypeOK, OnlyListed, AllRun, Busy
<1>10. ASSUME NEW r \in Runs, NEW t \in Tests, TestEnds(r, t) PROVE Both'
  <2>1. UNCHANGED todo
    BY <1>10 DEF TestEnds, Undisturbed
  <2>2. OnlyListed'
    BY <1>10, <2>1 DEF TestEnds, TypeOK, OnlyListed, Busy
  <2>3. AllRun'
    BY <1>10, <2>1 DEF TestEnds, TypeOK, AllRun
  <2> QED
    BY <2>2, <2>3
<1>11. ASSUME NEW r \in Runs, NEW t \in Tests, WriteHeader(r, t) \/ WriteRest(r, t)
       PROVE  Both'
  <2>1. PICK w \in {"copying", "exited"} : worker' = [worker EXCEPT ![r][t] = w]
    BY <1>11 DEF WriteHeader, WriteRest
  <2>2. /\ worker[r][t] \in {"logging", "copying"}
        /\ UNCHANGED <<phase, list, todo, outcome>>
    BY <1>11 DEF WriteHeader, WriteRest
  <2> QED
    BY <2>1, <2>2 DEF TypeOK, OnlyListed, AllRun, Busy
<1>12. ASSUME NEW r \in Runs, NEW t \in Tests PROVE ~Kill(r, t)
  BY DEF Kill, Undisturbed, NothingStopped
<1>13. CASE UNCHANGED vars
  BY <1>13 DEF vars, OnlyListed, AllRun
<1> QED
  BY <1>2, <1>3, <1>4, <1>5, <1>6, <1>7, <1>8, <1>9, <1>10, <1>11, <1>12, <1>13
  DEF Next, Shell, Worker

(* Moving from one phase to the next of a live invocation is not seen by   *)
(* the report.                                                             *)
LEMMA StageKept ==
  ASSUME TypeOK, NEW r \in Runs, phase[r] \in Live,
         NEW p \in Live, phase' = [phase EXCEPT ![r] = p], UNCHANGED list
  PROVE  Stage' = Stage
<1>1. ASSUME NEW q \in Runs PROVE Stage'[q] = Stage[q]
  BY DEF TypeOK, Stage, Live
<1> QED
  BY <1>1 DEF Stage

(* The initial states are those of the promise. *)
LEMMA RefInit == Init => Report!Init
<1> SUFFICES ASSUME Init PROVE Report!Init
  OBVIOUS
<1>1. Stage = [r \in Runs |-> "idle"]
  BY DEF Init, Stage, Live
<1> QED
  BY <1>1 DEF Init, Report!Init, Unknown

(* Every step of an undisturbed invocation is a step of the promise or is  *)
(* not seen by it.                                                         *)
LEMMA RefStep ==
  ASSUME Undisturbed, RefInv, [Next]_vars PROVE [Report!Next]_(Report!vars)
<1> USE DEF RefInv, FreshInv, exec, coll
<1>1. ASSUME NEW r \in Runs, Start(r) PROVE Report!Open(r)
  <2>1. \A q \in Runs : Stage[q] # "open"
    BY <1>1 DEF Start, Undisturbed, Stage
  <2>2. Stage[r] = "idle"
    BY <1>1 DEF Start, Stage, Live
  <2>3. PICK L \in (SUBSET Tests) \ {{}} : list' = [list EXCEPT ![r] = L]
    BY <1>1 DEF Start
  <2>4. Stage' = [Stage EXCEPT ![r] = "open"]
    <3>1. phase' = [phase EXCEPT ![r] = "prepare"]
      BY <1>1 DEF Start
    <3>2. Stage'[r] = "open"
      BY <3>1 DEF Stage, TypeOK, Live
    <3>3. ASSUME NEW q \in Runs, q # r PROVE Stage'[q] = Stage[q]
      BY <2>3, <3>1, <3>3 DEF Stage, TypeOK
    <3> QED
      BY <3>2, <3>3, ZenonT(30) DEF Stage
  <2> QED
    BY <1>1, <2>1, <2>2, <2>3, <2>4 DEF Start, Report!Open
<1>2. ASSUME NEW r \in Runs, Stage[r] \in {"idle", "open"},
             \/ phase' = [phase EXCEPT ![r] = "done"] /\ list[r] = {}
             \/ phase' = [phase EXCEPT ![r] = "interrupted"],
             status' = [status EXCEPT ![r] = "failed"],
             UNCHANGED <<list, outcome, verdict>>
      PROVE  Report!Abort(r)
  <2>1. Stage'[r] = "aborted"
    BY <1>2 DEF Stage, TypeOK, Live
  <2>2. ASSUME NEW q \in Runs, q # r PROVE Stage'[q] = Stage[q]
    BY <1>2, <2>2 DEF Stage, TypeOK
  <2>3. Stage' = [Stage EXCEPT ![r] = "aborted"]
    BY <2>1, <2>2 DEF Stage
  <2> QED
    BY <1>2, <2>3 DEF Report!Abort
<1>3. ASSUME NEW r \in Runs, StartEmpty(r) PROVE Report!Abort(r)
  <2>1. Stage[r] = "idle" /\ list[r] = {}
    BY <1>3 DEF StartEmpty, Stage, OnlyListed
  <2> QED
    BY <1>2, <1>3, <2>1 DEF StartEmpty
<1>4. ASSUME NEW r \in Runs, Interrupt(r) PROVE Report!Abort(r)
  <2>1. Stage[r] = "open"
    BY <1>4 DEF Interrupt, Stage, Live
  <2> QED
    BY <1>2, <1>4, <2>1 DEF Interrupt
<1>5. ASSUME NEW r \in Runs,
             WriteHelper(r) \/ ChmodHelper(r) \/ EndExecute(r) \/ BeginCollect(r)
      PROVE  UNCHANGED Report!vars
  <2>1. /\ phase[r] \in Live
        /\ \E p \in Live : phase' = [phase EXCEPT ![r] = p]
    BY <1>5 DEF WriteHelper, ChmodHelper, EndExecute, BeginCollect, Live, PoolHasHelper
  <2>2. UNCHANGED <<list, outcome, verdict, status>>
    BY <1>5 DEF WriteHelper, ChmodHelper, EndExecute, BeginCollect, PoolHasHelper
  <2> QED
    BY <2>1, <2>2, StageKept DEF Report!vars
<1>6. ASSUME UNCHANGED <<phase, list, outcome, verdict, status>>
      PROVE  UNCHANGED Report!vars
  BY <1>6 DEF Report!vars, Stage
<1>7. ASSUME NEW r \in Runs, Spawn(r) PROVE UNCHANGED Report!vars
  BY <1>6, <1>7 DEF Spawn
<1>8. ASSUME NEW r \in Runs, NEW t \in Tests,
             OpenHelper(r, t) \/ WriteHeader(r, t) \/ WriteRest(r, t)
      PROVE  UNCHANGED Report!vars
  <2>1. UNCHANGED <<phase, list, outcome, verdict, status>>
    BY <1>8 DEF OpenHelper, WriteHeader, WriteRest
  <2> QED
    BY <1>6, <2>1
<1>9. ASSUME NEW r \in Runs, NEW t \in Tests, TestEnds(r, t)
      PROVE  Report!Execute(r, t)
  <2>1. Stage[r] = "open"
    BY <1>9 DEF TestEnds, PoolHasHelper, Busy, Stage, Live
  <2>2. t \in list[r] /\ outcome[r][t] = "unknown"
    BY <1>9 DEF TestEnds, OnlyListed, Busy, WitnessInv, NoStatusYet, Unknown
  <2>3. UNCHANGED <<phase, list, verdict, status>>
    BY <1>9 DEF TestEnds
  <2>4. \E e \in {"ok", "timeout", "fail"} : outcome' = [outcome EXCEPT ![r][t] = e]
    BY <1>9 DEF TestEnds, Exits
  <2>5. UNCHANGED Stage
    BY <2>3 DEF Stage
  <2> QED
    BY <2>1, <2>2, <2>3, <2>4, <2>5 DEF Report!Execute
<1>10. ASSUME NEW r \in Runs, Collect(r)
       PROVE  \E t \in Tests : Report!Tell(r, t)
  <2>1. PICK t \in unread[r] : verdict' = [verdict EXCEPT ![r][t] = VerdictOf(log[t])]
    BY <1>10 DEF Collect, IsFirst
  <2>2. phase[r] = "collect" /\ UNCHANGED <<phase, list, outcome, status>>
    BY <1>10 DEF Collect
  <2>3. Stage[r] = "open" /\ UNCHANGED Stage
    BY <2>2 DEF Stage, Live
  <2>4. /\ t \in Tests /\ t \in list[r] /\ verdict[r][t] = "none"
        /\ log[t] = outcome[r][t]
    BY <2>1, <2>2 DEF TypeOK, CountInv, ReadIsReported, NoTestLost, Settled
  <2>5. \A u \in list[r] : outcome[r][u] \in Exits
    BY <2>2 DEF AllRun
  <2>6. \A u \in list[r] : outcome[r][u] # "unknown"
    BY <2>5 DEF Exits
  <2>7. VerdictOf(log[t]) = Report!Says(outcome[r][t])
    BY <2>4, <2>5 DEF VerdictOf, Report!Says, Exits, NoLog
  <2> QED
    BY <2>1, <2>2, <2>3, <2>4, <2>6, <2>7 DEF Report!Tell
<1>11. ASSUME NEW r \in Runs, EndCollect(r) PROVE Report!Close(r)
  <2>1. /\ phase[r] = "collect" /\ unread[r] = {}
        /\ phase' = [phase EXCEPT ![r] = "done"]
        /\ status' = [status EXCEPT ![r] = IF count[r].fail = 0 THEN "ok" ELSE "failed"]
        /\ UNCHANGED <<list, outcome, verdict>>
    BY <1>11 DEF EndCollect
  <2>2. Stage[r] = "open" /\ list[r] # {}
    BY <2>1 DEF Stage, Live, OnlyListed
  <2>3. \A t \in Tests : t \in list[r] <=> verdict[r][t] # "none"
    BY <2>1 DEF CountInv, ReadIsReported
  <2>4. Stage' = [Stage EXCEPT ![r] = "closed"]
    <3>1. Stage'[r] = "closed"
      BY <2>1, <2>2 DEF Stage, TypeOK, Live
    <3>2. ASSUME NEW q \in Runs, q # r PROVE Stage'[q] = Stage[q]
      BY <2>1, <3>2 DEF Stage, TypeOK
    <3> QED
      BY <3>1, <3>2, ZenonT(40) DEF Stage
  <2>5. \A t \in Tests : verdict[r][t] # "MISSING"
    <3> SUFFICES ASSUME NEW t \in Tests, verdict[r][t] = "MISSING" PROVE FALSE
      OBVIOUS
    <3>1. VerdictOf(outcome[r][t]) = "MISSING"
      BY DEF FreshVerdict
    <3>2. outcome[r][t] \in Exits \cup {Unknown}
      BY DEF TypeOK
    <3> QED
      BY <3>1, <3>2 DEF VerdictOf, Exits, Unknown, NoLog
  <2>6. count[r].fail = 0 <=> ~ \E t \in list[r] : verdict[r][t] = "FAIL"
    <3>1. count[r].fail = Cardinality(Reported(r, {"FAIL", "MISSING"}))
      BY DEF CountInv, Tallied
    <3>2. count[r].fail = 0 <=> Reported(r, {"FAIL", "MISSING"}) = {}
      BY <3>1, ReportedFinite, FS_EmptySet
    <3> QED
      BY <2>3, <2>5, <3>2 DEF Reported, TypeOK
  <2>7. status' = [status EXCEPT ![r] =
                     IF \E t \in list[r] : verdict[r][t] = "FAIL" THEN "failed"
                                                                ELSE "ok"]
    BY <2>1, <2>6
  <2>8. \A t \in list[r] : verdict[r][t] # "none"
    BY <2>3 DEF TypeOK
  <2> QED
    BY <2>1, <2>2, <2>4, <2>7, <2>8 DEF Report!Close
<1>12. ASSUME NEW r \in Runs, NEW t \in Tests PROVE ~Kill(r, t)
  BY DEF Kill, Undisturbed, NothingStopped
<1>13. CASE UNCHANGED vars
  BY <1>6, <1>13 DEF vars
<1> QED
  BY <1>1, <1>3, <1>4, <1>5, <1>7, <1>8, <1>9, <1>10, <1>11, <1>12, <1>13
  DEF Next, Shell, Worker, Report!Next

(* An undisturbed runner implements the promise of RunReport               *)
(* (ImplementsReport).                                                     *)
THEOREM RunnerImplementsReport == Undisturbed => (Spec => ImplementsReport)
<1> SUFFICES ASSUME Undisturbed PROVE Spec => Report!Spec
  BY DEF ImplementsReport
<1>1. Init => RefInv
  <2> SUFFICES ASSUME Init PROVE RefInv
    OBVIOUS
  <2>1. FreshInv /\ CountInv /\ WitnessInv
    BY FreshInit, CountInit, WitnessInit
  <2>2. OnlyListed /\ AllRun
    BY DEF Init, OnlyListed, AllRun, Live, Busy
  <2> QED
    BY <2>1, <2>2 DEF RefInv
<1>2. RefInv /\ [Next]_vars => RefInv'
  BY FreshStep, CountStep, WitnessStep, ListedStep DEF RefInv
<1>3. RefInv /\ [Next]_vars => [Report!Next]_(Report!vars)
  BY RefStep
<1> QED
  BY <1>1, <1>2, <1>3, RefInit, PTL DEF Spec, Report!Spec
-----------------------------------------------------------------------------
(***************************************************************************)
(* Every step is a step forward.  EveryRunEnds says that an invocation     *)
(* ends if its processes are scheduled; that they cannot go round in       *)
(* circles meanwhile, whatever overlaps, is killed or is interrupted, is   *)
(* proved here: a measure of what is left to do falls with every step.     *)
(***************************************************************************)

(* The stages an invocation has before it. *)
StagesLeft(p) == CASE p = "idle"    -> 6
                   [] p = "prepare" -> 5
                   [] p = "chmod"   -> 4
                   [] p = "execute" -> 3
                   [] p = "cleanup" -> 2
                   [] p = "collect" -> 1
                   [] OTHER         -> 0

(* The tests whose worker is in one of these states. *)
WorkersIn(r, W) == {t \in Tests : worker[r][t] \in W}

(* Each test waits for a worker; the worker opens its script, runs the     *)
(* command, writes the log's header and copies the output; and then the    *)
(* test is reported.                                                       *)
Unstarted(r)  == WorkersIn(r, {"none"})
Unopened(r)   == WorkersIn(r, {"none", "starting"})
Unended(r)    == WorkersIn(r, {"none", "starting", "running"})
Unlogged(r)   == WorkersIn(r, {"none", "starting", "running", "logging"})
Uncopied(r)   == WorkersIn(r, Busy \cup {"none"})
Unreported(r) == {t \in Tests : verdict[r][t] = "none"}

StepsLeft(r) ==
  StagesLeft(phase[r]) + Cardinality(Unstarted(r)) + Cardinality(Unopened(r))
    + Cardinality(Unended(r)) + Cardinality(Unlogged(r)) + Cardinality(Uncopied(r))
    + Cardinality(Unreported(r))

(* No more steps are left than an invocation of every test takes. *)
StepsBounded ==
  \A r \in Runs : StepsLeft(r) \in 0 .. 6 + 6 * Cardinality(Tests)

(* One invocation moves on, and the others stay where they are. *)
MovesOn == \E r \in Runs : /\ StepsLeft(r)' < StepsLeft(r)
                           /\ \A q \in Runs \ {r} : StepsLeft(q)' = StepsLeft(q)

(* Fewer tests, if one is gone. *)
LEMMA OneTestLess ==
  ASSUME NEW S \in SUBSET Tests, NEW T \in SUBSET S, NEW t \in S, t \notin T
  PROVE  Cardinality(T) < Cardinality(S)
<1>1. IsFiniteSet(S) /\ Cardinality(S) \in Nat
  BY FewerTests
<1>2. Cardinality(S \ {t}) = Cardinality(S) - 1
  BY <1>1, FS_RemoveElement
<1>3. T \in SUBSET (S \ {t}) /\ S \ {t} \in SUBSET Tests
  OBVIOUS
<1>4. /\ Cardinality(T) \in Nat /\ Cardinality(S \ {t}) \in Nat
      /\ Cardinality(T) <= Cardinality(S \ {t})
  BY <1>3, FewerTests
<1> QED
  BY <1>1, <1>2, <1>4

(* The numbers of the measure are natural numbers. *)
LEMMA StagesAre == ASSUME NEW p PROVE StagesLeft(p) \in 0 .. 6
  BY DEF StagesLeft

LEMMA SetsAre ==
  ASSUME NEW r \in Runs
  PROVE  /\ Unstarted(r) \in SUBSET Tests /\ Unopened(r) \in SUBSET Tests
         /\ Unended(r) \in SUBSET Tests /\ Unlogged(r) \in SUBSET Tests
         /\ Uncopied(r) \in SUBSET Tests /\ Unreported(r) \in SUBSET Tests
  BY DEF Unstarted, Unopened, Unended, Unlogged, Uncopied, Unreported, WorkersIn

(* The measure falls when no part of it rises and one of them falls. *)
LEMMA MeasureFalls ==
  ASSUME NEW r \in Runs,
         StagesLeft(phase'[r]) <= StagesLeft(phase[r]),
         Unstarted(r)' \subseteq Unstarted(r), Unopened(r)' \subseteq Unopened(r),
         Unended(r)' \subseteq Unended(r), Unlogged(r)' \subseteq Unlogged(r),
         Uncopied(r)' \subseteq Uncopied(r), Unreported(r)' \subseteq Unreported(r),
         \/ StagesLeft(phase'[r]) < StagesLeft(phase[r])
         \/ \E t \in Tests : \/ t \in Unstarted(r) \ Unstarted(r)'
                             \/ t \in Unopened(r) \ Unopened(r)'
                             \/ t \in Unended(r) \ Unended(r)'
                             \/ t \in Unlogged(r) \ Unlogged(r)'
                             \/ t \in Uncopied(r) \ Uncopied(r)'
                             \/ t \in Unreported(r) \ Unreported(r)'
  PROVE  StepsLeft(r)' < StepsLeft(r)
<1> DEFINE Fall(S, T) == /\ Cardinality(S) \in Nat /\ Cardinality(T) \in Nat
                         /\ Cardinality(T) <= Cardinality(S)
                         /\ (\E t \in Tests : t \in S \ T) => Cardinality(T) < Cardinality(S)
<1>1. ASSUME NEW S \in SUBSET Tests, NEW T \in SUBSET S PROVE Fall(S, T)
  BY FewerTests, OneTestLess
<1>2. /\ Fall(Unstarted(r), Unstarted(r)') /\ Fall(Unopened(r), Unopened(r)')
      /\ Fall(Unended(r), Unended(r)') /\ Fall(Unlogged(r), Unlogged(r)')
      /\ Fall(Uncopied(r), Uncopied(r)') /\ Fall(Unreported(r), Unreported(r)')
  BY <1>1, SetsAre
<1>3. StagesLeft(phase[r]) \in 0 .. 6 /\ StagesLeft(phase'[r]) \in 0 .. 6
  BY StagesAre
<1> QED
  BY <1>2, <1>3 DEF StepsLeft

(* Every step falls. *)
LEMMA StepMovesOn ==
  ASSUME TypeOK, CountInv, WitnessInv, Next PROVE MovesOn
<1> USE DEF exec, coll
<1> DEFINE Others(r) == \A q \in Runs \ {r} : StepsLeft(q)' = StepsLeft(q)
           Sets(r) == /\ Unstarted(r)' \subseteq Unstarted(r)
                      /\ Unopened(r)' \subseteq Unopened(r)
                      /\ Unended(r)' \subseteq Unended(r)
                      /\ Unlogged(r)' \subseteq Unlogged(r)
                      /\ Uncopied(r)' \subseteq Uncopied(r)
                      /\ Unreported(r)' \subseteq Unreported(r)
(* What is not touched does not move. *)
<1>1. ASSUME NEW r \in Runs,
             \A q \in Runs \ {r} : /\ phase'[q] = phase[q] /\ worker'[q] = worker[q]
                                   /\ verdict'[q] = verdict[q]
      PROVE  Others(r)
  <2>1. ASSUME NEW q \in Runs \ {r} PROVE StepsLeft(q)' = StepsLeft(q)
    <3>1. phase'[q] = phase[q] /\ worker'[q] = worker[q] /\ verdict'[q] = verdict[q]
      BY <1>1
    <3>2. /\ Unstarted(q)' = Unstarted(q) /\ Unopened(q)' = Unopened(q)
          /\ Unended(q)' = Unended(q) /\ Unlogged(q)' = Unlogged(q)
          /\ Uncopied(q)' = Uncopied(q) /\ Unreported(q)' = Unreported(q)
      BY <3>1 DEF Unstarted, Unopened, Unended, Unlogged, Uncopied, Unreported, WorkersIn
    <3> QED
      BY <3>1, <3>2 DEF StepsLeft
  <2> QED
    BY <2>1
(* A shell moves to a later stage. *)
<1>2. ASSUME NEW r \in Runs, NEW p \in Phases, phase' = [phase EXCEPT ![r] = p],
             StagesLeft(p) < StagesLeft(phase[r]), UNCHANGED <<worker, verdict>>
      PROVE  MovesOn
  <2>1. phase'[r] = p
    BY <1>2 DEF TypeOK
  <2>2. Sets(r)
    BY <1>2 DEF Unstarted, Unopened, Unended, Unlogged, Uncopied, Unreported, WorkersIn
  <2>3. StagesLeft(phase[r]) \in Int /\ StagesLeft(phase'[r]) \in Int
    BY StagesAre
  <2>4. StepsLeft(r)' < StepsLeft(r)
    BY <1>2, <2>1, <2>2, <2>3, MeasureFalls
  <2>5. Others(r)
    BY <1>1, <1>2 DEF TypeOK
  <2> QED
    BY <2>4, <2>5 DEF MovesOn
<1>3. ASSUME NEW r \in Runs,
             \/ Start(r) \/ StartEmpty(r) \/ WriteHelper(r) \/ ChmodHelper(r)
             \/ EndExecute(r) \/ BeginCollect(r) \/ EndCollect(r)
      PROVE  MovesOn
  <2>1. PICK p \in Phases : /\ phase' = [phase EXCEPT ![r] = p]
                            /\ StagesLeft(p) < StagesLeft(phase[r])
    BY <1>3 DEF Start, StartEmpty, WriteHelper, ChmodHelper, EndExecute, BeginCollect,
                EndCollect, StagesLeft, Phases
  <2>2. UNCHANGED <<worker, verdict>>
    BY <1>3 DEF Start, StartEmpty, WriteHelper, ChmodHelper, EndExecute, BeginCollect,
                EndCollect
  <2> QED
    BY <1>2, <2>1, <2>2
(* A worker moves on, or is killed. *)
<1>4. ASSUME NEW r \in Runs, NEW t \in Tests, NEW w \in WorkerStates,
             UNCHANGED <<phase, verdict>>, worker' = [worker EXCEPT ![r][t] = w],
             \/ worker[r][t] = "none" /\ w = "starting"
             \/ worker[r][t] = "starting" /\ w = "running"
             \/ worker[r][t] = "running" /\ w = "logging"
             \/ worker[r][t] = "logging" /\ w = "copying"
             \/ worker[r][t] \in Busy /\ w = "exited"
      PROVE  MovesOn
  <2>1. Sets(r)
    BY <1>4
    DEF TypeOK, Unstarted, Unopened, Unended, Unlogged, Uncopied, Unreported, WorkersIn,
        Busy
  <2>2. \/ t \in Unstarted(r) \ Unstarted(r)' \/ t \in Unopened(r) \ Unopened(r)'
        \/ t \in Unended(r) \ Unended(r)' \/ t \in Unlogged(r) \ Unlogged(r)'
        \/ t \in Uncopied(r) \ Uncopied(r)'
    BY <1>4 DEF TypeOK, Unstarted, Unopened, Unended, Unlogged, Uncopied, WorkersIn, Busy
  <2>3. StagesLeft(phase'[r]) <= StagesLeft(phase[r])
    BY <1>4, StagesAre
  <2>4. StepsLeft(r)' < StepsLeft(r)
    BY <2>1, <2>2, <2>3, MeasureFalls
  <2>5. Others(r)
    BY <1>1, <1>4 DEF TypeOK
  <2> QED
    BY <2>4, <2>5 DEF MovesOn
<1>5. ASSUME NEW r \in Runs, Spawn(r) PROVE MovesOn
  <2>1. PICK t \in Tests : t \in todo[r] /\ worker' = [worker EXCEPT ![r][t] = "starting"]
    BY <1>5 DEF Spawn, IsFirst
  <2>2. worker[r][t] = "none"
    BY <2>1 DEF WitnessInv, HandedOutOnce
  <2>3. UNCHANGED <<phase, verdict>> /\ "starting" \in WorkerStates
    BY <1>5 DEF Spawn, WorkerStates, Busy
  <2> QED
    BY <1>4, <2>1, <2>2, <2>3
<1>6. ASSUME NEW r \in Runs, NEW t \in Tests, Worker(r, t) \/ Kill(r, t)
      PROVE  MovesOn
  <2>1. PICK w \in WorkerStates :
          /\ worker' = [worker EXCEPT ![r][t] = w]
          /\ \/ worker[r][t] = "starting" /\ w = "running"
             \/ worker[r][t] = "running" /\ w = "logging"
             \/ worker[r][t] = "logging" /\ w = "copying"
             \/ worker[r][t] \in Busy /\ w = "exited"
    BY <1>6 DEF Worker, OpenHelper, TestEnds, WriteHeader, WriteRest, Kill, WorkerStates, Busy
  <2>2. UNCHANGED <<phase, verdict>>
    BY <1>6 DEF Worker, OpenHelper, TestEnds, WriteHeader, WriteRest, Kill
  <2> QED
    BY <1>4, <2>1, <2>2
<1>7. ASSUME NEW r \in Runs, Collect(r) PROVE MovesOn
  <2>1. PICK t \in unread[r] :
          t \in Tests /\ verdict' = [verdict EXCEPT ![r][t] = VerdictOf(log[t])]
    BY <1>7 DEF Collect, IsFirst
  <2>2. phase[r] = "collect" /\ UNCHANGED <<phase, worker>>
    BY <1>7 DEF Collect
  <2>3. verdict[r][t] = "none"
    BY <2>1, <2>2 DEF CountInv, ReadIsReported
  <2>4. VerdictOf(log[t]) # "none"
    BY DEF VerdictOf
  <2>5. Sets(r) /\ t \in Unreported(r) \ Unreported(r)'
    BY <2>1, <2>2, <2>3, <2>4
    DEF TypeOK, Unstarted, Unopened, Unended, Unlogged, Uncopied, Unreported, WorkersIn,
        Busy
  <2>6. StagesLeft(phase'[r]) <= StagesLeft(phase[r])
    BY <2>2, StagesAre
  <2>7. StepsLeft(r)' < StepsLeft(r)
    BY <2>1, <2>5, <2>6, MeasureFalls
  <2>8. Others(r)
    BY <1>1, <2>1, <2>2 DEF TypeOK
  <2> QED
    BY <2>7, <2>8 DEF MovesOn
<1>8. ASSUME NEW r \in Runs, Interrupt(r) PROVE MovesOn
  <2>1. /\ phase' = [phase EXCEPT ![r] = "interrupted"]
        /\ worker' = [worker EXCEPT ![r] =
             [t \in Tests |-> IF t \in Active(r) THEN "exited" ELSE worker[r][t]]]
        /\ phase[r] \in Live /\ UNCHANGED verdict
    BY <1>8 DEF Interrupt, TypeOK
  <2>2. Sets(r)
    BY <2>1
    DEF TypeOK, Unstarted, Unopened, Unended, Unlogged, Uncopied, Unreported, WorkersIn,
        Busy
  <2>3. StagesLeft(phase'[r]) < StagesLeft(phase[r])
    BY <2>1 DEF TypeOK, StagesLeft, Live
  <2>4. StagesLeft(phase[r]) \in Int /\ StagesLeft(phase'[r]) \in Int
    BY StagesAre
  <2>5. StepsLeft(r)' < StepsLeft(r)
    BY <2>2, <2>3, <2>4, MeasureFalls
  <2>6. Others(r)
    BY <1>1, <2>1 DEF TypeOK
  <2> QED
    BY <2>5, <2>6 DEF MovesOn
<1> QED
  BY <1>3, <1>5, <1>6, <1>7, <1>8 DEF Next, Shell

(* However invocations overlap, are killed or interrupted, each of them    *)
(* takes at most 6 + 6 |Tests| steps: every step of Next takes one of the  *)
(* steps that an invocation has left, and gives none back.                 *)
THEOREM RunsDoNotLoop == Spec => []StepsBounded /\ [][MovesOn]_vars
<1>1. TypeOK => StepsBounded
  <2> SUFFICES ASSUME TypeOK, NEW r \in Runs
               PROVE  StepsLeft(r) \in 0 .. 6 + 6 * Cardinality(Tests)
    BY DEF StepsBounded
  <2>1. ASSUME NEW S \in SUBSET Tests
        PROVE  /\ Cardinality(S) \in Nat /\ Cardinality(Tests) \in Nat
               /\ Cardinality(S) <= Cardinality(Tests)
    BY FewerTests
  <2>2. StagesLeft(phase[r]) \in 0 .. 6
    BY StagesAre
  <2> QED
    BY <2>1, <2>2, SetsAre DEF StepsLeft
<1>2. CountInv /\ WitnessInv /\ [Next]_vars => (CountInv /\ WitnessInv)'
  BY CountStep, WitnessStep
<1>3. CountInv /\ WitnessInv /\ [Next]_vars => [MovesOn]_vars
  BY StepMovesOn DEF CountInv
<1>4. CountInv => TypeOK
  BY DEF CountInv
<1> QED
  BY <1>1, <1>2, <1>3, <1>4, CountInit, WitnessInit, PTL DEF Spec
=============================================================================
