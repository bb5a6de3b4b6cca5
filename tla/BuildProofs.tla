---------------------------- MODULE BuildProofs -----------------------------
(***************************************************************************)
(* Theorems about `uarch build uarch <target>`, for every set of tests and *)
(* profiles, every --jobs, and any edits, kills and interrupts: what a     *)
(* build that ends with 0 leaves, and that no build goes round in circles. *)
(***************************************************************************)
EXTENDS Build, FiniteSetTheorems, TLAPS

(* A plan is worked off from its head: checkpoints are saved last, and     *)
(* right after the directory they come from.                               *)
LEMMA PlanTail ==
  ASSUME NEW p \in Plans, p # <<>>
  PROVE  /\ Head(p) \in Dirs \cup {"save"}
         /\ Tail(p) \in Plans
         /\ Head(p) = "save" <=> p = <<"save">>
         /\ Head(p) = "checkpoint" <=> p = <<"checkpoint", "save">>
         /\ Tail(p) = <<"save">> <=> p = <<"checkpoint", "save">>
         /\ p = <<"save">> => Tail(p) = <<>>
<1>1. CASE p = <<"save">>
  BY <1>1 DEF Plans, Dirs
<1>2. CASE p = <<"checkpoint", "save">>
  BY <1>2 DEF Plans, Dirs
<1>3. CASE p = <<"spike", "checkpoint", "save">>
  BY <1>3 DEF Plans, Dirs
<1>4. CASE p = <<"linux", "spike", "checkpoint", "save">>
  BY <1>4 DEF Plans, Dirs
<1>5. CASE p = <<"linux">>
  BY <1>5 DEF Plans, Dirs
<1>6. CASE p = <<"spike">>
  BY <1>6 DEF Plans, Dirs
<1> QED
  BY <1>1, <1>2, <1>3, <1>4, <1>5, <1>6 DEF Plans

(* A target starts with a directory to build. *)
LEMMA TargetPlan ==
  ASSUME NEW target \in Targets
  PROVE  Tasks(target) \in Plans \ {<<>>, <<"save">>}
  BY DEF Tasks, Targets, Plans, Dirs

(* Before the first invocation there are no files. *)
LEMMA TypeInit == Init => TypeOK
<1> SUFFICES ASSUME Init PROVE TypeOK
  OBVIOUS
<1>1. bound \in [edits : 0 .. MaxEdits, builds : 0 .. MaxBuilds, kills : 0 .. MaxKills]
  BY BuildAssumption DEF Init
<1>2. elf \in [Dirs -> [Tests -> [arch : Archs \cup {"absent"},
                                 stale : SUBSET Kinds, newer : SUBSET Kinds]]]
  BY DEF Init, NoElf
<1> QED
  BY <1>1, <1>2 DEF Init, TypeOK, Plans

(* Replacing or removing an executable leaves every checkpoint a state.    *)
LEMMA OutdateType ==
  ASSUME ckpt \in [Tests -> {"none", "partial", "old", "current"}], NEW S
  PROVE  Outdate(S) \in [Tests -> {"none", "partial", "old", "current"}]
  BY DEF Outdate

(* While make or the pool is at work, the plan's head says so, and with     *)
(* --clean neither ever is.                                                *)
TaskInPhase ==
  /\ phase = "make" => plan # <<>> /\ Task \in Dirs /\ ~cleaning
  /\ phase = "save" => plan = <<"save">> /\ ~cleaning

(* Every edit, every step of the shell, make and the pool keep the types.  *)
(* What EndMake leaves of the plan is only a plan because of TaskInPhase.  *)
LEMMA TypeStep == TypeOK /\ TaskInPhase /\ [Next]_vars => TypeOK'
<1> SUFFICES ASSUME TypeOK, TaskInPhase, [Next]_vars PROVE TypeOK'
  OBVIOUS
<1> USE DEF files, shell, pool
<1> DEFINE Elves == [Dirs -> [Tests -> [arch : Archs \cup {"absent"},
                                        stale : SUBSET Kinds, newer : SUBSET Kinds]]]
           Bounds == [edits : 0 .. MaxEdits, builds : 0 .. MaxBuilds, kills : 0 .. MaxKills]
<1>0. NoElf \in [arch : Archs \cup {"absent"}, stale : SUBSET Kinds, newer : SUBSET Kinds]
  BY DEF NoElf
<1>1. ASSUME NEW S, NEW k \in Kinds, Touch(S, k) PROVE TypeOK'
  <2>1. elf' \in Elves
    <3> SUFFICES ASSUME NEW d \in Dirs, NEW t \in Tests
                 PROVE  (IF t \in S /\ Exists(d, t)
                         THEN [elf[d][t] EXCEPT !.stale = @ \cup {k}, !.newer = @ \cup {k}]
                         ELSE elf[d][t])
                          \in [arch : Archs \cup {"absent"},
                               stale : SUBSET Kinds, newer : SUBSET Kinds]
      BY <1>1 DEF Touch
    <3>1. elf[d][t] \in [arch : Archs \cup {"absent"},
                         stale : SUBSET Kinds, newer : SUBSET Kinds]
      BY DEF TypeOK
    <3> QED
      BY <3>1
  <2>2. bound' \in Bounds
    <3>1. bound \in Bounds
      BY DEF TypeOK
    <3>2. bound.edits < MaxEdits
      BY <1>1 DEF Touch
    <3>3. bound.edits + 1 \in 0 .. MaxEdits
      BY <3>1, <3>2, BuildAssumption
    <3> QED
      BY <1>1, <3>1, <3>3 DEF Touch
  <2>3. missed' \in [Tests -> (SUBSET Kinds) \cup {Idle}]
    BY <1>1 DEF Touch, TypeOK, Compiling
  <2>4. touched' \in [Tests -> SUBSET Kinds]
    BY <1>1 DEF Touch, TypeOK
  <2> QED
    BY <1>1, <2>1, <2>2, <2>3, <2>4 DEF Touch, TypeOK
<1>2. CASE Edit
  BY <1>1, <1>2 DEF Edit, Kinds, Shared
<1>3. CASE Start
  <2>1. plan' \in Plans
    BY <1>3, TargetPlan DEF Start
  <2>2. bound' \in Bounds
    <3>1. bound \in Bounds /\ bound.builds + 1 \in 0 .. MaxBuilds
      BY <1>3, BuildAssumption DEF Start, TypeOK
    <3> QED
      BY <1>3, <3>1 DEF Start
  <2> QED
    BY <1>3, <2>1, <2>2 DEF Start, TypeOK, Live
<1>4. CASE Finish
  BY <1>4 DEF Finish, Stop, TypeOK
<1>5. CASE Clean
  <2>1. plan' \in Plans
    BY <1>5, PlanTail DEF Clean, TypeOK
  <2>2. elf' \in Elves
    BY <1>0, <1>5 DEF Clean, TypeOK
  <2> QED
    BY <1>5, <2>1, <2>2, OutdateType DEF Clean, TypeOK
<1>6. CASE BeginMake
  BY <1>6 DEF BeginMake, TypeOK, Live
<1>7. ASSUME NEW t \in Tests, Skip(t) PROVE TypeOK'
  BY <1>7 DEF Skip, TypeOK
<1>8. ASSUME NEW t \in Tests, Compile(t) PROVE TypeOK'
  BY <1>8 DEF Compile, TypeOK
<1>9. ASSUME NEW t \in Tests, Link(t) PROVE TypeOK'
  <2>1. missed[t] \in SUBSET Kinds /\ arch \in Archs
    BY <1>9 DEF Link, Compiling, TypeOK
  <2>2. elf' \in Elves
    <3>1. [arch |-> arch, stale |-> missed[t], newer |-> {}]
            \in [arch : Archs \cup {"absent"}, stale : SUBSET Kinds, newer : SUBSET Kinds]
      BY <2>1
    <3> QED
      BY <1>9, <3>1 DEF Link, TypeOK
  <2> QED
    BY <1>9, <2>2, OutdateType DEF Link, TypeOK
<1>10. ASSUME NEW t \in Tests, CompileError(t) PROVE TypeOK'
  <2>1. elf' \in Elves
    <3>1. elf' = elf \/ elf' = [elf EXCEPT ![Task][t] = NoElf]
      BY <1>10 DEF CompileError
    <3>2. CASE elf' = [elf EXCEPT ![Task][t] = NoElf]
      BY <1>0, <3>2 DEF TypeOK
    <3> QED
      BY <3>1, <3>2 DEF TypeOK
  <2>2. ckpt' \in [Tests -> {"none", "partial", "old", "current"}]
    BY <1>10, OutdateType DEF CompileError, TypeOK
  <2> QED
    BY <1>10, <2>1, <2>2 DEF CompileError, TypeOK
<1>11. CASE EndMake
  <2>1. plan' \in Plans
    BY <1>11, PlanTail DEF EndMake, TypeOK, TaskInPhase
  <2> QED
    BY <1>11, <2>1 DEF EndMake, Stop, TypeOK, Live
<1>12. CASE CannotSave
  BY <1>12 DEF CannotSave, Stop, TypeOK
<1>13. CASE BeginSave
  BY <1>13 DEF BeginSave, Listed, TypeOK, Live
<1>14. ASSUME NEW t \in Tests, SpawnSaver(t) PROVE TypeOK'
  BY <1>14 DEF SpawnSaver, TypeOK
<1>15. ASSUME NEW t \in Tests, RemoveOld(t) PROVE TypeOK'
  BY <1>15 DEF RemoveOld, TypeOK
<1>16. ASSUME NEW t \in Tests, SaveEnds(t) PROVE TypeOK'
  <2>1. Remains(t) \subseteq {"none", "partial", "old", "current"}
    BY DEF Remains, TypeOK
  <2>2. /\ \E c \in {"current"} \cup Remains(t) : ckpt' = [ckpt EXCEPT ![t] = c]
        /\ \E m \in {"OK", "FAIL"} : told' = [told EXCEPT ![t] = m]
    BY <1>16 DEF SaveEnds
  <2>3. ckpt' \in [Tests -> {"none", "partial", "old", "current"}]
    BY <2>1, <2>2 DEF TypeOK
  <2>4. told' \in [Tests -> {"none", "OK", "FAIL"}]
    BY <2>2 DEF TypeOK
  <2> QED
    BY <1>16, <2>3, <2>4 DEF SaveEnds, TypeOK
<1>17. ASSUME NEW t \in Tests, KillSaver(t) PROVE TypeOK'
  <2>1. Remains(t) \subseteq {"none", "partial", "old", "current"}
    BY DEF Remains, TypeOK
  <2>2. bound' \in Bounds
    <3>1. bound \in Bounds /\ bound.kills + 1 \in 0 .. MaxKills
      BY <1>17, BuildAssumption DEF KillSaver, TypeOK
    <3> QED
      BY <1>17, <3>1 DEF KillSaver
  <2> QED
    BY <1>17, <2>1, <2>2 DEF KillSaver, TypeOK
<1>18. CASE EndSave
  <2>1. plan' \in Plans
    BY <1>18, PlanTail DEF EndSave, TypeOK, TaskInPhase
  <2> QED
    BY <1>18, <2>1 DEF EndSave, Stop, TypeOK, Live
<1>19. CASE Interrupt
  <2>1. elf' \in Elves
    <3>1. PICK gone \in SUBSET Compiling :
            elf' = IF phase = "make"
                   THEN [elf EXCEPT ![Task] = [t \in Tests |->
                           IF t \in gone THEN NoElf ELSE @[t]]]
                   ELSE elf
      BY <1>19 DEF Interrupt
    <3>2. CASE phase = "make"
      <4>1. elf[Task] \in [Tests -> [arch : Archs \cup {"absent"},
                                    stale : SUBSET Kinds, newer : SUBSET Kinds]]
        BY <3>2 DEF TypeOK, TaskInPhase
      <4> QED
        BY <1>0, <3>1, <3>2, <4>1 DEF TypeOK
    <3>3. CASE phase # "make"
      BY <3>1, <3>3 DEF TypeOK
    <3> QED
      BY <3>2, <3>3
  <2>2. ckpt' \in [Tests -> {"none", "partial", "old", "current"}]
    BY <1>19, OutdateType DEF Interrupt, TypeOK
  <2> QED
    BY <1>19, <2>1, <2>2 DEF Interrupt, Stop, TypeOK
<1>20. CASE UNCHANGED vars
  BY <1>20 DEF vars, TypeOK
<1> QED
  BY <1>2, <1>3, <1>4, <1>5, <1>6, <1>7, <1>8, <1>9, <1>10, <1>11, <1>12,
     <1>13, <1>14, <1>15, <1>16, <1>17, <1>18, <1>19, <1>20
  DEF Next, Shell, Make, Save


-----------------------------------------------------------------------------
(***************************************************************************)
(* The inductive invariant, in the order of an invocation.                 *)
(***************************************************************************)

(* Compilers run only below make, workers only below the pool. *)
JobsInPhase ==
  \A t \in Tests : /\ missed[t] # Idle => phase = "make"
                   /\ t \in Saving => phase = "save"

(* Nothing has been saved before the pool starts, and nobody works on what *)
(* it has not been given.                                                  *)
NoSaverYet ==
  /\ phase = "make" \/ (phase = "next" /\ plan # <<>>) =>
       \A t \in Tests : saver[t] = "none"
  /\ phase = "save" => \A t \in todo : saver[t] = "none"

(* A worker that printed a line is done; after OK nothing touches its      *)
(* files while the line stands.                                            *)
ToldWhenDone ==
  \A t \in Tests : /\ told[t] # "none" => saver[t] = "done"
                   /\ told[t] = "OK" => ckpt[t] = "current"

(* What a compiler misses was edited after the invocation began. *)
MissedWasTouched == \A t \in Tests : missed[t] # Idle => missed[t] \subseteq touched[t]

(* make has not yet considered a test, is compiling it, or left it up to   *)
(* date.                                                                   *)
UpToDateNow(d, t) ==
  Exists(d, t) /\ elf[d][t].newer \cap Prereqs \subseteq touched[t]

MakeInv ==
  phase = "make" /\ ~stopped =>
    \A t \in Tests : t \in todo \/ missed[t] # Idle \/ UpToDateNow(Task, t)

(* The same for make -B, which leaves every test built by this invocation. *)
BuiltNow(t) == /\ elf["checkpoint"][t].arch = arch
               /\ elf["checkpoint"][t].stale \subseteq touched[t]

ForcedInv ==
  phase = "make" /\ Task = "checkpoint" /\ ~stopped =>
    \A t \in Tests : t \in todo \/ missed[t] # Idle \/ BuiltNow(t)

(* The pool finds all executables new, or, after --clean, none.            *)
ReadyToSave ==
  /\ phase = "next" /\ plan = <<"save">> =>
       \A t \in Tests : IF cleaning THEN ~Exists("checkpoint", t) ELSE BuiltNow(t)
  /\ phase = "save" => \A t \in Tests : BuiltNow(t)

(* Each test waits for the pool, has its old files still or no more, or    *)
(* has its line; a worker that was killed stops the pool.                  *)
Told(t) == told[t] # "none" /\ ckpt[t] # "old"

PoolInv ==
  phase = "save" /\ ~stopped =>
    \A t \in Tests : \/ t \in todo
                     \/ saver[t] = "spawned"
                     \/ saver[t] = "saving" /\ ckpt[t] # "old"
                     \/ Told(t)

(* What an invocation that saved checkpoints leaves. *)
SaveIsOver == \/ phase = "next" /\ plan = <<>>
              \/ phase = "done" /\ status = "ok"

SavedInv ==
  SaveIsOver /\ (\E u \in Tests : saver[u] # "none") =>
    \A t \in Tests : BuiltNow(t) /\ Told(t)

BuildInv == /\ TypeOK /\ TaskInPhase /\ JobsInPhase /\ NoSaverYet
            /\ ToldWhenDone /\ MissedWasTouched /\ MakeInv /\ ForcedInv
            /\ ReadyToSave /\ PoolInv /\ SavedInv

(* Every edit, and every step of the shell, make, the pool and a Ctrl-C,   *)
(* keeps the invariant.                                                    *)
LEMMA BuildStep == BuildInv /\ [Next]_vars => BuildInv'
<1> SUFFICES ASSUME BuildInv, [Next]_vars PROVE BuildInv'
  OBVIOUS
<1> USE DEF BuildInv, files, shell, pool
<1> DEFINE Rest == /\ TaskInPhase /\ JobsInPhase /\ NoSaverYet
                   /\ ToldWhenDone /\ MissedWasTouched /\ MakeInv /\ ForcedInv
                   /\ ReadyToSave /\ PoolInv /\ SavedInv
<1>0. TypeOK'
  BY TypeStep
<1>plan. plan # <<>> =>
           /\ Head(plan) \in Dirs \cup {"save"}
           /\ Head(plan) = "save" <=> plan = <<"save">>
           /\ Head(plan) = "checkpoint" <=> plan = <<"checkpoint", "save">>
           /\ Tail(plan) = <<"save">> <=> plan = <<"checkpoint", "save">>
           /\ plan = <<"save">> => Tail(plan) = <<>>
  BY PlanTail DEF TypeOK
<1>1. ASSUME NEW S, NEW k \in Kinds, Touch(S, k) PROVE Rest'
  <2> DEFINE new(t) == IF t \in S THEN {k} ELSE {}
  <2>1. UNCHANGED <<ckpt, shell, todo, pool, stopped>>
    BY <1>1 DEF Touch
  <2>2. \A t \in Tests : touched'[t] = touched[t] \cup new(t)
    BY <1>1 DEF Touch, TypeOK
  <2>3. \A t \in Tests :
          /\ missed'[t] # Idle <=> missed[t] # Idle
          /\ missed[t] # Idle => missed'[t] \subseteq missed[t] \cup new(t)
    BY <1>1 DEF Touch, Compiling, TypeOK, Idle, Kinds
  <2>4. ASSUME NEW d \in Dirs, NEW t \in Tests
        PROVE  /\ elf'[d][t].arch = elf[d][t].arch
               /\ elf'[d][t].stale \subseteq elf[d][t].stale \cup new(t)
               /\ elf'[d][t].newer \subseteq elf[d][t].newer \cup new(t)
    <3>1. elf[d][t] \in [arch : Archs \cup {"absent"},
                         stale : SUBSET Kinds, newer : SUBSET Kinds]
      BY DEF TypeOK
    <3>2. elf'[d][t] =
            IF t \in S /\ Exists(d, t)
            THEN [elf[d][t] EXCEPT !.stale = @ \cup {k}, !.newer = @ \cup {k}]
            ELSE elf[d][t]
      BY <1>1 DEF Touch
    <3> QED
      BY <3>1, <3>2
  <2>5. \A t \in Tests : BuiltNow(t) => BuiltNow(t)'
    BY <2>1, <2>2, <2>4 DEF BuiltNow, Dirs
  <2>6. \A d \in Dirs, t \in Tests : UpToDateNow(d, t) => UpToDateNow(d, t)'
    BY <2>2, <2>4 DEF UpToDateNow, Exists
  <2>7. \A d \in Dirs, t \in Tests : Exists(d, t)' <=> Exists(d, t)
    BY <2>4 DEF Exists
  <2>8. TaskInPhase' /\ NoSaverYet' /\ ToldWhenDone' /\ PoolInv'
    BY <2>1 DEF Task, TaskInPhase, NoSaverYet, ToldWhenDone, PoolInv, Told
  <2>9. JobsInPhase'
    BY <2>1, <2>3 DEF JobsInPhase, Saving, Idle
  <2>10. MissedWasTouched'
    BY <2>2, <2>3 DEF MissedWasTouched, Idle
  <2>11. MakeInv'
    <3>1. phase = "make" => Task \in Dirs /\ Task' = Task
      BY <2>1 DEF Task, TaskInPhase
    <3> QED
      BY <2>1, <2>3, <2>6, <3>1 DEF MakeInv, Idle
  <2>12. ForcedInv'
    BY <2>1, <2>3, <2>5 DEF ForcedInv, Task, Idle
  <2>13. ReadyToSave'
    BY <2>1, <2>5, <2>7 DEF ReadyToSave, Dirs
  <2>14. SavedInv'
    BY <2>1, <2>5 DEF SavedInv, SaveIsOver, Told
  <2> QED
    BY <2>8, <2>9, <2>10, <2>11, <2>12, <2>13, <2>14
<1>2. CASE Edit
  BY <1>0, <1>1, <1>2 DEF Edit, Kinds, Shared
<1>3. ASSUME Start PROVE Rest'
  <2>1. plan' \in Plans \ {<<>>, <<"save">>}
    BY <1>3, TargetPlan DEF Start
  <2>2. /\ TaskInPhase' /\ NoSaverYet' /\ ToldWhenDone' /\ MissedWasTouched'
        /\ MakeInv' /\ ForcedInv' /\ ReadyToSave' /\ PoolInv'
    BY <1>3, <2>1
    DEF Start, Task, TypeOK, TaskInPhase, NoSaverYet, ToldWhenDone,
        MissedWasTouched, MakeInv, ForcedInv, ReadyToSave, PoolInv,
        UpToDateNow, Exists, BuiltNow, Told, Live, JobsInPhase, Saving
  <2>3. JobsInPhase'
    BY <1>3, <2>1
    DEF Start, Task, TypeOK, JobsInPhase, Compiling, Saving, Idle, Live,
        TaskInPhase
  <2>4. SavedInv'
    BY <1>3, <2>1
    DEF Start, Task, TypeOK, SavedInv, SaveIsOver, BuiltNow, Told, Live,
        TaskInPhase, JobsInPhase, Saving
  <2> QED
    BY <2>2, <2>3, <2>4
<1>4. ASSUME Finish PROVE Rest'
  BY <1>4
  DEF Finish, Stop, Task, TypeOK, TaskInPhase, JobsInPhase, NoSaverYet,
      ToldWhenDone, MissedWasTouched, MakeInv, ForcedInv, ReadyToSave, PoolInv,
      SavedInv, Compiling, Saving, Idle, UpToDateNow, Exists, BuiltNow, Told,
      SaveIsOver
<1>5. ASSUME Clean PROVE Rest'
  <2>1. /\ TaskInPhase' /\ JobsInPhase' /\ NoSaverYet' /\ MissedWasTouched'
        /\ MakeInv' /\ ForcedInv' /\ PoolInv'
    BY <1>5, <1>plan
    DEF Clean, Task, TypeOK, TaskInPhase, JobsInPhase, NoSaverYet,
        MissedWasTouched, MakeInv, ForcedInv, PoolInv, Compiling, Saving, Idle,
        UpToDateNow, Exists, BuiltNow, Told, NoElf, Outdate, ToldWhenDone
  <2>2. ReadyToSave'
    BY <1>5, <1>plan
    DEF Clean, Task, TypeOK, ReadyToSave, BuiltNow, Exists, TaskInPhase, NoElf,
        NoSaverYet, Outdate, ToldWhenDone, Dirs
  <2>3. ToldWhenDone'
    BY <1>5, <1>plan
    DEF Clean, Task, TypeOK, ToldWhenDone, TaskInPhase, NoElf, NoSaverYet,
        Outdate
  <2>4. SavedInv'
    BY <1>5, <1>plan
    DEF Clean, Task, TypeOK, SavedInv, SaveIsOver, BuiltNow, Told, TaskInPhase,
        NoElf, NoSaverYet, Outdate, ToldWhenDone
  <2> QED
    BY <2>1, <2>2, <2>3, <2>4
<1>6. ASSUME BeginMake PROVE Rest'
  <2>1. /\ TaskInPhase' /\ JobsInPhase' /\ NoSaverYet' /\ ToldWhenDone' /\ MissedWasTouched'
        /\ ForcedInv' /\ ReadyToSave' /\ PoolInv' /\ SavedInv'
    BY <1>6, <1>plan
    DEF BeginMake, Task, TypeOK, TaskInPhase, JobsInPhase, NoSaverYet,
        ToldWhenDone, MissedWasTouched, ForcedInv, ReadyToSave, PoolInv,
        SavedInv, Compiling, Saving, Idle, BuiltNow, Exists, Told, SaveIsOver
  <2>2. MakeInv'
    BY <1>6, <1>plan
    DEF BeginMake, Task, TypeOK, MakeInv, UpToDateNow, Exists, NoSaverYet,
        TaskInPhase
  <2> QED
    BY <2>1, <2>2
<1>7. ASSUME EndMake PROVE Rest'
  <2>1. /\ TaskInPhase' /\ JobsInPhase' /\ NoSaverYet' /\ ToldWhenDone'
        /\ MissedWasTouched' /\ MakeInv' /\ ForcedInv' /\ PoolInv'
    BY <1>7, <1>plan
    DEF EndMake, Stop, Task, TypeOK, TaskInPhase, JobsInPhase, NoSaverYet,
        ToldWhenDone, MissedWasTouched, MakeInv, ForcedInv, PoolInv, Compiling,
        Saving, Idle, UpToDateNow, Exists, BuiltNow, Told
  <2>2. ReadyToSave'
    BY <1>7, <1>plan
    DEF EndMake, Stop, Task, TypeOK, ReadyToSave, BuiltNow, Exists, Compiling,
        NoSaverYet, TaskInPhase, ForcedInv
  <2>3. SavedInv'
    BY <1>7, <1>plan
    DEF EndMake, Stop, Task, TypeOK, SavedInv, SaveIsOver, BuiltNow, Told,
        Compiling, NoSaverYet, TaskInPhase, ForcedInv
  <2> QED
    BY <2>1, <2>2, <2>3
<1>8. ASSUME CannotSave PROVE Rest'
  BY <1>8
  DEF CannotSave, Stop, Task, TypeOK, TaskInPhase, JobsInPhase, NoSaverYet,
      ToldWhenDone, MissedWasTouched, MakeInv, ForcedInv, ReadyToSave, PoolInv,
      SavedInv, Compiling, Saving, Idle, UpToDateNow, Exists, BuiltNow, Told,
      SaveIsOver
<1>9. ASSUME BeginSave PROVE Rest'
  <2>1. /\ TaskInPhase' /\ JobsInPhase' /\ NoSaverYet' /\ ToldWhenDone'
        /\ MissedWasTouched' /\ MakeInv' /\ ForcedInv' /\ SavedInv'
    BY <1>9, <1>plan
    DEF BeginSave, Task, TypeOK, TaskInPhase, JobsInPhase, NoSaverYet,
        ToldWhenDone, MissedWasTouched, MakeInv, ForcedInv, SavedInv,
        Compiling, Saving, Idle, UpToDateNow, Exists, BuiltNow, SaveIsOver,
        Told, Listed, ReadyToSave
  <2>2. PoolInv'
    BY <1>9, <1>plan
    DEF BeginSave, Task, TypeOK, PoolInv, Told, Listed, NoSaverYet,
        ReadyToSave, BuiltNow, Exists, TaskInPhase
  <2>3. ReadyToSave'
    BY <1>9, <1>plan
    DEF BeginSave, Task, TypeOK, ReadyToSave, BuiltNow, Exists, Listed,
        NoSaverYet, TaskInPhase
  <2> QED
    BY <2>1, <2>2, <2>3
<1>10. ASSUME EndSave PROVE Rest'
  <2>0. plan = <<"save">> /\ plan # <<>>
    BY <1>10 DEF EndSave, TaskInPhase
  <2>1. plan = <<"save">> /\ Tail(plan) = <<>>
    BY <2>0, <1>plan
  <2>2. /\ TaskInPhase' /\ JobsInPhase' /\ ToldWhenDone' /\ MissedWasTouched'
        /\ MakeInv' /\ ForcedInv' /\ ReadyToSave' /\ PoolInv'
    BY <1>10, <2>1
    DEF EndSave, Stop, Task, TypeOK, TaskInPhase, JobsInPhase, ToldWhenDone,
        MissedWasTouched, MakeInv, ForcedInv, ReadyToSave, PoolInv, Compiling,
        Saving, Idle, UpToDateNow, Exists, BuiltNow, Told
  <2>3. NoSaverYet'
    BY <1>10, <2>1
    DEF EndSave, Stop, Task, TypeOK, NoSaverYet, Saving, PoolInv, Told,
        ReadyToSave, BuiltNow, TaskInPhase
  <2>4. SavedInv'
    BY <1>10, <2>1
    DEF EndSave, Stop, Task, TypeOK, SavedInv, SaveIsOver, BuiltNow, Told,
        Saving, PoolInv, ReadyToSave, TaskInPhase
  <2> QED
    BY <2>2, <2>3, <2>4
<1>11. ASSUME Interrupt PROVE Rest'
  BY <1>11
  DEF Interrupt, Stop, Task, TypeOK, TaskInPhase, JobsInPhase, NoSaverYet,
      ToldWhenDone, MissedWasTouched, MakeInv, ForcedInv, ReadyToSave, PoolInv,
      SavedInv, Compiling, Saving, Idle, UpToDateNow, Exists, BuiltNow, Told,
      SaveIsOver
<1>12. ASSUME NEW t \in Tests, Skip(t) PROVE Rest'
  <2>1. /\ TaskInPhase' /\ JobsInPhase' /\ NoSaverYet' /\ ToldWhenDone'
        /\ MissedWasTouched' /\ ReadyToSave' /\ PoolInv' /\ SavedInv'
    BY <1>12
    DEF Skip, Task, TypeOK, TaskInPhase, JobsInPhase, NoSaverYet, ToldWhenDone,
        MissedWasTouched, ReadyToSave, PoolInv, SavedInv, Compiling, Saving,
        Idle, BuiltNow, Exists, Told, SaveIsOver, Considered, UpToDate, Forced
  <2>2. MakeInv'
    BY <1>12
    DEF Skip, Task, TypeOK, MakeInv, UpToDateNow, Exists, Considered, UpToDate,
        Forced
  <2>3. ForcedInv'
    BY <1>12
    DEF Skip, Task, TypeOK, ForcedInv, BuiltNow, Considered, UpToDate, Forced,
        Exists
  <2> QED
    BY <2>1, <2>2, <2>3
<1>13. ASSUME NEW t \in Tests, Compile(t) PROVE Rest'
  <2>1. /\ TaskInPhase' /\ NoSaverYet' /\ ToldWhenDone'
        /\ ReadyToSave' /\ PoolInv' /\ SavedInv'
    BY <1>13
    DEF Compile, Task, TypeOK, TaskInPhase, NoSaverYet, ToldWhenDone,
        ReadyToSave, PoolInv, SavedInv, BuiltNow, Exists, Told, SaveIsOver,
        Considered, Idle
  <2>2. MakeInv'
    BY <1>13
    DEF Compile, Task, TypeOK, MakeInv, UpToDateNow, Exists, Considered, Idle
  <2>3. ForcedInv'
    BY <1>13 DEF Compile, Task, TypeOK, ForcedInv, BuiltNow, Considered, Idle
  <2>4. MissedWasTouched'
    BY <1>13 DEF Compile, Task, TypeOK, MissedWasTouched, Considered, Idle
  <2>5. JobsInPhase'
    BY <1>13
    DEF Compile, Task, TypeOK, JobsInPhase, Compiling, Saving, Idle, Considered
  <2> QED
    BY <2>1, <2>2, <2>3, <2>4, <2>5
<1>14. ASSUME NEW t \in Tests, Link(t) PROVE Rest'
  <2>1. /\ phase = "make" /\ Task \in Dirs /\ arch # "absent"
        /\ missed[t] \subseteq touched[t]
        /\ \A u \in Tests : saver[u] = "none"
    BY <1>14, BuildAssumption
    DEF Link, Compiling, JobsInPhase, TaskInPhase, NoSaverYet, MissedWasTouched, TypeOK
  <2>2. TaskInPhase' /\ JobsInPhase' /\ NoSaverYet' /\ MissedWasTouched'
    BY <1>14, <2>1
    DEF Link, Task, TypeOK, TaskInPhase, JobsInPhase, NoSaverYet,
        MissedWasTouched, Compiling, Saving, Idle, Outdate, ToldWhenDone
  <2>3. MakeInv'
    BY <1>14, <2>1
    DEF Link, Task, TypeOK, MakeInv, UpToDateNow, Exists, Outdate, ToldWhenDone
  <2>4. ForcedInv'
    BY <1>14, <2>1
    DEF Link, Task, TypeOK, ForcedInv, BuiltNow, Outdate, ToldWhenDone
  <2>5. ReadyToSave'
    BY <1>14, <2>1
    DEF Link, Task, TypeOK, ReadyToSave, BuiltNow, Exists, Outdate,
        ToldWhenDone
  <2>6. ToldWhenDone'
    BY <1>14, <2>1 DEF Link, Task, TypeOK, ToldWhenDone, Outdate
  <2>7. SavedInv'
    BY <1>14, <2>1
    DEF Link, Task, TypeOK, SavedInv, SaveIsOver, BuiltNow, Told, Outdate,
        ToldWhenDone
  <2>8. PoolInv'
    BY <1>14, <2>1 DEF Link, Task, TypeOK, PoolInv, Told, Outdate, ToldWhenDone
  <2> QED
    BY <2>2, <2>3, <2>4, <2>5, <2>6, <2>7, <2>8
<1>15. ASSUME NEW t \in Tests, CompileError(t) PROVE Rest'
  <2>1. phase = "make" /\ \A u \in Tests : saver[u] = "none"
    BY <1>15 DEF CompileError, Compiling, JobsInPhase, NoSaverYet
  <2>2. /\ TaskInPhase' /\ JobsInPhase' /\ NoSaverYet'
        /\ MissedWasTouched' /\ PoolInv'
    BY <1>15, <2>1
    DEF CompileError, Task, TypeOK, TaskInPhase, JobsInPhase, NoSaverYet,
        MissedWasTouched, PoolInv, Compiling, Saving, Idle, Told, Outdate,
        ToldWhenDone
  <2>3. MakeInv'
    BY <1>15, <2>1
    DEF CompileError, Task, TypeOK, MakeInv, UpToDateNow, Exists, Outdate,
        ToldWhenDone
  <2>4. ForcedInv'
    BY <1>15, <2>1
    DEF CompileError, Task, TypeOK, ForcedInv, BuiltNow, Outdate, ToldWhenDone
  <2>5. ReadyToSave'
    BY <1>15, <2>1
    DEF CompileError, Task, TypeOK, ReadyToSave, BuiltNow, Exists, Outdate,
        ToldWhenDone
  <2>6. ToldWhenDone'
    BY <1>15, <2>1 DEF CompileError, Task, TypeOK, ToldWhenDone, Outdate
  <2>7. SavedInv'
    BY <1>15, <2>1
    DEF CompileError, Task, TypeOK, SavedInv, SaveIsOver, BuiltNow, Told,
        Outdate, ToldWhenDone
  <2> QED
    BY <2>2, <2>3, <2>4, <2>5, <2>6, <2>7
<1>16. ASSUME NEW t \in Tests, SpawnSaver(t) PROVE Rest'
  BY <1>16
  DEF SpawnSaver, Task, TypeOK, TaskInPhase, JobsInPhase, NoSaverYet,
      ToldWhenDone, MissedWasTouched, MakeInv, ForcedInv, ReadyToSave, PoolInv,
      SavedInv, Compiling, Saving, Idle, UpToDateNow, Exists, BuiltNow, Told,
      SaveIsOver
<1>17. ASSUME NEW t \in Tests, RemoveOld(t) PROVE Rest'
  BY <1>17
  DEF RemoveOld, Task, TypeOK, TaskInPhase, JobsInPhase, NoSaverYet,
      ToldWhenDone, MissedWasTouched, MakeInv, ForcedInv, ReadyToSave, PoolInv,
      SavedInv, Compiling, Saving, Idle, UpToDateNow, Exists, BuiltNow, Told,
      SaveIsOver
<1>18. ASSUME NEW t \in Tests, SaveEnds(t) PROVE Rest'
  <2>1. /\ TaskInPhase' /\ JobsInPhase' /\ NoSaverYet' /\ MissedWasTouched'
        /\ MakeInv' /\ ForcedInv' /\ ReadyToSave'
    BY <1>18
    DEF SaveEnds, Task, TypeOK, TaskInPhase, JobsInPhase, NoSaverYet,
        MissedWasTouched, MakeInv, ForcedInv, ReadyToSave, Compiling, Saving,
        Idle, UpToDateNow, Exists, BuiltNow, Remains
  <2>2. ToldWhenDone'
    BY <1>18
    DEF SaveEnds, Task, TypeOK, ToldWhenDone, Saving, JobsInPhase, Remains
  <2>3. PoolInv'
    BY <1>18
    DEF SaveEnds, Task, TypeOK, PoolInv, Told, Saving, JobsInPhase, Remains
  <2>4. SavedInv'
    BY <1>18
    DEF SaveEnds, Task, TypeOK, SavedInv, SaveIsOver, BuiltNow, Told, Saving,
        JobsInPhase, Remains
  <2> QED
    BY <2>1, <2>2, <2>3, <2>4
<1>19. ASSUME NEW t \in Tests, KillSaver(t) PROVE Rest'
  BY <1>19
  DEF KillSaver, Task, TypeOK, TaskInPhase, JobsInPhase, NoSaverYet,
      ToldWhenDone, MissedWasTouched, MakeInv, ForcedInv, ReadyToSave, PoolInv,
      SavedInv, Compiling, Saving, Idle, UpToDateNow, Exists, BuiltNow, Told,
      SaveIsOver
<1>20. CASE UNCHANGED vars
  BY <1>0, <1>20
  DEF vars, Task, TaskInPhase, JobsInPhase, Saving, NoSaverYet, ToldWhenDone,
      MissedWasTouched, MakeInv, UpToDateNow, Exists, ForcedInv, BuiltNow,
      ReadyToSave, PoolInv, Told, SavedInv, SaveIsOver
<1> QED
  BY <1>0, <1>1, <1>2, <1>3, <1>4, <1>5, <1>6, <1>7, <1>8, <1>9, <1>10, <1>11,
     <1>12, <1>13, <1>14, <1>15, <1>16, <1>17, <1>18, <1>19, <1>20
  DEF Next, Shell, Make, Save

(* BuildInv holds before the first invocation. *)
LEMMA BuildInit == Init => BuildInv
  BY TypeInit
  DEF Init, BuildInv, TaskInPhase, JobsInPhase, Saving, NoSaverYet,
      ToldWhenDone, MissedWasTouched, MakeInv, ForcedInv, ReadyToSave,
      PoolInv, SavedInv, SaveIsOver

(* BuildInv holds in every reachable state. *)
LEMMA BuildInvariant == Spec => []BuildInv
  BY BuildInit, BuildStep, PTL DEF Spec

(* Every variable has its type and the plan is one of the tails of a       *)
(* target's tasks (TypeOK).                                                *)
THEOREM TypeCorrect == Spec => []TypeOK
<1>1. BuildInv => TypeOK
  BY DEF BuildInv
<1> QED
  BY <1>1, BuildInvariant, PTL

(* A checkpoint build that succeeded leaves no checkpoint of an earlier    *)
(* executable (NoOldCheckpoint).                                           *)
THEOREM OldCheckpointsGone == Spec => []NoOldCheckpoint
<1>1. BuildInv => NoOldCheckpoint
  BY DEF BuildInv, SavedInv, SaveIsOver, Told, NoOldCheckpoint, Saved
<1> QED
  BY <1>1, BuildInvariant, PTL

(* It has a line for every test, and OK means complete files of the        *)
(* executable now in bin/checkpoint (OkMeansCurrent).                      *)
THEOREM OkIsCurrent == Spec => []OkMeansCurrent
<1>1. BuildInv => OkMeansCurrent
  BY DEF BuildInv, SavedInv, SaveIsOver, Told, ToldWhenDone, OkMeansCurrent, Saved
<1> QED
  BY <1>1, BuildInvariant, PTL

(* It has compiled every test with its own profile, and an edit that an    *)
(* executable misses was made after it began (ForcedBuildIsCurrent).       *)
THEOREM CheckpointBuildIsCurrent == Spec => []ForcedBuildIsCurrent
<1>1. BuildInv => ForcedBuildIsCurrent
  BY DEF BuildInv, SavedInv, SaveIsOver, BuiltNow, ForcedBuildIsCurrent, Saved
<1> QED
  BY <1>1, BuildInvariant, PTL

(* When make has gone through a directory, every test has an executable    *)
(* there, newer than every prerequisite that was not edited meanwhile      *)
(* (MadeIsUpToDate).                                                       *)
THEOREM MakeLeavesUpToDate == Spec => []MadeIsUpToDate
<1>1. BuildInv => MadeIsUpToDate
  BY DEF BuildInv, MakeInv, UpToDateNow, Prereqs, Compiling, MadeIsUpToDate
<1> QED
  BY <1>1, BuildInvariant, PTL

-----------------------------------------------------------------------------
(***************************************************************************)
(* Every invocation comes nearer to its end with every step of its own.    *)
(***************************************************************************)

(* make considers a test and may compile it; the pool is given a test, and  *)
(* its worker removes the old files and saves new ones.                    *)
Spawned == {t \in Tests : saver[t] = "spawned"}

WorkLeft ==
  CASE phase = "make" -> 1 + Cardinality(todo) + Cardinality(todo \cup Compiling)
    [] phase = "save" -> 1 + Cardinality(todo) + Cardinality(todo \cup Spawned)
                           + Cardinality(todo \cup Saving)
    [] OTHER          -> 0

(* A task takes a step for each of these, and two to begin and to end.     *)
TaskSteps == 3 * Cardinality(Tests) + 2
TasksLeft == IF phase = "next" THEN Len(plan) ELSE Len(plan) - 1

(* The steps left of the invocation, with the one that ends it.            *)
StepsLeft == IF phase \in Live THEN 1 + TaskSteps * TasksLeft + WorkLeft ELSE 0

StepsBounded == StepsLeft \in 0 .. 4 * TaskSteps + 1

(* The invocation moves on; an edit does not hold it up.                   *)
MovesOn == \/ StepsLeft' < StepsLeft
           \/ Edit /\ StepsLeft' = StepsLeft
           \/ Start /\ StepsLeft = 0

(* No test is considered while it is being compiled.                       *)
CompiledOnce == phase = "make" => \A t \in todo : missed[t] = Idle

(* CompiledOnce is kept. *)
LEMMA CompiledOnceStep ==
  BuildInv /\ CompiledOnce /\ [Next]_vars => CompiledOnce'
<1> SUFFICES ASSUME BuildInv, CompiledOnce, [Next]_vars PROVE CompiledOnce'
  OBVIOUS
<1> USE DEF CompiledOnce, files, shell, pool
<1>0. /\ \A t \in Tests : missed[t] # Idle => phase = "make"
      /\ missed \in [Tests -> (SUBSET Kinds) \cup {Idle}]
      /\ todo \subseteq Tests
  BY DEF BuildInv, JobsInPhase, TypeOK
<1>1. ASSUME NEW S, NEW k \in Kinds, Touch(S, k) PROVE CompiledOnce'
  BY <1>0, <1>1 DEF Touch, Compiling
<1>2. CASE Start
  BY <1>2 DEF Start
<1>3. CASE Shell
  BY <1>0, <1>3 DEF Shell, Finish, Clean, BeginMake, EndMake, CannotSave, BeginSave,
                    EndSave, Stop
<1>4. ASSUME NEW t \in Tests, Make(t) PROVE CompiledOnce'
  <2>1. CASE Skip(t)
    BY <2>1 DEF Skip
  <2>2. CASE Compile(t)
    BY <1>0, <2>2 DEF Compile
  <2>3. CASE Link(t) \/ CompileError(t)
    BY <1>0, <2>3 DEF Link, CompileError
  <2> QED
    BY <1>4, <2>1, <2>2, <2>3 DEF Make
<1>5. ASSUME NEW t \in Tests, Save(t) \/ KillSaver(t) PROVE CompiledOnce'
  BY <1>0, <1>5 DEF Save, SpawnSaver, RemoveOld, SaveEnds, KillSaver
<1>6. CASE Interrupt
  BY <1>6 DEF Interrupt, Stop
<1>7. CASE UNCHANGED vars
  BY <1>7 DEF vars
<1>8. CASE Edit
  BY <1>1, <1>8 DEF Edit, Shared, Kinds
<1> QED
  BY <1>2, <1>3, <1>4, <1>5, <1>6, <1>7, <1>8 DEF Next

(* A plan has four tasks at most, and one less when one is done.           *)
LEMMA PlanLength ==
  ASSUME NEW p \in Plans
  PROVE  /\ Len(p) \in 0 .. 4
         /\ p # <<>> => Len(p) >= 1 /\ Len(Tail(p)) = Len(p) - 1
<1>1. CASE p = <<>>
  BY <1>1
<1>2. CASE p = <<"save">>
  BY <1>2
<1>3. CASE p = <<"checkpoint", "save">>
  BY <1>3
<1>4. CASE p = <<"spike", "checkpoint", "save">>
  BY <1>4
<1>5. CASE p = <<"linux", "spike", "checkpoint", "save">>
  BY <1>5
<1>6. CASE p = <<"linux">> \/ p = <<"spike">>
  BY <1>6
<1> QED
  BY <1>1, <1>2, <1>3, <1>4, <1>5, <1>6 DEF Plans

(* A set of tests, and what is left of it.                                 *)
LEMMA FewerTests ==
  ASSUME NEW S \in SUBSET Tests, NEW T \in SUBSET S
  PROVE  /\ Cardinality(S) \in 0 .. Cardinality(Tests) /\ Cardinality(Tests) \in Nat
         /\ Cardinality(T) \in Nat /\ Cardinality(T) <= Cardinality(S)
         /\ S # T => Cardinality(T) < Cardinality(S)
<1>1. IsFiniteSet(Tests) /\ IsFiniteSet(S) /\ IsFiniteSet(T)
  BY BuildAssumption, FS_Subset
<1>2. /\ Cardinality(S) \in Nat /\ Cardinality(T) \in Nat /\ Cardinality(Tests) \in Nat
      /\ Cardinality(T) <= Cardinality(S) /\ Cardinality(S) <= Cardinality(Tests)
  BY <1>1, FS_Subset, FS_CardinalityType
<1>3. Cardinality(S) = Cardinality(T) => S = T
  BY <1>1, FS_Subset
<1> QED
  BY <1>2, <1>3

(* What is left is a natural number, and less than a task takes.           *)
LEMMA WorkIs ==
  ASSUME TypeOK
  PROVE  /\ TaskSteps \in Nat /\ WorkLeft \in 0 .. TaskSteps - 1
         /\ phase \in {"make", "save"} => WorkLeft >= 1
<1>1. /\ todo \in SUBSET Tests /\ todo \cup Compiling \in SUBSET Tests
      /\ todo \cup Spawned \in SUBSET Tests /\ todo \cup Saving \in SUBSET Tests
  BY DEF TypeOK, Compiling, Spawned, Saving
<1>2. ASSUME NEW S \in SUBSET Tests
      PROVE  Cardinality(S) \in 0 .. Cardinality(Tests) /\ Cardinality(Tests) \in Nat
  BY FewerTests
<1> QED
  BY <1>1, <1>2 DEF WorkLeft, TaskSteps

(* The same of the tasks.                                                  *)
LEMMA TasksAre ==
  ASSUME TypeOK, TaskInPhase, phase \in Live
  PROVE  /\ TasksLeft \in 0 .. 4 /\ Len(plan) \in 0 .. 4
         /\ phase # "next" => TasksLeft \in 0 .. 3
<1>1. Len(plan) \in 0 .. 4 /\ (plan # <<>> => Len(plan) >= 1)
  BY PlanLength DEF TypeOK
<1>2. phase # "next" => plan # <<>>
  BY DEF Live, TaskInPhase
<1> QED
  BY <1>1, <1>2 DEF TasksLeft

(* And of all the steps; a live invocation has one left at least.          *)
LEMMA StepsAre ==
  ASSUME TypeOK, TaskInPhase
  PROVE  StepsLeft \in 0 .. 4 * TaskSteps + 1 /\ (phase \in Live => StepsLeft >= 1)
<1>1. CASE phase \notin Live
  BY <1>1, WorkIs DEF StepsLeft
<1>2. CASE phase \in Live
  <2>1. PICK T \in Nat : T = TaskSteps
    BY WorkIs
  <2>2. PICK k \in 0 .. 4 : k = TasksLeft /\ (phase # "next" => k \in 0 .. 3)
    BY <1>2, TasksAre
  <2>3. PICK w \in 0 .. T - 1 : w = WorkLeft
    BY <2>1, WorkIs
  <2>4. phase = "next" => w = 0
    BY <2>3 DEF WorkLeft
  <2>5. T * k \in 0 .. 4 * T /\ (k \in 0 .. 3 => T * k <= 3 * T)
    <3>1. k = 0 \/ k = 1 \/ k = 2 \/ k = 3 \/ k = 4
      OBVIOUS
    <3> QED
      BY <3>1
  <2>6. StepsLeft = 1 + T * k + w
    BY <1>2, <2>1, <2>2, <2>3 DEF StepsLeft
  <2>7. PICK r \in Int : r = T * k
    OBVIOUS
  <2>8. StepsLeft = 1 + r + w /\ r \in 0 .. 4 * T /\ (phase # "next" => r <= 3 * T)
    BY <2>2, <2>5, <2>6, <2>7
  <2>9. StepsLeft \in 0 .. 4 * T + 1 /\ StepsLeft >= 1
    BY <2>4, <2>8
  <2> QED
    BY <2>1, <2>9
<1> QED
  BY <1>1, <1>2

(* Within a task, fewer steps are left when the work that is left shrinks. *)
LEMMA WorkFalls ==
  ASSUME TypeOK, TaskInPhase, TypeOK',
         phase \in Live, phase' = phase, plan' = plan, WorkLeft' < WorkLeft
  PROVE  StepsLeft' < StepsLeft
<1>1. PICK r \in Int : r = TaskSteps * TasksLeft
  BY WorkIs, TasksAre
<1>2. WorkLeft \in Int /\ WorkLeft' \in Int
  <2>1. WorkLeft \in Int
    BY WorkIs
  <2>2. WorkLeft' = CASE phase = "make" -> 1 + Cardinality(todo') + Cardinality(todo' \cup Compiling')
                      [] phase = "save" -> 1 + Cardinality(todo') + Cardinality(todo' \cup Spawned')
                                             + Cardinality(todo' \cup Saving')
                      [] OTHER          -> 0
    BY DEF WorkLeft
  <2>3. /\ todo' \in SUBSET Tests /\ todo' \cup Compiling' \in SUBSET Tests
        /\ todo' \cup Spawned' \in SUBSET Tests /\ todo' \cup Saving' \in SUBSET Tests
    BY DEF TypeOK, Compiling, Spawned, Saving
  <2>4. ASSUME NEW S \in SUBSET Tests PROVE Cardinality(S) \in Nat
    BY FewerTests
  <2> QED
    BY <2>1, <2>2, <2>3, <2>4
<1>3. StepsLeft = 1 + r + WorkLeft
  BY <1>1 DEF StepsLeft
<1>4. StepsLeft' = 1 + r + WorkLeft'
  <2>1. TaskSteps' = TaskSteps /\ TasksLeft' = TasksLeft
    BY DEF TaskSteps, TasksLeft
  <2> QED
    BY <1>1, <2>1 DEF StepsLeft
<1> QED
  BY <1>1, <1>2, <1>3, <1>4

(* make considers, compiles or links a test.                               *)
LEMMA MakeFalls ==
  ASSUME TypeOK, TaskInPhase, TypeOK', phase = "make", phase' = phase, plan' = plan,
         todo' \subseteq todo, Compiling' \subseteq todo \cup Compiling,
         todo' # todo \/ todo' \cup Compiling' # todo \cup Compiling
  PROVE  StepsLeft' < StepsLeft
<1>1. /\ todo \in SUBSET Tests /\ todo \cup Compiling \in SUBSET Tests
      /\ todo' \in SUBSET todo /\ todo' \cup Compiling' \in SUBSET (todo \cup Compiling)
  BY DEF TypeOK, Compiling
<1>2. ASSUME NEW S \in SUBSET Tests, NEW T \in SUBSET S
      PROVE  /\ Cardinality(S) \in Nat /\ Cardinality(T) \in Nat
             /\ Cardinality(T) <= Cardinality(S)
             /\ S # T => Cardinality(T) < Cardinality(S)
  BY FewerTests
<1>3. /\ Cardinality(todo) \in Nat /\ Cardinality(todo') \in Nat
      /\ Cardinality(todo') <= Cardinality(todo)
      /\ todo' # todo => Cardinality(todo') < Cardinality(todo)
  BY <1>1, <1>2
<1>4. /\ Cardinality(todo \cup Compiling) \in Nat /\ Cardinality(todo' \cup Compiling') \in Nat
      /\ Cardinality(todo' \cup Compiling') <= Cardinality(todo \cup Compiling)
      /\ todo' \cup Compiling' # todo \cup Compiling =>
           Cardinality(todo' \cup Compiling') < Cardinality(todo \cup Compiling)
  BY <1>1, <1>2
<1>5. WorkLeft' < WorkLeft
  BY <1>3, <1>4 DEF WorkLeft
<1> QED
  BY <1>5, WorkFalls DEF Live

(* The pool is given a test, or a worker goes on.                          *)
LEMMA SaveFalls ==
  ASSUME TypeOK, TaskInPhase, TypeOK', phase = "save", phase' = phase, plan' = plan,
         todo' \subseteq todo, Spawned' \subseteq todo \cup Spawned,
         Saving' \subseteq todo \cup Saving,
         \/ todo' # todo
         \/ todo' \cup Spawned' # todo \cup Spawned
         \/ todo' \cup Saving' # todo \cup Saving
  PROVE  StepsLeft' < StepsLeft
<1>1. /\ todo \in SUBSET Tests /\ todo' \in SUBSET todo
      /\ todo \cup Spawned \in SUBSET Tests /\ todo' \cup Spawned' \in SUBSET (todo \cup Spawned)
      /\ todo \cup Saving \in SUBSET Tests /\ todo' \cup Saving' \in SUBSET (todo \cup Saving)
  BY DEF TypeOK, Spawned, Saving
<1>2. ASSUME NEW S \in SUBSET Tests, NEW T \in SUBSET S
      PROVE  /\ Cardinality(S) \in Nat /\ Cardinality(T) \in Nat
             /\ Cardinality(T) <= Cardinality(S)
             /\ S # T => Cardinality(T) < Cardinality(S)
  BY FewerTests
<1>3. /\ Cardinality(todo) \in Nat /\ Cardinality(todo') \in Nat
      /\ Cardinality(todo') <= Cardinality(todo)
      /\ todo' # todo => Cardinality(todo') < Cardinality(todo)
  BY <1>1, <1>2
<1>4. /\ Cardinality(todo \cup Spawned) \in Nat /\ Cardinality(todo' \cup Spawned') \in Nat
      /\ Cardinality(todo' \cup Spawned') <= Cardinality(todo \cup Spawned)
      /\ todo' \cup Spawned' # todo \cup Spawned =>
           Cardinality(todo' \cup Spawned') < Cardinality(todo \cup Spawned)
  BY <1>1, <1>2
<1>5. /\ Cardinality(todo \cup Saving) \in Nat /\ Cardinality(todo' \cup Saving') \in Nat
      /\ Cardinality(todo' \cup Saving') <= Cardinality(todo \cup Saving)
      /\ todo' \cup Saving' # todo \cup Saving =>
           Cardinality(todo' \cup Saving') < Cardinality(todo \cup Saving)
  BY <1>1, <1>2
<1>6. WorkLeft' < WorkLeft
  BY <1>3, <1>4, <1>5 DEF WorkLeft
<1> QED
  BY <1>6, WorkFalls DEF Live

(* What three sets of tests add up to.                                     *)
LEMMA ThreeSets ==
  ASSUME NEW n \in Nat, NEW a \in 0 .. n, NEW b \in 0 .. n, NEW c \in 0 .. n,
         NEW d \in 0 .. n
  PROVE  /\ 0 \in 0 .. 3 * n + 1
         /\ 1 + a + b \in 0 .. 3 * n + 1
         /\ 1 + a + c + d \in 0 .. 3 * n + 1
OBVIOUS

(* A task begins, ends, or is done at once.                                *)
LEMMA TaskFalls ==
  ASSUME TypeOK, TaskInPhase, TypeOK', phase \in Live, plan # <<>>,
         \/ phase = "next" /\ phase' \in {"make", "save"} /\ plan' = plan
         \/ phase' = "next" /\ plan' = Tail(plan)
  PROVE  StepsLeft' < StepsLeft
<1>1. PICK T \in Nat : T = TaskSteps
  BY WorkIs
<1>2. PICK w \in 0 .. T - 1 : w = WorkLeft /\ (phase \in {"make", "save"} => w >= 1)
  BY <1>1, WorkIs
<1>3. /\ Len(plan) \in 1 .. 4 /\ Len(Tail(plan)) = Len(plan) - 1
  BY PlanLength DEF TypeOK
<1>4. PICK r \in Int, s \in Int : r = T * Len(plan) /\ s = T * (Len(plan) - 1)
  BY <1>3
<1>5. s = r - T
  BY <1>3, <1>4
<1>6. StepsLeft = IF phase = "next" THEN 1 + r + w ELSE 1 + s + w
  BY <1>1, <1>2, <1>4 DEF StepsLeft, TasksLeft
<1>7. WorkLeft' \in 0 .. T - 1
  <2>1. TaskSteps' = T
    BY <1>1 DEF TaskSteps
  <2>2. /\ todo' \in SUBSET Tests /\ todo' \cup Compiling' \in SUBSET Tests
        /\ todo' \cup Spawned' \in SUBSET Tests /\ todo' \cup Saving' \in SUBSET Tests
    BY DEF TypeOK, Compiling, Spawned, Saving
  <2>3. ASSUME NEW S \in SUBSET Tests
        PROVE  Cardinality(S) \in 0 .. Cardinality(Tests) /\ Cardinality(Tests) \in Nat
    BY FewerTests
  <2>4. PICK n \in Nat : n = Cardinality(Tests) /\ T = 3 * n + 2
    BY <1>1, FewerTests DEF TaskSteps
  <2>5. /\ Cardinality(todo') \in 0 .. n /\ Cardinality(todo' \cup Compiling') \in 0 .. n
        /\ Cardinality(todo' \cup Spawned') \in 0 .. n
        /\ Cardinality(todo' \cup Saving') \in 0 .. n
    BY <2>2, <2>3, <2>4
  <2>6. PICK a \in 0 .. n, b \in 0 .. n, c \in 0 .. n, d \in 0 .. n :
          /\ a = Cardinality(todo') /\ b = Cardinality(todo' \cup Compiling')
          /\ c = Cardinality(todo' \cup Spawned') /\ d = Cardinality(todo' \cup Saving')
    BY <2>5
  <2>7. WorkLeft' = CASE phase' = "make" -> 1 + a + b
                      [] phase' = "save" -> 1 + a + c + d
                      [] OTHER           -> 0
    BY <2>6 DEF WorkLeft
  <2>8. WorkLeft' = 0 \/ WorkLeft' = 1 + a + b \/ WorkLeft' = 1 + a + c + d
    BY <2>7
  <2>9. T - 1 = 3 * n + 1
    BY <2>4
  <2>10. WorkLeft' \in 0 .. 3 * n + 1
    BY <2>8, ThreeSets
  <2> QED
    BY <2>9, <2>10
<1>8. CASE phase = "next" /\ phase' \in {"make", "save"} /\ plan' = plan
  <2>1. TaskSteps' = T /\ TasksLeft' = Len(plan) - 1
    BY <1>1, <1>8 DEF TaskSteps, TasksLeft
  <2>2. StepsLeft' = 1 + s + WorkLeft'
    BY <1>4, <1>8, <2>1 DEF StepsLeft, Live
  <2>3. w = 0
    BY <1>2, <1>8 DEF WorkLeft
  <2>4. WorkLeft' \in Int /\ WorkLeft' < T
    BY <1>1, <1>7
  <2>5. StepsLeft = 1 + r
    BY <1>4, <1>6, <1>8, <2>3
  <2> QED
    BY <1>1, <1>4, <1>5, <2>2, <2>4, <2>5
<1>9. CASE phase' = "next" /\ plan' = Tail(plan)
  <2>1. TaskSteps' = T /\ TasksLeft' = Len(plan) - 1 /\ WorkLeft' = 0
    BY <1>1, <1>3, <1>9 DEF TaskSteps, TasksLeft, WorkLeft
  <2>2. StepsLeft' = 1 + s
    BY <1>4, <1>9, <2>1 DEF StepsLeft, Live
  <2>3. phase = "next" => T >= 1
    BY <1>1, <1>2
  <2>4. phase # "next" => w >= 1
    BY <1>2 DEF Live
  <2> QED
    BY <1>2, <1>5, <1>6, <2>2, <2>3, <2>4
<1> QED
  BY <1>8, <1>9

(* Every step of an invocation takes one of the steps that are left.       *)
LEMMA StepMovesOn ==
  ASSUME BuildInv, CompiledOnce, TypeOK', Next PROVE MovesOn
<1> USE DEF files, shell, pool
<1>0. /\ TypeOK /\ TaskInPhase
      /\ \A t \in Tests : missed[t] # Idle => phase = "make"
      /\ \A t \in Tests : t \in Saving => phase = "save"
      /\ phase = "save" => \A t \in todo : saver[t] = "none"
  BY DEF BuildInv, JobsInPhase, NoSaverYet
<1>1. CASE phase' = "done" /\ phase \in Live
  <2>1. StepsLeft' = 0
    BY <1>1 DEF StepsLeft, Live
  <2>2. StepsLeft \in Int /\ StepsLeft >= 1
    <3>1. 4 * TaskSteps + 1 \in Int
      BY WorkIs, <1>0
    <3> QED
      BY <1>0, <1>1, <3>1, StepsAre
  <2> QED
    BY <2>1, <2>2 DEF MovesOn
<1>2. ASSUME NEW S, NEW k \in Kinds, Touch(S, k) PROVE StepsLeft' = StepsLeft
  <2>1. phase' = phase /\ plan' = plan /\ todo' = todo /\ saver' = saver
    BY <1>2 DEF Touch
  <2>2. \A t \in Tests : missed'[t] # Idle <=> missed[t] # Idle
    BY <1>0, <1>2 DEF Touch, Compiling, TypeOK, Idle, Kinds
  <2>3. Compiling' = Compiling /\ Spawned' = Spawned /\ Saving' = Saving
    BY <2>1, <2>2 DEF Compiling, Spawned, Saving
  <2>4. WorkLeft' = WorkLeft /\ TaskSteps' = TaskSteps /\ TasksLeft' = TasksLeft
    BY <2>1, <2>3 DEF WorkLeft, TaskSteps, TasksLeft
  <2> QED
    BY <2>1, <2>4 DEF StepsLeft
<1>3. CASE Edit
  BY <1>2, <1>3 DEF Edit, Shared, Kinds, MovesOn
<1>4. CASE Start
  BY <1>4 DEF Start, MovesOn, StepsLeft, Live
<1>5. CASE Shell
  <2>1. CASE Finish \/ CannotSave
    BY <1>1, <2>1 DEF Finish, CannotSave, Stop, Live
  <2>2. CASE Clean \/ BeginMake \/ BeginSave
    BY <1>0, <2>2, TaskFalls DEF Clean, BeginMake, BeginSave, Live, MovesOn
  <2>3. CASE EndMake \/ EndSave
    <3>1. phase \in {"make", "save"} /\ plan # <<>>
      BY <1>0, <2>3 DEF EndMake, EndSave, TaskInPhase
    <3>2. CASE stopped
      BY <1>1, <2>3, <3>1, <3>2 DEF EndMake, EndSave, Stop, Live
    <3>3. CASE ~stopped
      BY <1>0, <2>3, <3>1, <3>3, TaskFalls DEF EndMake, EndSave, Live, MovesOn
    <3> QED
      BY <3>2, <3>3
  <2> QED
    BY <1>5, <2>1, <2>2, <2>3 DEF Shell
<1>6. CASE Interrupt
  BY <1>1, <1>6 DEF Interrupt, Stop
<1>7. ASSUME NEW t \in Tests, Make(t) PROVE MovesOn
  <2>0. missed \in [Tests -> (SUBSET Kinds) \cup {Idle}] /\ {} # Idle /\ todo \subseteq Tests
    BY <1>0 DEF TypeOK, Idle
  <2>1. phase = "make" /\ phase' = phase /\ plan' = plan
    BY <1>0, <1>7 DEF Make, Skip, Compile, Link, CompileError, Considered, Compiling
  <2>2. CASE Skip(t)
    <3>1. t \in todo /\ todo' = todo \ {t} /\ Compiling' = Compiling
      BY <2>2 DEF Skip, Considered, Compiling
    <3> QED
      BY <1>0, <2>1, <3>1, MakeFalls DEF MovesOn
  <2>3. CASE Compile(t)
    <3>1. t \in todo /\ todo' = todo \ {t}
      BY <2>3 DEF Compile, Considered
    <3>2. Compiling' = Compiling \cup {t}
      BY <2>0, <2>3 DEF Compile, Compiling
    <3> QED
      BY <1>0, <2>1, <3>1, <3>2, MakeFalls DEF MovesOn
  <2>4. CASE Link(t) \/ CompileError(t)
    <3>1. t \in Compiling /\ todo' = todo /\ missed' = [missed EXCEPT ![t] = Idle]
      BY <2>4 DEF Link, CompileError
    <3>2. Compiling' = Compiling \ {t}
      BY <2>0, <3>1 DEF Compiling
    <3>3. t \notin todo
      BY <2>1, <3>1 DEF CompiledOnce, Compiling
    <3> QED
      BY <1>0, <2>1, <3>1, <3>2, <3>3, MakeFalls DEF MovesOn
  <2> QED
    BY <1>7, <2>2, <2>3, <2>4 DEF Make
<1>8. ASSUME NEW t \in Tests, Save(t) \/ KillSaver(t) PROVE MovesOn
  <2>0. saver \in [Tests -> {"none", "spawned", "saving", "done"}] /\ todo \subseteq Tests
    BY <1>0 DEF TypeOK
  <2>1. phase = "save" /\ phase' = phase /\ plan' = plan
    BY <1>0, <1>8 DEF Save, SpawnSaver, RemoveOld, SaveEnds, KillSaver, Saving
  <2>2. CASE SpawnSaver(t)
    <3>1. t \in todo /\ todo' = todo \ {t} /\ saver' = [saver EXCEPT ![t] = "spawned"]
      BY <2>2 DEF SpawnSaver
    <3>2. Spawned' = Spawned \cup {t} /\ Saving' = Saving \cup {t}
      BY <2>0, <3>1 DEF Spawned, Saving
    <3> QED
      BY <1>0, <2>1, <3>1, <3>2, SaveFalls DEF MovesOn
  <2>3. CASE RemoveOld(t)
    <3>1. saver[t] = "spawned" /\ todo' = todo /\ saver' = [saver EXCEPT ![t] = "saving"]
      BY <2>3 DEF RemoveOld
    <3>2. Spawned' = Spawned \ {t} /\ Saving' = Saving /\ t \in Spawned /\ t \notin todo
      BY <1>0, <2>0, <2>1, <3>1 DEF Spawned, Saving
    <3> QED
      BY <1>0, <2>1, <3>1, <3>2, SaveFalls DEF MovesOn
  <2>4. CASE SaveEnds(t) \/ KillSaver(t)
    <3>1. t \in Saving /\ todo' = todo /\ saver' = [saver EXCEPT ![t] = "done"]
      BY <2>4 DEF SaveEnds, KillSaver, Saving
    <3>2. Spawned' \subseteq Spawned /\ Saving' = Saving \ {t} /\ t \notin todo
      BY <1>0, <2>0, <2>1, <3>1 DEF Spawned, Saving
    <3> QED
      BY <1>0, <2>1, <3>1, <3>2, SaveFalls DEF MovesOn
  <2> QED
    BY <1>8, <2>2, <2>3, <2>4 DEF Save
<1> QED
  BY <1>3, <1>4, <1>5, <1>6, <1>7, <1>8 DEF Next

(* Whatever fails, is killed, interrupted or edited meanwhile, an          *)
(* invocation of `uarch build` takes at most 4 (3 |Tests| + 2) + 1 steps:   *)
(* every one of its steps takes one of those left, and an edit adds none.  *)
THEOREM BuildsDoNotLoop == Spec => []StepsBounded /\ [][MovesOn]_vars
<1>1. Init => BuildInv /\ CompiledOnce
  BY BuildInit DEF Init, CompiledOnce
<1>2. BuildInv /\ CompiledOnce /\ [Next]_vars => (BuildInv /\ CompiledOnce)'
  BY BuildStep, CompiledOnceStep
<1>3. BuildInv => StepsBounded
  BY StepsAre DEF BuildInv, StepsBounded
<1>4. BuildInv /\ CompiledOnce /\ BuildInv' /\ [Next]_vars => [MovesOn]_vars
  BY StepMovesOn DEF BuildInv
<1> QED
  BY <1>1, <1>2, <1>3, <1>4, PTL DEF Spec
=============================================================================
