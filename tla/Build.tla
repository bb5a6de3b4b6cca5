------------------------------- MODULE Build --------------------------------
(***************************************************************************)
(* `uarch build uarch <target>`: make compiles the tests whose executables *)
(* it takes for out of date, and for the target "checkpoint" a pool of     *)
(* workers has Spike save a checkpoint of every executable                 *)
(* (scripts/uarch-build-uarch, Makefile).  Sources may be edited at any    *)
(* time.                                                                   *)
(*                                                                         *)
(* Contents and times are kept relative to what they are compared with: an *)
(* executable carries the kinds of source that were edited since the       *)
(* compiler read them, and those edited since the file was written.  Only  *)
(* the second is visible to make.                                          *)
(***************************************************************************)
EXTENDS Naturals, Sequences, FiniteSets

CONSTANTS
  Tests,       (* directories below src/ with a main.c                     *)
  Archs,       (* profiles arch/<name>.h                                   *)
  Jobs,        (* --jobs, for make and for the pool                        *)
  MaxEdits,    (* bound: edits of sources                                  *)
  MaxBuilds,   (* bound: invocations                                       *)
  MaxKills     (* bound: checkpoint workers killed by a signal             *)

ASSUME BuildAssumption ==
  /\ Tests # {} /\ IsFiniteSet(Tests)
  /\ Archs # {} /\ "absent" \notin Archs
  /\ Jobs \in Nat \ {0}
  /\ MaxEdits \in Nat /\ MaxBuilds \in Nat /\ MaxKills \in Nat

VARIABLES
  elf,       (* elf[d][t]: the file bin/<d>/<t>                            *)
  ckpt,      (* ckpt[t]: the files checkpoints/<t>.*                       *)
  spike,     (* are Spike and pk installed?                                *)
  phase,     (* where the invocation is                                    *)
  plan,      (* the tasks left of $TARGET                                  *)
  arch,      (* $ARCH of the invocation                                    *)
  cleaning,  (* $DO_CLEAN                                                  *)
  todo,      (* tests make has not considered, or the pool not been given  *)
  missed,    (* missed[t]: edits since the compiler read t's sources, or   *)
             (* Idle when t is not being compiled                          *)
  saver,     (* saver[t]: the pool's worker for t                          *)
  stopped,   (* no further job: a compilation failed, a worker was killed  *)
  told,      (* told[t]: the pool's line about t                           *)
  status,    (* exit status                                                *)
  touched,   (* touched[t]: kinds edited since the invocation began; no    *)
             (* file, only the properties read it                          *)
  bound      (* edits, invocations and kills so far                        *)

files == <<elf, ckpt>>
shell == <<phase, plan, arch, cleaning, status>>
pool  == <<saver, told>>
vars  == <<files, spike, shell, todo, missed, pool, stopped, touched, bound>>

-----------------------------------------------------------------------------
Dirs    == {"linux", "spike", "checkpoint"}
Targets == Dirs \cup {"all"}
Live    == {"next", "make", "save"}

(* main.c and the .S files of a test, src/common/*.c, and the headers in   *)
(* src/common and arch/.                                                   *)
Kinds  == {"main", "asm", "common", "header"}
Shared == {"common", "header"}
Idle   == {"idle"}

NoElf  == [arch |-> "absent", stale |-> {}, newer |-> {}]
Exists(d, t) == elf[d][t].arch # "absent"

(* Defect: the pattern rule names main.c only. *)
Prereqs_MainOnly == {"main"}

(* The prerequisites of the pattern rule. *)
Prereqs == {"main", "common"}

UpToDate(d, t) == Exists(d, t) /\ elf[d][t].newer \cap Prereqs = {}

Task      == Head(plan)
Compiling == {t \in Tests : missed[t] # Idle}
Saving    == {t \in Tests : saver[t] \in {"spawned", "saving"}}

(* Defect: checkpoint executables are built like the others. *)
Forced_Never(d) == FALSE

Forced(d) == d = "checkpoint"              (* make -B *)

(* Defect: `all` saves checkpoints of whatever is in bin/checkpoint. *)
Tasks_NoRebuild(target) ==
  CASE target = "all"        -> <<"linux", "spike", "save">>
    [] target = "checkpoint" -> <<"checkpoint", "save">>
    [] OTHER                 -> <<target>>

Tasks(target) ==
  CASE target = "all"        -> <<"linux", "spike", "checkpoint", "save">>
    [] target = "checkpoint" -> <<"checkpoint", "save">>
    [] OTHER                 -> <<target>>

Init ==
  /\ elf = [d \in Dirs |-> [t \in Tests |-> NoElf]]
  /\ ckpt = [t \in Tests |-> "none"]
  /\ spike \in BOOLEAN
  /\ phase = "idle" /\ plan = <<>> /\ status = "none"
  /\ arch \in Archs /\ cleaning = FALSE
  /\ todo = {} /\ stopped = FALSE
  /\ missed = [t \in Tests |-> Idle]
  /\ saver = [t \in Tests |-> "none"]
  /\ told = [t \in Tests |-> "none"]
  /\ touched = [t \in Tests |-> {}]
  /\ bound = [edits |-> 0, builds |-> 0, kills |-> 0]

-----------------------------------------------------------------------------
(* A source of the tests in S is edited: its time passes that of every     *)
(* executable, and a compiler that has read it does not notice.            *)
Touch(S, k) ==
  /\ bound.edits < MaxEdits
  /\ bound' = [bound EXCEPT !.edits = @ + 1]
  /\ elf' = [d \in Dirs |-> [t \in Tests |->
       IF t \in S /\ Exists(d, t)
       THEN [elf[d][t] EXCEPT !.stale = @ \cup {k}, !.newer = @ \cup {k}]
       ELSE elf[d][t]]]
  /\ missed' = [t \in Tests |->
       IF t \in S \cap Compiling THEN missed[t] \cup {k} ELSE missed[t]]
  /\ touched' = [t \in Tests |-> IF t \in S THEN touched[t] \cup {k} ELSE touched[t]]
  /\ UNCHANGED <<ckpt, spike, shell, todo, pool, stopped>>

Edit == \/ \E t \in Tests, k \in Kinds \ Shared : Touch({t}, k)
        \/ \E k \in Shared : Touch(Tests, k)

Start ==
  /\ phase \in {"idle", "done"}
  /\ bound.builds < MaxBuilds
  /\ bound' = [bound EXCEPT !.builds = @ + 1]
  /\ \E target \in Targets : plan' = Tasks(target)
  /\ arch' \in Archs
  /\ cleaning' \in BOOLEAN
  /\ phase' = "next" /\ status' = "none"
  /\ told' = [t \in Tests |-> "none"]
  /\ saver' = [t \in Tests |-> "none"]
  /\ touched' = [t \in Tests |-> {}]
  /\ stopped' = FALSE
  /\ UNCHANGED <<files, spike, todo, missed>>

Stop(s) == phase' = "done" /\ status' = s

Finish ==
  /\ phase = "next" /\ plan = <<>>
  /\ Stop("ok")
  /\ UNCHANGED <<files, spike, plan, arch, cleaning, todo, missed, pool,
                 stopped, touched, bound>>

(* Executables that go away or are replaced leave their checkpoints. *)
Outdate(S) == [t \in Tests |-> IF t \in S /\ ckpt[t] = "current" THEN "old" ELSE ckpt[t]]

(* --clean: rm -rf bin/<d>; checkpoints/ is left alone. *)
Clean ==
  /\ phase = "next" /\ plan # <<>> /\ Task # "save"
  /\ cleaning
  /\ elf' = [elf EXCEPT ![Task] = [t \in Tests |-> NoElf]]
  /\ ckpt' = IF Task = "checkpoint" THEN Outdate(Tests) ELSE ckpt
  /\ plan' = Tail(plan)
  /\ UNCHANGED <<spike, phase, arch, cleaning, status, todo, missed, pool,
                 stopped, touched, bound>>

-----------------------------------------------------------------------------
(* make *)

BeginMake ==
  /\ phase = "next" /\ plan # <<>> /\ Task # "save"
  /\ ~cleaning
  /\ phase' = "make"
  /\ todo' = Tests
  /\ UNCHANGED <<files, spike, plan, arch, cleaning, status, missed, pool,
                 stopped, touched, bound>>

Considered(t) == phase = "make" /\ ~stopped /\ t \in todo

Skip(t) ==
  /\ Considered(t)
  /\ UpToDate(Task, t) /\ ~Forced(Task)
  /\ todo' = todo \ {t}
  /\ UNCHANGED <<files, spike, shell, missed, pool, stopped, touched, bound>>

Compile(t) ==
  /\ Considered(t)
  /\ ~UpToDate(Task, t) \/ Forced(Task)
  /\ Cardinality(Compiling) < Jobs
  /\ todo' = todo \ {t}
  /\ missed' = [missed EXCEPT ![t] = {}]
  /\ UNCHANGED <<files, spike, shell, pool, stopped, touched, bound>>

(* The executable is written and is now newer than all its sources. *)
Link(t) ==
  /\ t \in Compiling
  /\ elf' = [elf EXCEPT ![Task][t] = [arch |-> arch, stale |-> missed[t], newer |-> {}]]
  /\ ckpt' = IF Task = "checkpoint" THEN Outdate({t}) ELSE ckpt
  /\ missed' = [missed EXCEPT ![t] = Idle]
  /\ UNCHANGED <<spike, shell, todo, pool, stopped, touched, bound>>

(* An old executable survives an error of the compiler, not of the linker. *)
CompileError(t) ==
  /\ t \in Compiling
  /\ \/ UNCHANGED files
     \/ /\ elf' = [elf EXCEPT ![Task][t] = NoElf]
        /\ ckpt' = IF Task = "checkpoint" THEN Outdate({t}) ELSE ckpt
  /\ missed' = [missed EXCEPT ![t] = Idle]
  /\ stopped' = TRUE
  /\ UNCHANGED <<spike, shell, todo, pool, touched, bound>>

(* make waits for its jobs; when one failed, `set -e` ends the invocation. *)
EndMake ==
  /\ phase = "make"
  /\ todo = {} \/ stopped
  /\ Compiling = {}
  /\ IF stopped THEN Stop("failed") /\ UNCHANGED plan
                ELSE phase' = "next" /\ plan' = Tail(plan) /\ UNCHANGED status
  /\ UNCHANGED <<files, spike, arch, cleaning, todo, missed, pool, stopped,
                 touched, bound>>

-----------------------------------------------------------------------------
(* generate_checkpoints *)

Listed == {t \in Tests : Exists("checkpoint", t)}

(* No bin/checkpoint, no Spike or no pk: die. *)
CannotSave ==
  /\ phase = "next" /\ plan # <<>> /\ Task = "save"
  /\ Listed = {} \/ ~spike
  /\ Stop("failed")
  /\ UNCHANGED <<files, spike, plan, arch, cleaning, todo, missed, pool,
                 stopped, touched, bound>>

BeginSave ==
  /\ phase = "next" /\ plan # <<>> /\ Task = "save"
  /\ Listed # {} /\ spike
  /\ phase' = "save"
  /\ todo' = Listed
  /\ UNCHANGED <<files, spike, plan, arch, cleaning, status, missed, pool,
                 stopped, touched, bound>>

SpawnSaver(t) ==
  /\ phase = "save" /\ ~stopped /\ t \in todo
  /\ Cardinality(Saving) < Jobs
  /\ todo' = todo \ {t}
  /\ saver' = [saver EXCEPT ![t] = "spawned"]
  /\ UNCHANGED <<files, spike, shell, missed, told, stopped, touched, bound>>

(* Defect: a checkpoint that is there is left for Spike to overwrite. *)
RemoveOld_Keep(t) ==
  /\ saver[t] = "spawned"
  /\ saver' = [saver EXCEPT ![t] = "saving"]
  /\ UNCHANGED <<files, spike, shell, todo, missed, told, stopped, touched, bound>>

RemoveOld(t) ==
  /\ saver[t] = "spawned"
  /\ ckpt' = [ckpt EXCEPT ![t] = "none"]
  /\ saver' = [saver EXCEPT ![t] = "saving"]
  /\ UNCHANGED <<elf, spike, shell, todo, missed, told, stopped, touched, bound>>

(* What a Spike that does not finish may leave behind: nothing new, or     *)
(* some of the files.                                                      *)
Remains(t) == {ckpt[t], "partial"}

(* Defect: OK is printed without a look for .bootram. *)
SaveEnds_NoCheck(t) ==
  /\ saver[t] = "saving"
  /\ \/ \E c \in {"current"} \cup Remains(t) :
          /\ ckpt' = [ckpt EXCEPT ![t] = c]
          /\ told' = [told EXCEPT ![t] = "OK"]
     \/ /\ ckpt' \in {[ckpt EXCEPT ![t] = c] : c \in Remains(t)}
        /\ told' = [told EXCEPT ![t] = "FAIL"]
  /\ saver' = [saver EXCEPT ![t] = "done"]
  /\ UNCHANGED <<elf, spike, shell, todo, missed, stopped, touched, bound>>

(* Spike exits with 0 and has written .bootram: OK.  It exits with 0       *)
(* because the program ended before the trigger, or with an error: FAIL.   *)
SaveEnds(t) ==
  /\ saver[t] = "saving"
  /\ \/ /\ ckpt' = [ckpt EXCEPT ![t] = "current"]
        /\ told' = [told EXCEPT ![t] = "OK"]
     \/ /\ \E c \in Remains(t) : ckpt' = [ckpt EXCEPT ![t] = c]
        /\ told' = [told EXCEPT ![t] = "FAIL"]
  /\ saver' = [saver EXCEPT ![t] = "done"]
  /\ UNCHANGED <<elf, spike, shell, todo, missed, stopped, touched, bound>>

(* A worker dies of a signal: xargs starts no further one. *)
KillSaver(t) ==
  /\ t \in Saving
  /\ bound.kills < MaxKills
  /\ bound' = [bound EXCEPT !.kills = @ + 1]
  /\ \E c \in Remains(t) : ckpt' = [ckpt EXCEPT ![t] = c]
  /\ saver' = [saver EXCEPT ![t] = "done"]
  /\ stopped' = TRUE
  /\ UNCHANGED <<elf, spike, shell, todo, missed, told, touched>>

(* A worker that printed FAIL exits with 0; only a killed one makes xargs, *)
(* and with pipefail the invocation, fail.                                 *)
EndSave ==
  /\ phase = "save"
  /\ todo = {} \/ stopped
  /\ Saving = {}
  /\ IF stopped THEN Stop("failed") /\ UNCHANGED plan
                ELSE phase' = "next" /\ plan' = Tail(plan) /\ UNCHANGED status
  /\ UNCHANGED <<files, spike, arch, cleaning, todo, missed, pool, stopped,
                 touched, bound>>

(* Ctrl-C ends the shell, make and its compilers, xargs and its workers;   *)
(* make removes an executable that was being replaced.                     *)
Interrupt ==
  /\ phase \in Live
  /\ Stop("interrupted")
  /\ \E gone \in SUBSET Compiling, part \in SUBSET Saving :
       /\ elf' = IF phase = "make"
                 THEN [elf EXCEPT ![Task] = [t \in Tests |->
                         IF t \in gone THEN NoElf ELSE @[t]]]
                 ELSE elf
       /\ ckpt' = [t \in Tests |->
            IF t \in part THEN "partial"
            ELSE IF phase = "make" /\ Task = "checkpoint" THEN Outdate(gone)[t]
            ELSE ckpt[t]]
  /\ missed' = [t \in Tests |-> Idle]
  /\ saver' = [t \in Tests |-> IF t \in Saving THEN "done" ELSE saver[t]]
  /\ UNCHANGED <<spike, plan, arch, cleaning, todo, told, stopped, touched, bound>>

-----------------------------------------------------------------------------
Make(t) == Skip(t) \/ Compile(t) \/ Link(t) \/ CompileError(t)
Save(t) == SpawnSaver(t) \/ RemoveOld(t) \/ SaveEnds(t)
Shell   == Finish \/ Clean \/ BeginMake \/ EndMake \/ CannotSave \/ BeginSave \/ EndSave

Next == \/ Edit \/ Start \/ Shell \/ Interrupt
        \/ \E t \in Tests : Make(t) \/ Save(t) \/ KillSaver(t)

Spec == Init /\ [][Next]_vars

-----------------------------------------------------------------------------
(* What may be left of the tasks of a target. *)
Plans == {<<>>, <<"save">>, <<"checkpoint", "save">>,
          <<"spike", "checkpoint", "save">>,
          <<"linux", "spike", "checkpoint", "save">>, <<"linux">>, <<"spike">>}

(* Every variable holds a value of its type; checkpoints are only saved    *)
(* right after the directory they are saved from was built or cleaned.     *)
TypeOK ==
  /\ elf \in [Dirs -> [Tests -> [arch : Archs \cup {"absent"},
                                 stale : SUBSET Kinds, newer : SUBSET Kinds]]]
  /\ ckpt \in [Tests -> {"none", "partial", "old", "current"}]
  /\ spike \in BOOLEAN
  /\ phase \in Live \cup {"idle", "done"}
  /\ plan \in Plans
  /\ arch \in Archs /\ cleaning \in BOOLEAN
  /\ todo \subseteq Tests
  /\ missed \in [Tests -> (SUBSET Kinds) \cup {Idle}]
  /\ saver \in [Tests -> {"none", "spawned", "saving", "done"}]
  /\ stopped \in BOOLEAN
  /\ told \in [Tests -> {"none", "OK", "FAIL"}]
  /\ status \in {"none", "ok", "failed", "interrupted"}
  /\ touched \in [Tests -> SUBSET Kinds]
  /\ bound \in [edits : 0 .. MaxEdits, builds : 0 .. MaxBuilds, kills : 0 .. MaxKills]

Saved == phase = "done" /\ status = "ok" /\ \E t \in Tests : saver[t] # "none"

(* After a checkpoint build that succeeded no checkpoint of an earlier     *)
(* executable is left that a run could restore, whatever Spike did.        *)
NoOldCheckpoint == Saved => \A t \in Tests : ckpt[t] # "old"

(* Of every test that build says OK or FAIL, and OK means that the files   *)
(* are complete and were saved from the executable now in bin/checkpoint.  *)
OkMeansCurrent ==
  Saved => \A t \in Tests : /\ told[t] # "none"
                            /\ told[t] = "OK" => ckpt[t] = "current"

(* A checkpoint build that succeeded has compiled every test with its      *)
(* profile, and any edit its executable misses was made after it began:    *)
(* nothing lost by an earlier build is inherited.                          *)
ForcedBuildIsCurrent ==
  Saved => \A t \in Tests : /\ elf["checkpoint"][t].arch = arch
                            /\ elf["checkpoint"][t].stale \subseteq touched[t]

(* When make has gone through a directory with success, every test has an  *)
(* executable there, and only prerequisites edited since the invocation    *)
(* began are newer than it.                                                *)
MadeIsUpToDate ==
  (phase = "make" /\ todo = {} /\ Compiling = {} /\ ~stopped) =>
    \A t \in Tests : /\ Exists(Task, t)
                     /\ elf[Task][t].newer \cap {"main", "common"} \subseteq touched[t]

(* README.md: `make ARCH=<name>` injects the parameters of that profile    *)
(* into all tests.                                                         *)
ArchInjected ==
  (phase = "make" /\ todo = {} /\ Compiling = {} /\ ~stopped) =>
    \A t \in Tests : elf[Task][t].arch = arch

(* --clean: "Clean build artifacts instead of building".  Nothing is built, *)
(* so nothing that was just removed may be missing.                        *)
CleanSucceeds == phase = "done" /\ cleaning => status # "failed"
=============================================================================
