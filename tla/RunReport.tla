----------------------------- MODULE RunReport ------------------------------
(***************************************************************************)
(* What a user may rely on when invocations of `uarch run` follow one      *)
(* another on a logdir: the tests of the list are executed, each once;     *)
(* then each is reported, once, as what it did in this invocation; and the *)
(* exit status is 0 exactly when no test failed.  Files, workers and the   *)
(* order of execution are not mentioned: Runner implements them.           *)
(***************************************************************************)
CONSTANTS Tests, Runs

VARIABLES
  stage,    (* stage[r]: idle, open, closed or aborted            *)
  list,     (* list[r]: the tests selected                        *)
  result,   (* result[r][t]: how t ended, "unknown" before it did *)
  verdict,  (* verdict[r][t]: what is reported                    *)
  status    (* status[r]: exit status                             *)

vars == <<stage, list, result, verdict, status>>

Says(e) == CASE e = "ok"      -> "PASS"
             [] e = "timeout" -> "TIMEOUT"
             [] OTHER         -> "FAIL"

Init ==
  /\ stage   = [r \in Runs |-> "idle"]
  /\ list    = [r \in Runs |-> {}]
  /\ result  = [r \in Runs |-> [t \in Tests |-> "unknown"]]
  /\ verdict = [r \in Runs |-> [t \in Tests |-> "none"]]
  /\ status  = [r \in Runs |-> "none"]

Open(r) ==
  /\ \A q \in Runs : stage[q] # "open"
  /\ stage[r] = "idle"
  /\ stage' = [stage EXCEPT ![r] = "open"]
  /\ \E L \in (SUBSET Tests) \ {{}} : list' = [list EXCEPT ![r] = L]
  /\ UNCHANGED <<result, verdict, status>>

Execute(r, t) ==
  /\ stage[r] = "open"
  /\ t \in list[r] /\ result[r][t] = "unknown"
  /\ \E e \in {"ok", "timeout", "fail"} : result' = [result EXCEPT ![r][t] = e]
  /\ UNCHANGED <<stage, list, verdict, status>>

Tell(r, t) ==
  /\ stage[r] = "open"
  /\ \A u \in list[r] : result[r][u] # "unknown"
  /\ t \in list[r] /\ verdict[r][t] = "none"
  /\ verdict' = [verdict EXCEPT ![r][t] = Says(result[r][t])]
  /\ UNCHANGED <<stage, list, result, status>>

Close(r) ==
  /\ stage[r] = "open"
  /\ \A t \in list[r] : verdict[r][t] # "none"
  /\ stage' = [stage EXCEPT ![r] = "closed"]
  /\ status' = [status EXCEPT ![r] =
                  IF \E t \in list[r] : verdict[r][t] = "FAIL" THEN "failed"
                                                              ELSE "ok"]
  /\ UNCHANGED <<list, result, verdict>>

(* Nothing selected, or interrupted: the invocation says so by its status. *)
Abort(r) ==
  /\ stage[r] \in {"idle", "open"}
  /\ stage' = [stage EXCEPT ![r] = "aborted"]
  /\ status' = [status EXCEPT ![r] = "failed"]
  /\ UNCHANGED <<list, verdict, result>>

Next == \E r \in Runs : \/ Open(r) \/ Close(r) \/ Abort(r)
                        \/ \E t \in Tests : Execute(r, t) \/ Tell(r, t)

Spec == Init /\ [][Next]_vars
=============================================================================
