----------------------------- MODULE JobSchedule -----------------------------
(***************************************************************************)
(* What ExecutionGraph.execute promises to the task that calls it: a DAG   *)
(* of jobs is worked off, each job at most once and only after every job   *)
(* it depends on succeeded; a job is canceled only because one it depends  *)
(* on did not succeed; the call returns only when every job succeeded.     *)
(* There are no queues, heaps, counters or threads here: ExecutionGraph    *)
(* has those and is checked to implement this module, and JvmCompile says  *)
(* what the jobs do.                                                       *)
(***************************************************************************)
CONSTANTS Job,
          Graphs       \* the job lists a call may get: jobs with their dependencies

VARIABLES
  dependencies,   \* the jobs of the current call, each with those it depends on
  state,          \* what became of each of them
  call            \* "none", "active", "returned" or "raised"

scheduleVars == <<dependencies, state, call>>

jobs == DOMAIN dependencies

Idle == dependencies = <<>> /\ state = [j \in Job |-> "waiting"] /\ call = "none"

Call(deps) == /\ call' = "active" /\ dependencies' = deps
              /\ state' = [j \in Job |-> "waiting"]

\* A call that raised leaves its pool working.
Working == call \in {"active", "raised"}

Start(j) == /\ Working /\ state[j] = "waiting"
            /\ \A d \in dependencies[j] : state[d] = "ok"
            /\ state' = [state EXCEPT ![j] = "running"]
            /\ UNCHANGED <<dependencies, call>>

End(j, result) == /\ Working /\ state[j] = "running"
                  /\ state' = [state EXCEPT ![j] = result]
                  /\ UNCHANGED <<dependencies, call>>

Cancel(j) == /\ call = "active" /\ state[j] = "waiting"
             /\ \E d \in dependencies[j] : state[d] \in {"failed", "canceled"}
             /\ state' = [state EXCEPT ![j] = "canceled"]
             /\ UNCHANGED <<dependencies, call>>

Return == /\ call = "active" /\ \A j \in jobs : state[j] = "ok"
          /\ call' = "returned" /\ UNCHANGED <<dependencies, state>>

\* Jobs failed and all have ended, or a callback raised.
Raise == call = "active" /\ call' = "raised" /\ UNCHANGED <<dependencies, state>>

\* A callback raised in the step that took the job's result.
EndAndRaise(j, result) == /\ call = "active" /\ state[j] \in {"running", "waiting"}
                          /\ state' = [state EXCEPT ![j] = result] /\ call' = "raised"
                          /\ UNCHANGED dependencies

Next == \/ call # "active" /\ \E deps \in Graphs : Call(deps)
        \/ \E j \in jobs : \/ Start(j) \/ Cancel(j)
                           \/ \E r \in {"ok", "failed"} : End(j, r) \/ EndAndRaise(j, r)
                           \/ EndAndRaise(j, "canceled")
        \/ Return \/ Raise

Spec == Idle /\ [][Next]_scheduleVars
=============================================================================
