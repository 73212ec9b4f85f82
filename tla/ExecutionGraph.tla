--------------------------- MODULE ExecutionGraph ---------------------------
(***************************************************************************)
(* backend/jvm/tasks/jvm_compile/execution_graph.py: the main thread of    *)
(* ExecutionGraph.execute and the threads of its WorkerPool.  They share   *)
(* the status table, the queue of finished work and the counter            *)
(* jobs_in_flight; a worker puts its result on the queue BEFORE it         *)
(* decrements the counter, so the main thread may see a result, find the   *)
(* counter at its limit and leave a ready job in the heap.                 *)
(*                                                                         *)
(* What the jobs do is modelled in JvmCompile, over the abstract schedule  *)
(* this module implements.                                                 *)
(***************************************************************************)
EXTENDS Naturals, Sequences, FiniteSets, SequencesExt

CONSTANTS
  Job,            \* keys of the jobs that can be scheduled
  HeapOrder,      \* position of the heap's tuple (-priority, key): a total order
  NumWorkers,     \* WorkerPool.num_workers
  Graphs          \* the job lists a call may get: functions from jobs to their dependencies

ASSUME ExecutionGraphAssumption ==
  /\ IsFiniteSet(Job)
  /\ HeapOrder \in [Job -> Nat]
  /\ \A i, j \in Job : HeapOrder[i] = HeapOrder[j] => i = j
  /\ NumWorkers \in Nat \ {0}
  /\ \A deps \in Graphs : DOMAIN deps \subseteq Job /\ deps \in [DOMAIN deps -> SUBSET DOMAIN deps]

VARIABLES
  dependencies,   \* self._dependencies: the scheduled jobs, each with those it depends on
  status,      \* StatusTable._statuses
  pending,     \* StatusTable._pending_dependencies_count
  heap,        \* ready jobs that no worker was free for
  inFlight,    \* jobs_in_flight
  submitted,   \* in the thread pool, not begun
  running,     \* a worker is in work()
  leaving,     \* the worker has put its result and not yet decremented jobs_in_flight
  finished,    \* finished_queue
  main         \* where the thread that called execute() is

vars == <<dependencies, status, pending, heap, inFlight, submitted, running, leaving, finished, main>>

UNSTARTED == "Unstarted"
QUEUED == "Queued"
RUNNING == "Running"
SUCCESSFUL == "Successful"
FAILED == "Failed"
CANCELED == "Canceled"
DONE_STATES == {SUCCESSFUL, FAILED, CANCELED}
Status == DONE_STATES \cup {UNSTARTED, QUEUED, RUNNING}

jobs == DOMAIN dependencies
Dependees(k) == {j \in jobs : k \in dependencies[j]}

Init ==
  /\ dependencies = <<>> /\ status = [k \in Job |-> UNSTARTED] /\ pending = [k \in Job |-> 0]
  /\ heap = {} /\ inFlight = 0 /\ submitted = {} /\ running = {} /\ leaving = {}
  /\ finished = <<>> /\ main = "idle"

(***************************************************************************)
(* try_to_submit_jobs_from_heap: pops in heap order while the counter is   *)
(* below the size of the pool.                                             *)
(***************************************************************************)
PoppedOneTooMany(h) ==
  {k \in h : inFlight + Cardinality({j \in h : HeapOrder[j] < HeapOrder[k]}) <= NumWorkers}

Popped(h) ==
  {k \in h : inFlight + Cardinality({j \in h : HeapOrder[j] < HeapOrder[k]}) < NumWorkers}

SubmitFrom(h) ==
  /\ heap' = h \ Popped(h)
  /\ submitted' = submitted \cup Popped(h)
  /\ inFlight' = inFlight + Cardinality(Popped(h))

\* ExecutionGraph.__init__ and the start of execute().
Execute(deps) ==
  LET roots == {k \in DOMAIN deps : deps[k] = {}} IN
  /\ main = "idle" /\ roots # {}
  /\ dependencies' = deps /\ main' = "loop"
  /\ status' = [k \in Job |-> IF k \in roots THEN QUEUED ELSE UNSTARTED]
  /\ pending' = [k \in Job |-> IF k \in DOMAIN deps THEN Cardinality(deps[k]) ELSE 0]
  /\ SubmitFrom(roots)
  /\ UNCHANGED <<running, leaving, finished>>

\* worker(): a thread of the pool takes the next piece of work.
WorkerStarts(k) ==
  /\ k \in submitted /\ Cardinality(running \cup leaving) < NumWorkers
  /\ submitted' = submitted \ {k} /\ running' = running \cup {k}
  /\ status' = [status EXCEPT ![k] = RUNNING]
  /\ UNCHANGED <<dependencies, pending, heap, inFlight, leaving, finished, main>>

\* work() returned or raised: finished_queue.put(result).
WorkerPuts(k, result) ==
  /\ k \in running
  /\ finished' = Append(finished, [key |-> k, result |-> result])
  /\ running' = running \ {k} /\ leaving' = leaving \cup {k}
  /\ UNCHANGED <<dependencies, status, pending, heap, inFlight, submitted, main>>

\* jobs_in_flight.decrement().
WorkerDecrements(k) ==
  /\ k \in leaving
  /\ leaving' = leaving \ {k} /\ inFlight' = inFlight - 1
  /\ UNCHANGED <<dependencies, status, pending, heap, submitted, running, finished, main>>

AllDone == \A k \in jobs : status[k] \in DONE_STATES

\* The main thread is in its loop and finished_queue.get() returns.
Got == /\ main = "loop" /\ ~AllDone /\ finished # <<>>

\* StatusTable.is_ready_to_submit, for the dependees of a job.
ReadyUnchecked(k, left) == {j \in Dependees(k) : status[j] = UNSTARTED}

Ready(k, left) == {j \in Dependees(k) : status[j] = UNSTARTED /\ left[j] = 0}

\* A job succeeded: its callback has run, and the dependees it was the last of are submitted.
MainSucceeds(k) ==
  LET left == [j \in Job |-> IF j \in Dependees(k) THEN pending[j] - 1 ELSE pending[j]]
      ready == Ready(k, left)
  IN /\ Got /\ Head(finished) = [key |-> k, result |-> SUCCESSFUL]
     /\ finished' = Tail(finished) /\ pending' = left
     /\ status' = [j \in Job |-> CASE j = k -> SUCCESSFUL
                                   [] j \in ready -> QUEUED
                                   [] OTHER -> status[j]]
     /\ SubmitFrom(heap \cup ready)
     /\ UNCHANGED <<dependencies, running, leaving, main>>

\* A job failed or was canceled: dependees that have not started are canceled through the queue.
MainFails(k) ==
  LET canceled == {j \in Dependees(k) : status[j] = UNSTARTED}
      put(j) == [key |-> j, result |-> CANCELED]
  IN /\ Got /\ Head(finished).key = k /\ Head(finished).result # SUCCESSFUL
     /\ finished' = Tail(finished) \o SetToSeq({put(j) : j \in canceled})
     /\ status' = [j \in Job |-> CASE j = k -> Head(finished).result
                                   [] j \in canceled -> QUEUED
                                   [] OTHER -> status[j]]
     /\ UNCHANGED <<dependencies, pending, heap, inFlight, submitted, running, leaving, main>>

\* The job's callback raised: ExecutionFailure leaves execute() at once, without the failure
\* callbacks of unfinished jobs.  (Any other exception of the main thread would call them.)
MainCallbackRaises(k) ==
  /\ Got /\ Head(finished).key = k
  /\ finished' = Tail(finished) /\ main' = "raised"
  /\ status' = [status EXCEPT ![k] = Head(finished).result]
  /\ UNCHANGED <<dependencies, pending, heap, inFlight, submitted, running, leaving>>

\* queue.Empty after ten seconds: the heap is tried again.
MainTimesOutIdle == main = "loop" /\ finished = <<>> /\ UNCHANGED vars

MainTimesOut ==
  /\ main = "loop" /\ ~AllDone /\ finished = <<>>
  /\ heap # {} /\ inFlight < NumWorkers
  /\ SubmitFrom(heap)
  /\ UNCHANGED <<dependencies, status, pending, running, leaving, finished, main>>

\* The loop ends; failed jobs are raised as an ExecutionFailure.
MainReturns ==
  /\ main = "loop" /\ AllDone
  /\ main' = IF \E k \in jobs : status[k] = FAILED THEN "raised" ELSE "returned"
  /\ UNCHANGED <<dependencies, status, pending, heap, inFlight, submitted, running, leaving, finished>>

Worker(k) == \/ WorkerStarts(k) \/ WorkerDecrements(k)
             \/ \E r \in {SUCCESSFUL, FAILED} : WorkerPuts(k, r)

Main == (\E k \in Job : MainSucceeds(k) \/ MainFails(k)) \/ MainTimesOut \/ MainReturns

Next == \/ \E deps \in Graphs : Execute(deps)
        \/ Main
        \/ \E k \in Job : Worker(k) \/ MainCallbackRaises(k)

\* Jobs end, threads are scheduled, and finished_queue.get returns or times out.
Spec == Init /\ [][Next]_vars /\ WF_vars(Main) /\ \A k \in Job : WF_vars(Worker(k))

-----------------------------------------------------------------------------

\* A job's place in the abstract schedule: it is "running" until the main thread has taken its
\* result, and a canceled one is "waiting" until its entry of the queue is taken.
Abstract(k) == CASE status[k] = SUCCESSFUL -> "ok"
                 [] status[k] = FAILED -> "failed"
                 [] status[k] = CANCELED -> "canceled"
                 [] status[k] = RUNNING -> "running"
                 [] OTHER -> "waiting"

Schedule == INSTANCE JobSchedule WITH
              state <- [k \in Job |-> Abstract(k)],
              call <- CASE main = "idle" -> "none" [] main = "loop" -> "active" [] OTHER -> main

\* The execution graph works off the jobs as the abstract schedule does: no job starts before
\* its dependencies succeeded, none runs twice, none is canceled without cause, and the call
\* returns without an error only when all have succeeded.
ImplementsSchedule == Schedule!Spec

\* Every call ends, although a job may stay in the heap because its worker was seen finished
\* before it had decremented jobs_in_flight.
ExecuteEnds == (main = "loop") ~> (main \in {"returned", "raised"})

\* jobs_in_flight counts what is in the pool and never exceeds its size: a job is neither
\* forgotten by the pool nor submitted to a pool that is full.
InFlightExact ==
  /\ inFlight = Cardinality(submitted) + Cardinality(running) + Cardinality(leaving)
  /\ inFlight <= NumWorkers
=============================================================================
