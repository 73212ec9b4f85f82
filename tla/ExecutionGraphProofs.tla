------------------------ MODULE ExecutionGraphProofs ------------------------
(***************************************************************************)
(* ExecutionGraph implements JobSchedule, and jobs_in_flight is exact, for *)
(* every set of jobs, every dependency graph over them, every order of the *)
(* heap and every number of workers.                                       *)
(*                                                                         *)
(* PoolInv says where a job can be in each of its states, what an entry of *)
(* finished_queue means, and that the counter of a job's pending           *)
(* dependencies is right as long as the main thread is in its loop.        *)
(***************************************************************************)
EXTENDS ExecutionGraph, FiniteSetTheorems, SequenceTheorems, TLAPS

Entry == [key : Job, result : DONE_STATES]

PoolType ==
  /\ DOMAIN dependencies \subseteq Job /\ dependencies \in [DOMAIN dependencies -> SUBSET DOMAIN dependencies]
  /\ status \in [Job -> Status] /\ pending \in [Job -> Int]
  /\ heap \subseteq jobs /\ submitted \subseteq jobs /\ running \subseteq jobs /\ leaving \subseteq jobs
  /\ finished \in Seq(Entry)
  /\ main \in {"idle", "loop", "returned", "raised"}

\* A job is in at most one place.
Apart ==
  /\ heap \cap submitted = {} /\ heap \cap running = {} /\ heap \cap leaving = {}
  /\ submitted \cap running = {} /\ submitted \cap leaving = {} /\ running \cap leaving = {}

\* What is known of a job from its place.
Places ==
  /\ \A k \in heap \cup submitted : status[k] = QUEUED /\ \A d \in dependencies[k] : status[d] = SUCCESSFUL
  /\ \A k \in running : status[k] = RUNNING
  /\ \A k \in leaving : status[k] \in {RUNNING, SUCCESSFUL, FAILED}

\* What an entry of the queue means: its job ran, or one it depends on did not succeed.
EntryInv(e) ==
  /\ e.key \in jobs
  /\ e.result # CANCELED => status[e.key] = RUNNING /\ e.key \notin running
  /\ e.result = CANCELED => /\ status[e.key] = QUEUED
                            /\ \E d \in dependencies[e.key] : status[d] \in {FAILED, CANCELED}

QueueInv ==
  /\ \A i \in 1 .. Len(finished) : EntryInv(finished[i])
  /\ \A i, j \in 1 .. Len(finished) : i # j => finished[i].key # finished[j].key

\* Some job has failed if one is, or is going to be, canceled.
CancelInv ==
  (\E k \in jobs : status[k] = CANCELED) \/ (\E i \in 1 .. Len(finished) : finished[i].result = CANCELED)
    => \E k \in jobs : status[k] = FAILED

Unfinished(j) == {d \in dependencies[j] : status[d] # SUCCESSFUL}

PhaseInv ==
  /\ main = "idle" => /\ dependencies = <<>> /\ finished = <<>> /\ \A k \in Job : status[k] = UNSTARTED
  /\ main = "loop" => \A j \in jobs : pending[j] = Cardinality(Unfinished(j))
  /\ main = "returned" => \A k \in jobs : status[k] \in DONE_STATES

PoolInv == PoolType /\ Apart /\ Places /\ QueueInv /\ CancelInv /\ PhaseInv /\ InFlightExact

LEMMA FiniteJobs == ASSUME NEW S, S \subseteq Job PROVE IsFiniteSet(S) /\ Cardinality(S) \in Nat
  BY ExecutionGraphAssumption, FS_Subset, FS_CardinalityType

LEMMA Distinct ==
  /\ UNSTARTED \notin DONE_STATES /\ QUEUED \notin DONE_STATES /\ RUNNING \notin DONE_STATES
  /\ UNSTARTED # QUEUED /\ UNSTARTED # RUNNING /\ QUEUED # RUNNING
  /\ SUCCESSFUL # FAILED /\ SUCCESSFUL # CANCELED /\ FAILED # CANCELED
  /\ DONE_STATES = {SUCCESSFUL, FAILED, CANCELED}
  /\ Status = {SUCCESSFUL, FAILED, CANCELED, UNSTARTED, QUEUED, RUNNING}
  BY DEF UNSTARTED, QUEUED, RUNNING, SUCCESSFUL, FAILED, CANCELED, DONE_STATES, Status

(***************************************************************************)
(* try_to_submit_jobs_from_heap never submits more than there are workers. *)
(***************************************************************************)
Before(h, k) == {j \in h : HeapOrder[j] < HeapOrder[k]}

\* The positions of two jobs in the heap differ.
LEMMA RanksDiffer ==
  ASSUME NEW h, h \subseteq Job, NEW i \in h, NEW k \in h, HeapOrder[i] < HeapOrder[k]
  PROVE  Cardinality(Before(h, i)) # Cardinality(Before(h, k))
<1>1. HeapOrder \in [Job -> Nat]
  BY ExecutionGraphAssumption
<1>2. Before(h, i) \subseteq Before(h, k) /\ i \in Before(h, k) /\ i \notin Before(h, i)
  BY <1>1 DEF Before
<1>3. IsFiniteSet(Before(h, k))
  BY FiniteJobs DEF Before
<1>4. QED
  BY <1>2, <1>3, FS_Subset

LEMMA PoppedFits ==
  ASSUME NEW h, h \subseteq Job, inFlight \in Nat, inFlight <= NumWorkers
  PROVE  /\ Popped(h) \subseteq h /\ Cardinality(Popped(h)) \in Nat
         /\ inFlight + Cardinality(Popped(h)) <= NumWorkers
<1> DEFINE m == NumWorkers - inFlight
           rank == [k \in Popped(h) |-> Cardinality(Before(h, k))]
<1>1. NumWorkers \in Nat /\ HeapOrder \in [Job -> Nat] /\ \A i, j \in Job : HeapOrder[i] = HeapOrder[j] => i = j
  BY ExecutionGraphAssumption
<1>2. m \in Nat /\ inFlight + m = NumWorkers
  BY <1>1
<1>3. Popped(h) = {k \in h : inFlight + Cardinality(Before(h, k)) < NumWorkers}
  BY DEF Popped, Before
<1>4. Popped(h) \subseteq h /\ Cardinality(Popped(h)) \in Nat
  BY <1>3, FiniteJobs
<1>5. ASSUME NEW k \in Popped(h) PROVE Cardinality(Before(h, k)) \in 0 .. m - 1
  <2>1. Cardinality(Before(h, k)) \in Nat
    BY FiniteJobs DEF Before
  <2>2. inFlight + Cardinality(Before(h, k)) < NumWorkers
    BY <1>3
  <2>3. QED
    BY <1>2, <2>1, <2>2
<1>6. ASSUME NEW i \in Popped(h), NEW k \in Popped(h), rank[i] = rank[k] PROVE i = k
  <2>1. i \in h /\ k \in h /\ i \in Job /\ k \in Job
    BY <1>4
  <2>2. ~(HeapOrder[i] < HeapOrder[k]) /\ ~(HeapOrder[k] < HeapOrder[i])
    BY <1>6, <2>1, RanksDiffer
  <2>3. HeapOrder[i] = HeapOrder[k]
    BY <1>1, <2>1, <2>2
  <2>4. QED
    BY <1>1, <2>1, <2>3
<1>7. rank \in Injection(Popped(h), 0 .. m - 1)
  BY <1>5, <1>6 DEF Injection, IsInjective
<1>8. IsFiniteSet(0 .. m - 1) /\ Cardinality(0 .. m - 1) = m
  <2> HIDE DEF m
  <2>1. 0 \in Int /\ m - 1 \in Int
    BY <1>2
  <2>2. /\ IsFiniteSet(0 .. m - 1)
        /\ Cardinality(0 .. m - 1) = IF 0 > m - 1 THEN 0 ELSE (m - 1) - 0 + 1
    BY <2>1, FS_Interval
  <2>3. QED
    BY <1>2, <2>2
<1>9. Cardinality(Popped(h)) <= m
  BY <1>7, <1>8, FS_Injection
<1>10. QED
  BY <1>1, <1>2, <1>4, <1>9

\* What a submission makes of the heap, the pool and the counter.
LEMMA SubmitEffect ==
  ASSUME NEW h, h \subseteq Job, SubmitFrom(h), UNCHANGED <<running, leaving>>,
         submitted \subseteq Job, running \subseteq Job, leaving \subseteq Job,
         h \cap submitted = {}, h \cap running = {}, h \cap leaving = {},
         submitted \cap running = {}, submitted \cap leaving = {}, running \cap leaving = {}, InFlightExact
  PROVE  /\ Apart' /\ InFlightExact'
         /\ heap' \cup submitted' = h \cup submitted
<1>1. /\ Cardinality(submitted) \in Nat /\ Cardinality(running) \in Nat /\ Cardinality(leaving) \in Nat
      /\ IsFiniteSet(submitted) /\ NumWorkers \in Nat
  BY FiniteJobs, ExecutionGraphAssumption
<1>2. inFlight \in Nat /\ inFlight <= NumWorkers
  BY <1>1 DEF InFlightExact
<1>3. /\ Popped(h) \subseteq h /\ Cardinality(Popped(h)) \in Nat
      /\ inFlight + Cardinality(Popped(h)) <= NumWorkers
  BY <1>2, PoppedFits
<1>4. /\ heap' = h \ Popped(h) /\ submitted' = submitted \cup Popped(h)
      /\ inFlight' = inFlight + Cardinality(Popped(h))
  BY DEF SubmitFrom
<1>5. Cardinality(submitted') = Cardinality(submitted) + Cardinality(Popped(h))
  <2>1. submitted \cap Popped(h) = {} /\ IsFiniteSet(Popped(h))
    BY <1>3, FiniteJobs
  <2>2. Cardinality(submitted \cup Popped(h)) =
          Cardinality(submitted) + Cardinality(Popped(h)) - Cardinality(submitted \cap Popped(h))
    BY <1>1, <2>1, FS_Union
  <2>3. Cardinality(submitted \cap Popped(h)) = 0
    BY <2>1, FS_EmptySet
  <2>4. QED
    BY <1>1, <1>3, <1>4, <2>2, <2>3
<1>6. Apart'
  BY <1>3, <1>4 DEF Apart
<1>7. InFlightExact'
  BY <1>1, <1>2, <1>3, <1>4, <1>5 DEF InFlightExact
<1>8. QED
  BY <1>3, <1>4, <1>6, <1>7

LEMMA PoolInit == Init => PoolInv
<1> SUFFICES ASSUME Init PROVE PoolInv
  OBVIOUS
<1>1. /\ dependencies = <<>> /\ DOMAIN dependencies = {} /\ jobs = {} /\ finished = <<>>
      /\ 1 .. Len(finished) = {}
  BY DEF Init, jobs
<1>2. PoolType
  <2>1. dependencies \in [DOMAIN dependencies -> SUBSET DOMAIN dependencies] /\ finished \in Seq(Entry)
    BY <1>1
  <2>2. QED
    BY <1>1, <2>1 DEF Init, PoolType, Status
<1>3. Apart /\ Places /\ QueueInv /\ CancelInv /\ PhaseInv
  BY <1>1 DEF Init, Apart, Places, QueueInv, CancelInv, PhaseInv
<1>4. InFlightExact
  BY FS_EmptySet, ExecutionGraphAssumption DEF Init, InFlightExact
<1>5. QED
  BY <1>2, <1>3, <1>4 DEF PoolInv

(***************************************************************************)
(* The steps.                                                              *)
(***************************************************************************)

\* Steps of which the statuses and the queue know nothing.
LEMMA SameQueue ==
  ASSUME PoolInv, UNCHANGED <<dependencies, status, pending, finished, main>>,
         running' \subseteq running
  PROVE  QueueInv' /\ CancelInv' /\ PhaseInv'
<1>1. jobs' = jobs
  BY DEF jobs
<1>2. \A i \in 1 .. Len(finished) : EntryInv(finished[i]) => EntryInv(finished[i])'
  BY <1>1 DEF EntryInv
<1>3. QueueInv'
  BY <1>2 DEF PoolInv, QueueInv
<1>4. \A j \in jobs : Unfinished(j)' = Unfinished(j)
  BY DEF Unfinished
<1>5. CancelInv' /\ PhaseInv'
  BY <1>1, <1>4 DEF PoolInv, CancelInv, PhaseInv
<1>6. QED
  BY <1>3, <1>5

\* An entry keeps its meaning as long as its job and what canceled it keep their statuses.
LEMMA EntryKept ==
  ASSUME NEW i \in 1 .. Len(finished), NEW n \in 1 .. Len(finished'), finished'[n] = finished[i], EntryInv(finished[i]),
         dependencies' = dependencies, status'[finished[i].key] = status[finished[i].key],
         finished[i].key \notin running => finished[i].key \notin running',
         \A d \in dependencies[finished[i].key] : status[d] \in {FAILED, CANCELED} => status'[d] = status[d]
  PROVE  EntryInv(finished[n])'
  BY DEF EntryInv, jobs

LEMMA ExecuteStep == ASSUME PoolInv, NEW deps \in Graphs, Execute(deps) PROVE PoolInv'
<1> DEFINE roots == {k \in DOMAIN deps : deps[k] = {}}
<1>1. /\ main = "idle" /\ dependencies' = deps /\ main' = "loop"
      /\ status' = [k \in Job |-> IF k \in roots THEN QUEUED ELSE UNSTARTED]
      /\ pending' = [k \in Job |-> IF k \in DOMAIN deps THEN Cardinality(deps[k]) ELSE 0]
      /\ SubmitFrom(roots) /\ UNCHANGED <<running, leaving, finished>>
  BY DEF Execute
<1>2. /\ DOMAIN deps \subseteq Job /\ deps \in [DOMAIN deps -> SUBSET DOMAIN deps]
  BY ExecutionGraphAssumption
<1>3. /\ heap = {} /\ submitted = {} /\ running = {} /\ leaving = {} /\ finished = <<>>
      /\ jobs' = DOMAIN deps /\ InFlightExact
  BY <1>1 DEF PoolInv, PhaseInv, PoolType, jobs
<1>4. roots \subseteq Job /\ roots \subseteq DOMAIN deps
  BY <1>2
<1>5. Apart' /\ InFlightExact' /\ heap' \cup submitted' = roots
  <2>1. /\ submitted \subseteq Job /\ running \subseteq Job /\ leaving \subseteq Job
        /\ roots \cap submitted = {} /\ roots \cap running = {} /\ roots \cap leaving = {}
        /\ submitted \cap running = {} /\ submitted \cap leaving = {} /\ running \cap leaving = {}
        /\ roots \cup submitted = roots
    BY <1>3
  <2> HIDE DEF roots
  <2>2. QED
    BY <1>1, <1>3, <1>4, <2>1, SubmitEffect
<1>6. \A k \in DOMAIN deps : Cardinality(deps[k]) \in Nat
  BY <1>2, FiniteJobs
<1>7. PoolType'
  <2>1. pending' \in [Job -> Int] /\ status' \in [Job -> Status]
    BY <1>1, <1>6, Distinct
  <2>2. heap' \subseteq DOMAIN deps /\ submitted' \subseteq DOMAIN deps
    BY <1>4, <1>5
  <2>3. QED
    BY <1>1, <1>2, <1>3, <2>1, <2>2 DEF PoolInv, PoolType
<1>8. Places'
  BY <1>1, <1>3, <1>4, <1>5 DEF Places
<1>9. \A k \in Job : status'[k] \in {QUEUED, UNSTARTED}
  BY <1>1
<1>10. QueueInv' /\ CancelInv'
  <2>1. 1 .. Len(finished') = {}
    BY <1>1, <1>3
  <2>2. \A k \in jobs' : status'[k] # CANCELED
    BY <1>2, <1>3, <1>9, Distinct
  <2>3. QED
    BY <2>1, <2>2 DEF QueueInv, CancelInv
<1>11. PhaseInv'
  <2>1. ASSUME NEW j \in DOMAIN deps PROVE pending'[j] = Cardinality(Unfinished(j)')
    <3>1. Unfinished(j)' = deps[j]
      BY <1>1, <1>2, <1>9, <2>1, Distinct DEF Unfinished
    <3>2. QED
      BY <1>1, <1>2, <2>1, <3>1
  <2>2. QED
    BY <1>1, <1>3, <2>1 DEF PhaseInv
<1>12. QED
  BY <1>5, <1>7, <1>8, <1>10, <1>11 DEF PoolInv

LEMMA StartsStep == ASSUME PoolInv, NEW k \in Job, WorkerStarts(k) PROVE PoolInv'
<1>1. /\ k \in submitted /\ submitted' = submitted \ {k} /\ running' = running \cup {k}
      /\ status' = [status EXCEPT ![k] = RUNNING]
      /\ UNCHANGED <<dependencies, pending, heap, inFlight, leaving, finished, main>>
  BY DEF WorkerStarts
<1>2. /\ status[k] = QUEUED /\ status \in [Job -> Status] /\ k \notin running /\ k \in jobs /\ jobs' = jobs
      /\ submitted \subseteq Job /\ running \subseteq Job
      /\ \A d \in dependencies[k] : status[d] = SUCCESSFUL
  BY <1>1 DEF PoolInv, PoolType, Places, Apart, jobs
<1>3. status' \in [Job -> Status] /\ status'[k] = RUNNING /\ \A j \in Job \ {k} : status'[j] = status[j]
  BY <1>1, <1>2, Distinct
<1>4. PoolType'
  BY <1>1, <1>2, <1>3 DEF PoolInv, PoolType
<1>5. Apart'
  BY <1>1 DEF PoolInv, Apart
<1>6. jobs \subseteq Job /\ \A j \in jobs : dependencies[j] \subseteq jobs
  BY DEF PoolInv, PoolType, jobs
<1>7. Places'
  <2>1. ASSUME NEW j \in heap' \cup submitted'
        PROVE  status'[j] = QUEUED /\ \A d \in dependencies'[j] : status'[d] = SUCCESSFUL
    <3>1. j \in heap \cup submitted /\ j # k /\ j \in jobs
      BY <1>1, <2>1 DEF PoolInv, Apart, PoolType
    <3>2. status[j] = QUEUED /\ \A d \in dependencies[j] : status[d] = SUCCESSFUL
      BY <3>1 DEF PoolInv, Places
    <3>3. QED
      BY <1>1, <1>2, <1>3, <1>6, <3>1, <3>2, Distinct
  <2>2. \A j \in running' : status'[j] = RUNNING
    BY <1>1, <1>2, <1>3 DEF PoolInv, Places
  <2>3. \A j \in leaving' : status'[j] \in {RUNNING, SUCCESSFUL, FAILED}
    BY <1>1, <1>3 DEF PoolInv, PoolType, Places, jobs
  <2>4. QED
    BY <2>1, <2>2, <2>3 DEF Places
<1>8. QueueInv'
  <2>1. ASSUME NEW i \in 1 .. Len(finished) PROVE EntryInv(finished[i])'
    <3>1. EntryInv(finished[i])
      BY DEF PoolInv, QueueInv
    <3>2. finished[i].key \in jobs /\ finished[i].key # k
      <4>1. finished[i].key = k => finished[i].result = CANCELED
        BY <1>2, <3>1, Distinct DEF EntryInv
      <4>2. finished[i].result = CANCELED => \E d \in dependencies[finished[i].key] : status[d] # SUCCESSFUL
        BY <3>1, Distinct DEF EntryInv
      <4>3. QED
        BY <1>2, <3>1, <4>1, <4>2 DEF EntryInv
    <3>3. \A d \in dependencies[finished[i].key] : status[d] \in {FAILED, CANCELED} => status'[d] = status[d]
      BY <1>2, <1>3, <1>6, <3>2, Distinct
    <3>4. status'[finished[i].key] = status[finished[i].key]
      BY <1>3, <1>6, <3>2
    <3>5. QED
      BY <1>1, <1>2, <3>1, <3>2, <3>3, <3>4, EntryKept
  <2>2. QED
    BY <1>1, <2>1 DEF PoolInv, QueueInv
<1>9. CancelInv'
  BY <1>1, <1>2, <1>3, <1>6, Distinct DEF PoolInv, CancelInv
<1>10. PhaseInv'
  <2>1. \A j \in jobs : Unfinished(j)' = Unfinished(j)
    BY <1>1, <1>2, <1>3, <1>6, Distinct DEF Unfinished
  <2>2. main # "returned" /\ main # "idle"
    BY <1>2, Distinct DEF PoolInv, PhaseInv
  <2>3. QED
    BY <1>1, <1>2, <2>1, <2>2 DEF PoolInv, PhaseInv
<1>11. InFlightExact'
  <2>1. IsFiniteSet(submitted) /\ IsFiniteSet(running)
    BY <1>2, FiniteJobs
  <2>2. Cardinality(submitted') = Cardinality(submitted) - 1 /\ Cardinality(running') = Cardinality(running) + 1
    BY <1>1, <1>2, <2>1, FS_AddElement, FS_RemoveElement
  <2>3. Cardinality(submitted) \in Nat /\ Cardinality(running) \in Nat /\ Cardinality(leaving) \in Nat
    BY FiniteJobs DEF PoolInv, PoolType, jobs
  <2>4. QED
    BY <1>1, <2>2, <2>3 DEF PoolInv, InFlightExact
<1>12. QED
  BY <1>4, <1>5, <1>7, <1>8, <1>9, <1>10, <1>11 DEF PoolInv

LEMMA PutsStep ==
  ASSUME PoolInv, NEW k \in Job, NEW result \in {SUCCESSFUL, FAILED}, WorkerPuts(k, result)
  PROVE  PoolInv'
<1> DEFINE e == [key |-> k, result |-> result]
<1>1. /\ k \in running /\ finished' = Append(finished, e)
      /\ running' = running \ {k} /\ leaving' = leaving \cup {k}
      /\ UNCHANGED <<dependencies, status, pending, heap, inFlight, submitted, main>>
  BY DEF WorkerPuts
<1>2. /\ status[k] = RUNNING /\ k \notin leaving /\ k \in jobs /\ jobs' = jobs
      /\ running \subseteq Job /\ leaving \subseteq Job
  BY <1>1 DEF PoolInv, PoolType, Places, Apart, jobs
<1>3. /\ e \in Entry /\ finished \in Seq(Entry) /\ finished' \in Seq(Entry) /\ Len(finished) \in Nat
      /\ Len(finished') = Len(finished) + 1 /\ finished'[Len(finished) + 1] = e
      /\ \A i \in 1 .. Len(finished) : finished'[i] = finished[i]
  <2>1. e \in Entry /\ finished \in Seq(Entry)
    BY Distinct DEF PoolInv, PoolType, Entry
  <2> HIDE DEF e
  <2>2. QED
    BY <1>1, <2>1
<1>4. PoolType'
  BY <1>1, <1>2, <1>3 DEF PoolInv, PoolType
<1>5. Apart'
  BY <1>1 DEF PoolInv, Apart
<1>6. Places'
  BY <1>1, <1>2 DEF PoolInv, Places
<1>7. \A i \in 1 .. Len(finished) : EntryInv(finished[i]) /\ finished[i].key # k
  <2> TAKE i \in 1 .. Len(finished)
  <2>1. EntryInv(finished[i])
    BY DEF PoolInv, QueueInv
  <2>2. QED
    BY <1>1, <1>2, <2>1, Distinct DEF EntryInv
<1>8. \A i \in 1 .. Len(finished) : EntryInv(finished[i])'
  BY <1>1, <1>2, <1>3, <1>7 DEF EntryInv
<1>9. e.key = k /\ e.result # CANCELED
  BY Distinct
<1>10. EntryInv(e)'
  BY <1>1, <1>2, <1>9 DEF EntryInv
<1> HIDE DEF e
<1>11. QueueInv'
  <2>1. ASSUME NEW i \in 1 .. Len(finished') PROVE EntryInv(finished[i])'
    <3>1. CASE i \in 1 .. Len(finished)
      BY <1>8, <3>1
    <3>2. CASE i = Len(finished) + 1
      BY <1>3, <1>10, <3>2 DEF EntryInv
    <3>3. QED
      BY <1>3, <3>1, <3>2
  <2>2. ASSUME NEW i \in 1 .. Len(finished'), NEW j \in 1 .. Len(finished'), i # j
        PROVE  finished'[i].key # finished'[j].key
    <3>1. CASE i \in 1 .. Len(finished) /\ j \in 1 .. Len(finished)
      BY <1>3, <2>2, <3>1 DEF PoolInv, QueueInv
    <3>2. CASE i = Len(finished) + 1 \/ j = Len(finished) + 1
      BY <1>3, <1>7, <1>9, <2>2, <3>2
    <3>3. QED
      BY <1>3, <3>1, <3>2
  <2>3. QED
    BY <2>1, <2>2 DEF QueueInv
<1>12. CancelInv'
  <2>1. ASSUME NEW i \in 1 .. Len(finished'), finished'[i].result = CANCELED
        PROVE  finished[i].result = CANCELED /\ i \in 1 .. Len(finished)
    BY <1>3, <1>9, <2>1
  <2>2. QED
    BY <1>1, <1>2, <2>1 DEF PoolInv, CancelInv
<1>13. PhaseInv'
  <2>1. \A j \in jobs : Unfinished(j)' = Unfinished(j)
    BY <1>1 DEF Unfinished
  <2>2. main # "idle"
    BY <1>2, Distinct DEF PoolInv, PhaseInv
  <2>3. QED
    BY <1>1, <1>2, <2>1, <2>2 DEF PoolInv, PhaseInv
<1>14. InFlightExact'
  <2>1. IsFiniteSet(leaving) /\ IsFiniteSet(running)
    BY <1>2, FiniteJobs
  <2>2. Cardinality(running') = Cardinality(running) - 1 /\ Cardinality(leaving') = Cardinality(leaving) + 1
    BY <1>1, <1>2, <2>1, FS_AddElement, FS_RemoveElement
  <2>3. Cardinality(submitted) \in Nat /\ Cardinality(running) \in Nat /\ Cardinality(leaving) \in Nat
    BY FiniteJobs DEF PoolInv, PoolType, jobs
  <2>4. QED
    BY <1>1, <2>2, <2>3 DEF PoolInv, InFlightExact
<1>15. QED
  BY <1>4, <1>5, <1>6, <1>11, <1>12, <1>13, <1>14 DEF PoolInv

LEMMA DecrementsStep == ASSUME PoolInv, NEW k \in Job, WorkerDecrements(k) PROVE PoolInv'
<1>1. /\ k \in leaving /\ leaving' = leaving \ {k} /\ inFlight' = inFlight - 1
      /\ UNCHANGED <<dependencies, status, pending, heap, submitted, running, finished, main>>
  BY DEF WorkerDecrements
<1>2. PoolType' /\ Apart' /\ Places'
  BY <1>1 DEF PoolInv, PoolType, Apart, Places, jobs
<1>3. QueueInv' /\ CancelInv' /\ PhaseInv'
  BY <1>1, SameQueue
<1>4. InFlightExact'
  <2>1. IsFiniteSet(leaving)
    BY FiniteJobs DEF PoolInv, PoolType, jobs
  <2>2. Cardinality(leaving') = Cardinality(leaving) - 1
    BY <1>1, <2>1, FS_RemoveElement
  <2>3. Cardinality(submitted) \in Nat /\ Cardinality(running) \in Nat /\ Cardinality(leaving) \in Nat /\ NumWorkers \in Nat
    BY FiniteJobs, ExecutionGraphAssumption DEF PoolInv, PoolType, jobs
  <2>4. QED
    BY <1>1, <2>2, <2>3 DEF PoolInv, InFlightExact
<1>5. QED
  BY <1>2, <1>3, <1>4 DEF PoolInv

(***************************************************************************)
(* The main thread takes the first entry of the queue.                     *)
(***************************************************************************)
LEMMA Taking ==
  ASSUME PoolInv, finished # <<>>, NEW k, k = Head(finished).key
  PROVE  /\ Head(finished) \in Entry /\ EntryInv(Head(finished))
         /\ k \in jobs /\ k \notin heap \cup submitted \cup running /\ status[k] \in {RUNNING, QUEUED}
         /\ k \in leaving => Head(finished).result \in {SUCCESSFUL, FAILED}
         /\ Tail(finished) \in Seq(Entry) /\ Len(Tail(finished)) \in Nat /\ Len(finished) = Len(Tail(finished)) + 1
         /\ \A i \in 1 .. Len(Tail(finished)) : /\ Tail(finished)[i] = finished[i + 1] /\ i + 1 \in 1 .. Len(finished)
                                                /\ finished[i + 1].key # k
<1>1. finished \in Seq(Entry)
  BY DEF PoolInv, PoolType
<1>2. /\ Head(finished) = finished[1] /\ Head(finished) \in Entry /\ 1 \in 1 .. Len(finished)
      /\ Tail(finished) \in Seq(Entry) /\ Len(Tail(finished)) \in Nat /\ Len(finished) = Len(Tail(finished)) + 1
      /\ \A i \in 1 .. Len(Tail(finished)) : Tail(finished)[i] = finished[i + 1] /\ i + 1 \in 1 .. Len(finished) /\ i + 1 # 1
  BY <1>1
<1>3. EntryInv(Head(finished))
  BY <1>2 DEF PoolInv, QueueInv
<1>4. \A i \in 1 .. Len(Tail(finished)) : finished[i + 1].key # k
  BY <1>2 DEF PoolInv, QueueInv
<1>5. /\ k \in jobs /\ Head(finished).result \in DONE_STATES
      /\ Head(finished).result # CANCELED => status[k] = RUNNING /\ k \notin running
      /\ Head(finished).result = CANCELED => status[k] = QUEUED /\ \E d \in dependencies[k] : status[d] \in {FAILED, CANCELED}
  BY <1>2, <1>3 DEF EntryInv, Entry
<1>6. k \notin heap \cup submitted \cup running /\ status[k] \in {RUNNING, QUEUED}
  BY <1>5, Distinct DEF PoolInv, Places
<1>7. k \in leaving => Head(finished).result \in {SUCCESSFUL, FAILED}
  BY <1>5, Distinct DEF PoolInv, Places
<1>8. QED
  BY <1>2, <1>3, <1>4, <1>5, <1>6, <1>7

\* The statuses after an entry was taken: its job has the result, some that had not started
\* are queued.
TakenStatus(k, queued) == [j \in Job |-> CASE j = k -> Head(finished).result
                                           [] j \in queued -> QUEUED
                                           [] OTHER -> status[j]]

LEMMA TakingStatus ==
  ASSUME PoolInv, finished # <<>>, NEW k, k = Head(finished).key,
         NEW queued, queued \subseteq jobs, \A j \in queued : status[j] = UNSTARTED,
         dependencies' = dependencies, UNCHANGED <<running, leaving>>,
         status' = TakenStatus(k, queued)
  PROVE  /\ status' \in [Job -> Status] /\ status'[k] = Head(finished).result /\ k \notin queued
         /\ \A j \in queued : status'[j] = QUEUED
         /\ \A j \in Job : (j # k /\ j \notin queued) => status'[j] = status[j]
         /\ \A j \in Job : status[j] \in DONE_STATES => status'[j] = status[j]
         /\ \A j \in heap \cup submitted : status'[j] = QUEUED /\ \A d \in dependencies[j] : status'[d] = SUCCESSFUL
         /\ \A j \in running' : status'[j] = RUNNING
         /\ \A j \in leaving' : status'[j] \in {RUNNING, SUCCESSFUL, FAILED}
<1>1. /\ Head(finished) \in Entry /\ k \in jobs /\ k \notin heap \cup submitted \cup running
      /\ status[k] \in {RUNNING, QUEUED}
      /\ k \in leaving => Head(finished).result \in {SUCCESSFUL, FAILED}
  BY Taking
<1>2. /\ jobs \subseteq Job /\ \A j \in jobs : dependencies[j] \subseteq jobs
      /\ status \in [Job -> Status] /\ Head(finished).result \in DONE_STATES
      /\ heap \subseteq jobs /\ submitted \subseteq jobs /\ running \subseteq jobs /\ leaving \subseteq jobs
  BY <1>1 DEF PoolInv, PoolType, jobs, Entry
<1>3. k \notin queued
  BY <1>1, Distinct
<1>4. /\ status'[k] = Head(finished).result
      /\ \A j \in queued : status'[j] = QUEUED
      /\ \A j \in Job : (j # k /\ j \notin queued) => status'[j] = status[j]
  BY <1>1, <1>2, <1>3 DEF TakenStatus
<1>5. status' \in [Job -> Status]
  BY <1>2, Distinct DEF TakenStatus
<1>6. \A j \in Job : status[j] \in DONE_STATES => status'[j] = status[j]
  BY <1>1, <1>4, Distinct
<1>7. ASSUME NEW j \in heap \cup submitted
      PROVE  status'[j] = QUEUED /\ \A d \in dependencies[j] : status'[d] = SUCCESSFUL
  <2>1. j \in jobs /\ j # k /\ status[j] = QUEUED /\ \A d \in dependencies[j] : d \in Job /\ status[d] = SUCCESSFUL
    BY <1>1, <1>2 DEF PoolInv, Places
  <2>2. QED
    BY <1>2, <1>4, <1>6, <2>1, Distinct
<1>8. \A j \in running : status'[j] = RUNNING
  BY <1>1, <1>2, <1>4, Distinct DEF PoolInv, Places
<1>9. ASSUME NEW j \in leaving PROVE status'[j] \in {RUNNING, SUCCESSFUL, FAILED}
  <2>1. j \in Job /\ status[j] \in {RUNNING, SUCCESSFUL, FAILED}
    BY <1>2 DEF PoolInv, Places
  <2>2. j \notin queued
    BY <2>1, Distinct
  <2>3. QED
    BY <1>1, <1>4, <2>1, <2>2
<1>10. QED
  BY <1>3, <1>4, <1>5, <1>6, <1>7, <1>8, <1>9

\* The entries behind it keep their meaning.
LEMMA TakingEntries ==
  ASSUME PoolInv, finished # <<>>, NEW k, k = Head(finished).key,
         NEW queued, queued \subseteq jobs, \A j \in queued : status[j] = UNSTARTED,
         dependencies' = dependencies, UNCHANGED <<running, leaving>>,
         status' = TakenStatus(k, queued),
         NEW i \in 1 .. Len(Tail(finished)), NEW n \in 1 .. Len(finished'), finished'[n] = finished[i + 1]
  PROVE  EntryInv(finished[n])'
<1>1. i + 1 \in 1 .. Len(finished) /\ finished[i + 1].key # k
  BY Taking
<1>2. EntryInv(finished[i + 1])
  BY <1>1 DEF PoolInv, QueueInv
<1>3. finished[i + 1].key \in jobs /\ finished[i + 1].key \notin queued
  BY <1>2, Distinct DEF EntryInv
<1>4. jobs \subseteq Job /\ \A j \in jobs : dependencies[j] \subseteq jobs
  BY DEF PoolInv, PoolType, jobs
<1>5. /\ \A j \in Job : (j # k /\ j \notin queued) => status'[j] = status[j]
      /\ \A j \in Job : status[j] \in DONE_STATES => status'[j] = status[j]
  BY TakingStatus
<1>6. status'[finished[i + 1].key] = status[finished[i + 1].key]
  BY <1>1, <1>3, <1>4, <1>5
<1>7. \A d \in dependencies[finished[i + 1].key] : status[d] \in {FAILED, CANCELED} => status'[d] = status[d]
  BY <1>3, <1>4, <1>5, Distinct
<1>8. QED
  BY <1>1, <1>2, <1>6, <1>7, EntryKept

\* A failure is known when a job that did not succeed is taken.
LEMMA TakingFailure ==
  ASSUME PoolInv, finished # <<>>, NEW k, k = Head(finished).key,
         dependencies' = dependencies, status'[k] = Head(finished).result,
         \A j \in Job : status[j] \in DONE_STATES => status'[j] = status[j],
         Head(finished).result # SUCCESSFUL
  PROVE  \E j \in jobs : status'[j] = FAILED
<1>1. k \in jobs /\ Head(finished).result \in {FAILED, CANCELED}
  BY Taking, Distinct DEF Entry
<1>2. CASE Head(finished).result = FAILED
  BY <1>1, <1>2
<1>3. CASE Head(finished).result = CANCELED
  <2>1. finished \in Seq(Entry) /\ jobs \subseteq Job
    BY DEF PoolInv, PoolType, jobs
  <2>2. 1 \in 1 .. Len(finished) /\ finished[1].result = CANCELED
    BY <1>3, <2>1
  <2>3. \E j \in jobs : status[j] = FAILED
    BY <2>2 DEF PoolInv, CancelInv
  <2>4. QED
    BY <2>1, <2>3, Distinct
<1>4. QED
  BY <1>1, <1>2, <1>3

\* The sequence of a finite set has its elements, each once.
LEMMA SetToSeqIs ==
  ASSUME NEW T, NEW S, S \subseteq T, IsFiniteSet(S)
  PROVE  /\ SetToSeq(S) \in Seq(T) /\ Len(SetToSeq(S)) \in Nat
         /\ \A i \in 1 .. Len(SetToSeq(S)) : SetToSeq(S)[i] \in S
         /\ \A i, j \in 1 .. Len(SetToSeq(S)) : i # j => SetToSeq(S)[i] # SetToSeq(S)[j]
<1> DEFINE n == Cardinality(S)
<1>1. n \in Nat /\ ExistsBijection(1 .. n, S)
  BY FS_CardinalityType
<1>2. PICK g : g \in Injection(1 .. n, S)
  BY <1>1 DEF ExistsBijection, Bijection
<1>3. g \in [1 .. n -> S] /\ IsInjective(g)
  BY <1>2 DEF Injection
<1>4. SetToSeq(S) \in [1 .. n -> S] /\ IsInjective(SetToSeq(S))
  BY <1>3 DEF SetToSeq
<1>5. \A i, j \in 1 .. n : SetToSeq(S)[i] = SetToSeq(S)[j] => i = j
  BY <1>4 DEF IsInjective
<1> HIDE DEF n
<1>6. SetToSeq(S) \in [1 .. n -> T]
  BY <1>4
<1>7. SetToSeq(S) \in Seq(T) /\ Len(SetToSeq(S)) = n
  BY <1>1, <1>6
<1>8. QED
  BY <1>1, <1>4, <1>5, <1>7

LEMMA TimesOutStep == ASSUME PoolInv, MainTimesOut PROVE PoolInv'
<1>1. SubmitFrom(heap) /\ UNCHANGED <<dependencies, status, pending, running, leaving, finished, main>>
  BY DEF MainTimesOut
<1>2. /\ heap \subseteq Job /\ submitted \subseteq Job /\ running \subseteq Job /\ leaving \subseteq Job
      /\ heap \cap submitted = {} /\ heap \cap running = {} /\ heap \cap leaving = {}
      /\ submitted \cap running = {} /\ submitted \cap leaving = {} /\ running \cap leaving = {} /\ InFlightExact
  BY DEF PoolInv, PoolType, Apart, jobs
<1>3. Apart' /\ InFlightExact' /\ heap' \cup submitted' = heap \cup submitted
  BY <1>1, <1>2, SubmitEffect
<1>4. QueueInv' /\ CancelInv' /\ PhaseInv'
  BY <1>1, SameQueue
<1>5. heap' \subseteq jobs /\ submitted' \subseteq jobs
  BY <1>3 DEF PoolInv, PoolType
<1>6. PoolType'
  BY <1>1, <1>5 DEF PoolInv, PoolType, jobs
<1>7. Places'
  BY <1>1, <1>3 DEF PoolInv, Places
<1>8. QED
  BY <1>3, <1>4, <1>6, <1>7 DEF PoolInv

LEMMA ReturnsStep == ASSUME PoolInv, MainReturns PROVE PoolInv'
<1>1. /\ main' \in {"raised", "returned"} /\ AllDone
      /\ UNCHANGED <<dependencies, status, pending, heap, inFlight, submitted, running, leaving, finished>>
  BY DEF MainReturns
<1>2. PoolType' /\ Apart' /\ Places' /\ InFlightExact'
  BY <1>1 DEF PoolInv, PoolType, Apart, Places, InFlightExact, jobs
<1>3. \A i \in 1 .. Len(finished) : EntryInv(finished[i]) => EntryInv(finished[i])'
  BY <1>1 DEF EntryInv, jobs
<1>4. QueueInv' /\ CancelInv'
  BY <1>1, <1>3 DEF PoolInv, QueueInv, CancelInv, jobs
<1>5. PhaseInv'
  BY <1>1 DEF PhaseInv, AllDone, jobs
<1>6. QED
  BY <1>2, <1>4, <1>5 DEF PoolInv

\* The queue without the entry that was taken.
LEMMA TailStep ==
  ASSUME PoolInv, finished # <<>>, NEW k, k = Head(finished).key,
         NEW queued, queued \subseteq jobs, \A j \in queued : status[j] = UNSTARTED,
         dependencies' = dependencies, UNCHANGED <<running, leaving>>,
         status' = TakenStatus(k, queued), finished' = Tail(finished)
  PROVE  QueueInv' /\ CancelInv' /\ finished' \in Seq(Entry)
<1>1. /\ finished' \in Seq(Entry) /\ k \in jobs
      /\ \A i \in 1 .. Len(finished') : finished'[i] = finished[i + 1] /\ i + 1 \in 1 .. Len(finished)
  BY Taking
<1>2. \A i \in 1 .. Len(finished') : EntryInv(finished[i])'
  BY <1>1, TakingEntries
<1>3. ASSUME NEW i \in 1 .. Len(finished'), NEW j \in 1 .. Len(finished'), i # j
      PROVE  finished'[i].key # finished'[j].key
  <2>1. i + 1 \in 1 .. Len(finished) /\ j + 1 \in 1 .. Len(finished) /\ i + 1 # j + 1
    BY <1>1, <1>3
  <2>2. QED
    BY <1>1, <2>1 DEF PoolInv, QueueInv
<1>4. QueueInv'
  BY <1>2, <1>3 DEF QueueInv
<1>5. /\ status'[k] = Head(finished).result /\ jobs' = jobs /\ jobs \subseteq Job
      /\ \A j \in queued : status'[j] = QUEUED
      /\ \A j \in Job : (j # k /\ j \notin queued) => status'[j] = status[j]
      /\ \A j \in Job : status[j] \in DONE_STATES => status'[j] = status[j]
  BY TakingStatus DEF jobs, PoolInv, PoolType
<1>6. CancelInv'
  <2>1. CASE Head(finished).result = SUCCESSFUL
    <3>1. ASSUME NEW j \in jobs, status'[j] = CANCELED PROVE status[j] = CANCELED
      BY <1>5, <2>1, <3>1, Distinct
    <3>2. ASSUME NEW i \in 1 .. Len(finished'), finished'[i].result = CANCELED
          PROVE  \E j \in 1 .. Len(finished) : finished[j].result = CANCELED
      BY <1>1, <3>2
    <3>3. (\E j \in jobs : status[j] = FAILED) => \E j \in jobs : status'[j] = FAILED
      BY <1>5, Distinct
    <3>4. QED
      BY <1>5, <3>1, <3>2, <3>3 DEF PoolInv, CancelInv
  <2>2. CASE Head(finished).result # SUCCESSFUL
    BY <1>5, <2>2, TakingFailure DEF CancelInv
  <2>3. QED
    BY <2>1, <2>2
<1>7. QED
  BY <1>1, <1>4, <1>6

LEMMA RaisesStep == ASSUME PoolInv, NEW k \in Job, MainCallbackRaises(k) PROVE PoolInv'
<1>1. /\ finished # <<>> /\ k = Head(finished).key
      /\ finished' = Tail(finished) /\ main' = "raised"
      /\ status' = [status EXCEPT ![k] = Head(finished).result]
      /\ UNCHANGED <<dependencies, pending, heap, inFlight, submitted, running, leaving>>
  BY DEF MainCallbackRaises, Got
<1>2. status' = TakenStatus(k, {})
  <2>1. status \in [Job -> Status]
    BY DEF PoolInv, PoolType
  <2>2. QED
    BY <1>1, <2>1 DEF TakenStatus
<1>3. QueueInv' /\ CancelInv' /\ finished' \in Seq(Entry)
  BY <1>1, <1>2, TailStep
<1>4. /\ status' \in [Job -> Status]
      /\ \A j \in heap \cup submitted : status'[j] = QUEUED /\ \A d \in dependencies[j] : status'[d] = SUCCESSFUL
      /\ \A j \in running' : status'[j] = RUNNING
      /\ \A j \in leaving' : status'[j] \in {RUNNING, SUCCESSFUL, FAILED}
  BY <1>1, <1>2, TakingStatus
<1>5. PoolType' /\ Places'
  BY <1>1, <1>3, <1>4 DEF PoolInv, PoolType, Places, jobs
<1>6. Apart' /\ PhaseInv' /\ InFlightExact'
  BY <1>1 DEF PoolInv, Apart, PhaseInv, InFlightExact
<1>7. QED
  BY <1>3, <1>5, <1>6 DEF PoolInv

LEMMA SucceedsStep == ASSUME PoolInv, NEW k \in Job, MainSucceeds(k) PROVE PoolInv'
<1> DEFINE left == [j \in Job |-> IF j \in Dependees(k) THEN pending[j] - 1 ELSE pending[j]]
           ready == Ready(k, left)
<1>1. /\ finished # <<>> /\ main = "loop" /\ Head(finished) = [key |-> k, result |-> SUCCESSFUL]
      /\ finished' = Tail(finished) /\ pending' = left
      /\ status' = [j \in Job |-> CASE j = k -> SUCCESSFUL
                                    [] j \in ready -> QUEUED
                                    [] OTHER -> status[j]]
      /\ SubmitFrom(heap \cup ready)
      /\ UNCHANGED <<dependencies, running, leaving, main>>
  BY DEF MainSucceeds, Got
<1>2. k = Head(finished).key /\ Head(finished).result = SUCCESSFUL /\ status' = TakenStatus(k, ready)
  BY <1>1 DEF TakenStatus
<1>3. /\ ready \subseteq jobs /\ \A j \in ready : status[j] = UNSTARTED /\ k \in dependencies[j] /\ left[j] = 0
  BY DEF Ready, Dependees
<1>4. /\ jobs \subseteq Job /\ jobs' = jobs /\ \A j \in jobs : dependencies[j] \subseteq jobs
      /\ pending \in [Job -> Int]
  BY <1>1 DEF PoolInv, PoolType, jobs
<1>5. QueueInv' /\ CancelInv' /\ finished' \in Seq(Entry)
  BY <1>1, <1>2, <1>3, TailStep
<1>6. /\ status' \in [Job -> Status] /\ status'[k] = SUCCESSFUL /\ k \notin ready
      /\ \A j \in ready : status'[j] = QUEUED
      /\ \A j \in Job : (j # k /\ j \notin ready) => status'[j] = status[j]
      /\ \A j \in heap \cup submitted : status'[j] = QUEUED /\ \A d \in dependencies[j] : status'[d] = SUCCESSFUL
      /\ \A j \in running' : status'[j] = RUNNING
      /\ \A j \in leaving' : status'[j] \in {RUNNING, SUCCESSFUL, FAILED}
  <2>1. /\ UNCHANGED <<running, leaving>> /\ dependencies' = dependencies /\ finished # <<>>
        /\ ready \subseteq jobs /\ \A j \in ready : status[j] = UNSTARTED
    BY <1>1, <1>3
  <2> HIDE DEF ready
  <2>2. QED
    BY <1>2, <2>1, TakingStatus
<1>7. status[k] # SUCCESSFUL
  BY <1>1, <1>2, Taking, Distinct
<1>8. ASSUME NEW j \in jobs
      PROVE  left[j] = Cardinality(Unfinished(j)')
  <2>1. pending[j] = Cardinality(Unfinished(j))
    BY <1>1, <1>8 DEF PoolInv, PhaseInv
  <2>2. Unfinished(j)' = Unfinished(j) \ {k}
    BY <1>1, <1>3, <1>4, <1>6, <1>7, Distinct DEF Unfinished
  <2>3. IsFiniteSet(Unfinished(j)) /\ Cardinality(Unfinished(j)) \in Nat
    BY <1>4, FiniteJobs DEF Unfinished
  <2>4. j \in Dependees(k) <=> k \in Unfinished(j)
    BY <1>4, <1>7 DEF Dependees, Unfinished
  <2>5. CASE k \in Unfinished(j)
    <3>1. Cardinality(Unfinished(j) \ {k}) = Cardinality(Unfinished(j)) - 1
      BY <2>3, <2>5, FS_RemoveElement
    <3>2. QED
      BY <1>4, <2>1, <2>2, <2>4, <2>5, <3>1
  <2>6. CASE k \notin Unfinished(j)
    <3>1. Unfinished(j) \ {k} = Unfinished(j)
      BY <2>6
    <3>2. QED
      BY <1>4, <2>1, <2>2, <2>4, <2>6, <3>1
  <2>7. QED
    BY <2>5, <2>6
<1>9. ASSUME NEW j \in ready PROVE \A d \in dependencies[j] : status'[d] = SUCCESSFUL
  <2>1. j \in jobs /\ Cardinality(Unfinished(j)') = 0
    BY <1>3, <1>8
  <2>2. Unfinished(j)' \subseteq Job
    BY <1>1, <1>4, <2>1 DEF Unfinished
  <2>3. Unfinished(j)' = {}
    BY <2>1, <2>2, FiniteJobs, FS_EmptySet
  <2>4. QED
    BY <1>1, <2>3 DEF Unfinished
<1>10. Apart' /\ InFlightExact' /\ heap' \cup submitted' = (heap \cup ready) \cup submitted
  <2>1. ready \cap submitted = {} /\ ready \cap running = {} /\ ready \cap leaving = {}
    BY <1>3, Distinct DEF PoolInv, Places
  <2>2. /\ heap \cup ready \subseteq Job /\ submitted \subseteq Job /\ running \subseteq Job /\ leaving \subseteq Job
        /\ (heap \cup ready) \cap submitted = {} /\ (heap \cup ready) \cap running = {}
        /\ (heap \cup ready) \cap leaving = {} /\ InFlightExact
        /\ submitted \cap running = {} /\ submitted \cap leaving = {} /\ running \cap leaving = {}
    BY <1>3, <1>4, <2>1 DEF PoolInv, PoolType, Apart
  <2> HIDE DEF ready
  <2>3. QED
    BY <1>1, <2>2, SubmitEffect
<1>11. PoolType'
  <2>1. pending' \in [Job -> Int]
    BY <1>1, <1>4
  <2>2. heap' \subseteq jobs /\ submitted' \subseteq jobs
    BY <1>3, <1>10 DEF PoolInv, PoolType
  <2>3. QED
    BY <1>1, <1>4, <1>5, <1>6, <2>1, <2>2 DEF PoolInv, PoolType
<1>12. Places'
  BY <1>1, <1>6, <1>9, <1>10 DEF Places
<1>13. PhaseInv'
  BY <1>1, <1>4, <1>8 DEF PhaseInv
<1>14. QED
  BY <1>5, <1>10, <1>11, <1>12, <1>13 DEF PoolInv

LEMMA FailsStep == ASSUME PoolInv, NEW k \in Job, MainFails(k) PROVE PoolInv'
<1> DEFINE canceled == {j \in Dependees(k) : status[j] = UNSTARTED}
           put(j) == [key |-> j, result |-> CANCELED]
           puts == {put(j) : j \in canceled}
           rest == Tail(finished)
           more == SetToSeq(puts)
<1>1. /\ finished # <<>> /\ main = "loop" /\ k = Head(finished).key /\ Head(finished).result # SUCCESSFUL
      /\ finished' = rest \o more
      /\ status' = TakenStatus(k, canceled)
      /\ UNCHANGED <<dependencies, pending, heap, inFlight, submitted, running, leaving, main>>
  BY DEF MainFails, Got, TakenStatus
<1>2. canceled \subseteq jobs /\ \A j \in canceled : status[j] = UNSTARTED /\ k \in dependencies[j]
  BY DEF Dependees
<1>3. /\ jobs \subseteq Job /\ jobs' = jobs /\ \A j \in jobs : dependencies[j] \subseteq jobs
  BY <1>1 DEF PoolInv, PoolType, jobs
<1>4. puts \subseteq Entry /\ IsFiniteSet(puts)
  <2>1. puts \subseteq Entry
    BY <1>2, <1>3, Distinct DEF Entry
  <2>2. IsFiniteSet(canceled)
    BY <1>2, <1>3, FiniteJobs
  <2>3. [j \in canceled |-> put(j)] \in Surjection(canceled, puts)
    BY DEF Surjection
  <2>4. QED
    BY <2>1, <2>2, <2>3, FS_Surjection
<1>5. /\ more \in Seq(Entry) /\ Len(more) \in Nat
      /\ \A i \in 1 .. Len(more) : more[i] \in puts
      /\ \A i, j \in 1 .. Len(more) : i # j => more[i] # more[j]
  <2> HIDE DEF puts
  <2>1. QED
    BY <1>4, SetToSeqIs
<1>6. ASSUME NEW e \in puts PROVE e.key \in canceled /\ e.result = CANCELED /\ e = put(e.key)
  BY <1>6
<1>7. /\ rest \in Seq(Entry) /\ Len(rest) \in Nat
      /\ \A i \in 1 .. Len(rest) : rest[i] = finished[i + 1] /\ i + 1 \in 1 .. Len(finished)
      /\ k \in jobs /\ Head(finished).result \in {FAILED, CANCELED}
  BY <1>1, Taking, Distinct DEF Entry
<1>8. /\ status' \in [Job -> Status] /\ status'[k] = Head(finished).result /\ k \notin canceled
      /\ \A j \in canceled : status'[j] = QUEUED
      /\ \A j \in Job : (j # k /\ j \notin canceled) => status'[j] = status[j]
      /\ \A j \in Job : status[j] \in DONE_STATES => status'[j] = status[j]
      /\ \A j \in heap \cup submitted : status'[j] = QUEUED /\ \A d \in dependencies[j] : status'[d] = SUCCESSFUL
      /\ \A j \in running' : status'[j] = RUNNING
      /\ \A j \in leaving' : status'[j] \in {RUNNING, SUCCESSFUL, FAILED}
  <2>1. UNCHANGED <<running, leaving>> /\ dependencies' = dependencies /\ \A j \in canceled : status[j] = UNSTARTED
    BY <1>1, <1>2
  <2> HIDE DEF canceled
  <2>2. QED
    BY <1>1, <1>2, <2>1, TakingStatus
<1> HIDE DEF rest, more, puts
<1>9. /\ finished' \in Seq(Entry) /\ Len(finished') = Len(rest) + Len(more)
      /\ \A i \in 1 .. Len(rest) : finished'[i] = rest[i]
      /\ \A i \in 1 .. Len(finished') : i \notin 1 .. Len(rest) =>
           i - Len(rest) \in 1 .. Len(more) /\ finished'[i] = more[i - Len(rest)]
  BY <1>1, <1>5, <1>7, ConcatProperties
<1>10. ASSUME NEW i \in 1 .. Len(finished') PROVE EntryInv(finished[i])'
  <2>1. CASE i \in 1 .. Len(rest)
    <3>1. i \in 1 .. Len(Tail(finished)) /\ finished'[i] = finished[i + 1]
      BY <1>7, <1>9, <2>1 DEF rest
    <3>2. UNCHANGED <<running, leaving>> /\ dependencies' = dependencies /\ \A j \in canceled : status[j] = UNSTARTED
      BY <1>1, <1>2
    <3> HIDE DEF canceled
    <3>3. QED
      BY <1>1, <1>2, <1>10, <3>1, <3>2, TakingEntries
  <2>2. CASE i \notin 1 .. Len(rest)
    <3>1. finished'[i] \in puts
      BY <1>5, <1>9, <1>10, <2>2
    <3>2. finished'[i].key \in canceled /\ finished'[i].result = CANCELED
      BY <1>6, <3>1
    <3>3. finished'[i].key \in jobs' /\ status'[finished'[i].key] = QUEUED /\ k \in dependencies'[finished'[i].key]
      BY <1>1, <1>2, <1>3, <1>8, <3>2
    <3>4. status'[k] \in {FAILED, CANCELED}
      BY <1>7, <1>8
    <3>5. QED
      BY <3>2, <3>3, <3>4 DEF EntryInv
  <2>3. QED
    BY <2>1, <2>2
<1>11. ASSUME NEW i \in 1 .. Len(rest) PROVE rest[i].key \in Job /\ rest[i].key \notin canceled
  <2>1. EntryInv(finished[i + 1]) /\ rest[i] = finished[i + 1]
    BY <1>7 DEF PoolInv, QueueInv
  <2>2. QED
    BY <1>2, <1>3, <2>1, Distinct DEF EntryInv
<1>12. ASSUME NEW i \in 1 .. Len(finished'), NEW j \in 1 .. Len(finished'), i # j
       PROVE  finished'[i].key # finished'[j].key
  <2>1. CASE i \in 1 .. Len(rest) /\ j \in 1 .. Len(rest)
    <3>1. i + 1 \in 1 .. Len(finished) /\ j + 1 \in 1 .. Len(finished) /\ i + 1 # j + 1
      BY <1>7, <1>12, <2>1
    <3>2. finished[i + 1].key # finished[j + 1].key
      BY <3>1 DEF PoolInv, QueueInv
    <3>3. QED
      BY <1>7, <1>9, <2>1, <3>2
  <2>2. CASE i \notin 1 .. Len(rest) /\ j \notin 1 .. Len(rest)
    <3>1. /\ i - Len(rest) \in 1 .. Len(more) /\ j - Len(rest) \in 1 .. Len(more) /\ i - Len(rest) # j - Len(rest)
          /\ finished'[i] = more[i - Len(rest)] /\ finished'[j] = more[j - Len(rest)]
      BY <1>7, <1>9, <1>12, <2>2
    <3>2. finished'[i] \in puts /\ finished'[j] \in puts /\ finished'[i] # finished'[j]
      BY <1>5, <3>1
    <3>3. finished'[i] = put(finished'[i].key) /\ finished'[j] = put(finished'[j].key)
      BY <1>6, <3>2
    <3>4. QED
      BY <3>2, <3>3
  <2>3. CASE i \in 1 .. Len(rest) /\ j \notin 1 .. Len(rest)
    <3>1. finished'[j] \in puts
      BY <1>5, <1>9, <2>3
    <3>2. finished'[j].key \in canceled
      BY <1>6, <3>1
    <3>3. QED
      BY <1>9, <1>11, <2>3, <3>2
  <2>4. CASE i \notin 1 .. Len(rest) /\ j \in 1 .. Len(rest)
    <3>1. finished'[i] \in puts
      BY <1>5, <1>9, <2>4
    <3>2. finished'[i].key \in canceled
      BY <1>6, <3>1
    <3>3. QED
      BY <1>9, <1>11, <2>4, <3>2
  <2>5. QED
    BY <2>1, <2>2, <2>3, <2>4
<1>13. QueueInv'
  BY <1>10, <1>12 DEF QueueInv
<1>14. CancelInv'
  BY <1>1, <1>3, <1>8, TakingFailure DEF CancelInv
<1>15. PoolType' /\ Places'
  BY <1>1, <1>8, <1>9 DEF PoolInv, PoolType, Places, jobs
<1>16. PhaseInv'
  <2>1. status[k] # SUCCESSFUL
    BY <1>1, Taking, Distinct
  <2>2. \A j \in Job : status'[j] = SUCCESSFUL <=> status[j] = SUCCESSFUL
    BY <1>2, <1>7, <1>8, <2>1, Distinct
  <2>3. \A j \in jobs : Unfinished(j)' = Unfinished(j)
    BY <1>1, <1>3, <2>2 DEF Unfinished
  <2>4. QED
    BY <1>1, <1>3, <2>3 DEF PoolInv, PhaseInv
<1>17. Apart' /\ InFlightExact'
  BY <1>1 DEF PoolInv, Apart, InFlightExact
<1>18. QED
  BY <1>13, <1>14, <1>15, <1>16, <1>17 DEF PoolInv

LEMMA PoolStep == ASSUME PoolInv, [Next]_vars PROVE PoolInv'
<1>1. CASE \E deps \in Graphs : Execute(deps)
  BY <1>1, ExecuteStep
<1>2. CASE Main
  BY <1>2, SucceedsStep, FailsStep, TimesOutStep, ReturnsStep DEF Main
<1>3. CASE \E k \in Job : Worker(k) \/ MainCallbackRaises(k)
  BY <1>3, StartsStep, PutsStep, DecrementsStep, RaisesStep DEF Worker
<1>4. CASE UNCHANGED vars
  <2>1. QueueInv' /\ CancelInv' /\ PhaseInv'
    BY <1>4, SameQueue DEF vars
  <2>2. PoolType' /\ Apart' /\ Places' /\ InFlightExact'
    BY <1>4 DEF vars, PoolInv, PoolType, Apart, Places, InFlightExact, jobs
  <2>3. QED
    BY <2>1, <2>2 DEF PoolInv
<1>5. QED
  BY <1>1, <1>2, <1>3, <1>4 DEF Next

\* PoolInv holds in every reachable state.
LEMMA PoolInvariant == Spec => []PoolInv
  BY PoolInit, PoolStep, PTL DEF Spec

\* jobs_in_flight is what the pool holds and never exceeds the number of workers
\* (execution_graph.py:try_to_submit_jobs_from_heap, worker).
THEOREM InFlightIsExact == Spec => []InFlightExact
<1>1. PoolInv => InFlightExact
  BY DEF PoolInv
<1>2. QED
  BY <1>1, PoolInvariant, PTL

(***************************************************************************)
(* The refinement: what the abstract schedule sees of each step.           *)
(***************************************************************************)
Mapped == [k \in Job |-> Abstract(k)]
MappedCall == CASE main = "idle" -> "none" [] main = "loop" -> "active" [] OTHER -> main

LEMMA AbstractOf ==
  ASSUME NEW k, status[k] \in Status
  PROVE  /\ status[k] = SUCCESSFUL <=> Abstract(k) = "ok"
         /\ status[k] = FAILED <=> Abstract(k) = "failed"
         /\ status[k] = CANCELED <=> Abstract(k) = "canceled"
         /\ status[k] = RUNNING <=> Abstract(k) = "running"
         /\ status[k] \in {QUEUED, UNSTARTED} <=> Abstract(k) = "waiting"
  BY DEF Abstract, Status, DONE_STATES, UNSTARTED, QUEUED, RUNNING, SUCCESSFUL, FAILED, CANCELED

LEMMA CallOf ==
  ASSUME PoolType
  PROVE  /\ main = "idle" <=> MappedCall = "none"
         /\ main = "loop" <=> MappedCall = "active"
         /\ main = "raised" <=> MappedCall = "raised"
         /\ main = "returned" <=> MappedCall = "returned"
  BY DEF PoolType, MappedCall

\* A step that changes what is seen of one job at most.
LEMMA OneJobSeen ==
  ASSUME PoolInv, NEW k \in Job, NEW v, Abstract(k)' = v,
         \A j \in Job : j # k => Abstract(j)' = Abstract(j)
  PROVE  Mapped' = [Mapped EXCEPT ![k] = v]
  BY DEF Mapped

LEMMA NothingSeen ==
  ASSUME PoolInv, UNCHANGED <<dependencies, status, main>>
  PROVE  UNCHANGED <<dependencies, Mapped, MappedCall>>
  BY DEF Mapped, MappedCall, Abstract

LEMMA CallSeen ==
  ASSUME PoolInv, PoolInv', NEW deps \in Graphs, Execute(deps)
  PROVE  Schedule!Call(deps) /\ MappedCall # "active"
<1>1. /\ main = "idle" /\ main' = "loop" /\ dependencies' = deps
      /\ status' = [k \in Job |-> IF k \in {r \in DOMAIN deps : deps[r] = {}} THEN QUEUED ELSE UNSTARTED]
  BY DEF Execute
<1>2. MappedCall = "none" /\ MappedCall' = "active"
  BY <1>1 DEF MappedCall
<1>3. \A k \in Job : status'[k] \in {QUEUED, UNSTARTED}
  BY <1>1
<1>4. \A k \in Job : Abstract(k)' = "waiting"
  BY <1>3, Distinct DEF Abstract
<1>5. Mapped' = [k \in Job |-> "waiting"]
  BY <1>4 DEF Mapped
<1>6. QED
  BY <1>1, <1>2, <1>5 DEF Schedule!Call, Mapped, MappedCall

LEMMA StartSeen ==
  ASSUME PoolInv, PoolInv', NEW k \in Job, WorkerStarts(k)
  PROVE  Schedule!Start(k) /\ k \in jobs
<1>1. /\ k \in submitted /\ status' = [status EXCEPT ![k] = RUNNING]
      /\ UNCHANGED <<dependencies, main>>
  BY DEF WorkerStarts
<1>2. /\ status \in [Job -> Status] /\ jobs \subseteq Job /\ \A j \in jobs : dependencies[j] \subseteq jobs
      /\ k \in jobs /\ status[k] = QUEUED /\ \A d \in dependencies[k] : status[d] = SUCCESSFUL
  BY <1>1 DEF PoolInv, PoolType, Places, jobs
<1>3. main \in {"loop", "raised"}
  BY <1>2, Distinct DEF PoolInv, PoolType, PhaseInv
<1>4. MappedCall \in {"active", "raised"} /\ MappedCall' = MappedCall
  BY <1>1, <1>3 DEF MappedCall
<1>5. Mapped[k] = "waiting" /\ \A d \in dependencies[k] : Mapped[d] = "ok"
  BY <1>2, AbstractOf DEF Mapped
<1>6. status'[k] = RUNNING /\ \A j \in Job : j # k => status'[j] = status[j]
  BY <1>1, <1>2
<1>7. Abstract(k)' = "running" /\ \A j \in Job : j # k => Abstract(j)' = Abstract(j)
  BY <1>6, Distinct DEF Abstract
<1>8. Mapped' = [Mapped EXCEPT ![k] = "running"]
  BY <1>7, OneJobSeen
<1>9. QED
  BY <1>1, <1>2, <1>4, <1>5, <1>8 DEF Schedule!Start, Schedule!Working, Mapped, MappedCall

\* What the schedule calls the result of a job.
SeenResult(r) == CASE r = SUCCESSFUL -> "ok" [] r = FAILED -> "failed" [] OTHER -> "canceled"

LEMMA TakingSeen ==
  ASSUME PoolInv, PoolInv', finished # <<>>, NEW k, k = Head(finished).key,
         NEW queued, queued \subseteq jobs, \A j \in queued : status[j] = UNSTARTED,
         dependencies' = dependencies, UNCHANGED <<running, leaving>>,
         status' = TakenStatus(k, queued)
  PROVE  /\ k \in jobs /\ k \in Job
         /\ Head(finished).result # CANCELED => Mapped[k] = "running"
         /\ Head(finished).result = CANCELED => /\ Mapped[k] = "waiting"
                                                /\ \E d \in dependencies[k] : Mapped[d] \in {"failed", "canceled"}
         /\ Mapped' = [Mapped EXCEPT ![k] = SeenResult(Head(finished).result)]
<1>1. Head(finished) \in Entry /\ EntryInv(Head(finished)) /\ k \in jobs
  BY Taking
<1>2. /\ status \in [Job -> Status] /\ jobs \subseteq Job /\ \A j \in jobs : dependencies[j] \subseteq jobs
      /\ Head(finished).result \in DONE_STATES
  BY <1>1 DEF PoolInv, PoolType, jobs, Entry
<1>3. /\ Head(finished).result # CANCELED => status[k] = RUNNING
      /\ Head(finished).result = CANCELED => /\ status[k] = QUEUED
                                             /\ \E d \in dependencies[k] : status[d] \in {FAILED, CANCELED}
  BY <1>1 DEF EntryInv
<1>4. /\ status' \in [Job -> Status] /\ status'[k] = Head(finished).result
      /\ \A j \in queued : status'[j] = QUEUED
      /\ \A j \in Job : (j # k /\ j \notin queued) => status'[j] = status[j]
  BY TakingStatus
<1>5. \A j \in Job : j # k => Abstract(j)' = Abstract(j)
  <2> SUFFICES ASSUME NEW j \in Job, j # k PROVE Abstract(j)' = Abstract(j)
    OBVIOUS
  <2>1. CASE j \in queued
    BY <1>4, <2>1, Distinct DEF Abstract
  <2>2. CASE j \notin queued
    BY <1>4, <2>2 DEF Abstract
  <2>3. QED
    BY <2>1, <2>2
<1>6. Abstract(k)' = SeenResult(Head(finished).result)
  BY <1>2, <1>4, Distinct DEF Abstract, SeenResult
<1>7. Mapped' = [Mapped EXCEPT ![k] = SeenResult(Head(finished).result)]
  BY <1>1, <1>2, <1>5, <1>6, OneJobSeen
<1>8. \A j \in jobs : Mapped[j] = Abstract(j) /\ status[j] \in Status
  BY <1>2 DEF Mapped
<1>9. Head(finished).result # CANCELED => Mapped[k] = "running"
  BY <1>1, <1>3, <1>8, AbstractOf
<1>10. Head(finished).result = CANCELED => Mapped[k] = "waiting"
  BY <1>1, <1>3, <1>8, AbstractOf
<1>11. Head(finished).result = CANCELED => \E d \in dependencies[k] : Mapped[d] \in {"failed", "canceled"}
  BY <1>1, <1>2, <1>3, <1>8, AbstractOf
<1>12. QED
  BY <1>1, <1>2, <1>7, <1>9, <1>10, <1>11

LEMMA SucceedsSeen ==
  ASSUME PoolInv, PoolInv', NEW k \in Job, MainSucceeds(k)
  PROVE  Schedule!End(k, "ok") /\ k \in jobs
<1> DEFINE left == [j \in Job |-> IF j \in Dependees(k) THEN pending[j] - 1 ELSE pending[j]]
           ready == Ready(k, left)
<1>1. /\ finished # <<>> /\ main = "loop" /\ k = Head(finished).key /\ Head(finished).result = SUCCESSFUL
      /\ status' = TakenStatus(k, ready)
      /\ UNCHANGED <<dependencies, running, leaving, main>>
  BY DEF MainSucceeds, Got, TakenStatus
<1>2. ready \subseteq jobs /\ \A j \in ready : status[j] = UNSTARTED
  BY DEF Ready, Dependees
<1> HIDE DEF ready
<1>3. /\ k \in jobs /\ Mapped[k] = "running"
      /\ Mapped' = [Mapped EXCEPT ![k] = "ok"]
  <2>1. SeenResult(SUCCESSFUL) = "ok" /\ SUCCESSFUL # CANCELED
    BY Distinct DEF SeenResult
  <2>2. QED
    BY <1>1, <1>2, <2>1, TakingSeen
<1>4. MappedCall = "active" /\ MappedCall' = MappedCall
  BY <1>1 DEF MappedCall
<1>5. QED
  BY <1>1, <1>3, <1>4 DEF Schedule!End, Schedule!Working, Mapped, MappedCall

LEMMA FailsSeen ==
  ASSUME PoolInv, PoolInv', NEW k \in Job, MainFails(k)
  PROVE  k \in jobs /\ (Schedule!End(k, "failed") \/ Schedule!Cancel(k))
<1> DEFINE canceled == {j \in Dependees(k) : status[j] = UNSTARTED}
<1>1. /\ finished # <<>> /\ main = "loop" /\ k = Head(finished).key /\ Head(finished).result # SUCCESSFUL
      /\ status' = TakenStatus(k, canceled)
      /\ UNCHANGED <<dependencies, running, leaving, main>>
  BY DEF MainFails, Got, TakenStatus
<1>2. canceled \subseteq jobs /\ \A j \in canceled : status[j] = UNSTARTED
  BY DEF Dependees
<1> HIDE DEF canceled
<1>3. /\ k \in jobs
      /\ Head(finished).result # CANCELED => Mapped[k] = "running"
      /\ Head(finished).result = CANCELED => /\ Mapped[k] = "waiting"
                                             /\ \E d \in dependencies[k] : Mapped[d] \in {"failed", "canceled"}
      /\ Mapped' = [Mapped EXCEPT ![k] = SeenResult(Head(finished).result)]
  BY <1>1, <1>2, TakingSeen
<1>4. Head(finished).result \in {FAILED, CANCELED}
  BY <1>1, Taking, Distinct DEF Entry
<1>5. MappedCall = "active" /\ MappedCall' = MappedCall
  BY <1>1 DEF MappedCall
<1>6. CASE Head(finished).result = FAILED
  <2>1. SeenResult(FAILED) = "failed" /\ FAILED # CANCELED
    BY Distinct DEF SeenResult
  <2>2. Mapped[k] = "running" /\ Mapped' = [Mapped EXCEPT ![k] = "failed"]
    BY <1>3, <1>6, <2>1
  <2>3. QED
    BY <1>1, <1>3, <1>5, <2>2 DEF Schedule!End, Schedule!Working, Mapped, MappedCall
<1>7. CASE Head(finished).result = CANCELED
  <2>1. SeenResult(CANCELED) = "canceled"
    BY Distinct DEF SeenResult
  <2>2. /\ Mapped[k] = "waiting" /\ Mapped' = [Mapped EXCEPT ![k] = "canceled"]
        /\ \E d \in dependencies[k] : Mapped[d] \in {"failed", "canceled"}
    BY <1>3, <1>7, <2>1
  <2>3. QED
    BY <1>1, <1>3, <1>5, <2>2 DEF Schedule!Cancel, Mapped, MappedCall
<1>8. QED
  BY <1>4, <1>6, <1>7

LEMMA RaisesSeen ==
  ASSUME PoolInv, PoolInv', NEW k \in Job, MainCallbackRaises(k)
  PROVE  k \in jobs /\ \E r \in {"ok", "failed", "canceled"} : Schedule!EndAndRaise(k, r)
<1>1. /\ finished # <<>> /\ main = "loop" /\ main' = "raised" /\ k = Head(finished).key
      /\ status' = [status EXCEPT ![k] = Head(finished).result]
      /\ UNCHANGED <<dependencies, running, leaving>>
  BY DEF MainCallbackRaises, Got
<1>2. status' = TakenStatus(k, {})
  <2>1. status \in [Job -> Status]
    BY DEF PoolInv, PoolType
  <2>2. QED
    BY <1>1, <2>1 DEF TakenStatus
<1>3. /\ k \in jobs /\ Mapped[k] \in {"running", "waiting"}
      /\ Mapped' = [Mapped EXCEPT ![k] = SeenResult(Head(finished).result)]
  BY <1>1, <1>2, TakingSeen
<1>4. SeenResult(Head(finished).result) \in {"ok", "failed", "canceled"}
  BY DEF SeenResult
<1>5. MappedCall = "active" /\ MappedCall' = "raised"
  BY <1>1 DEF MappedCall
<1>6. Schedule!EndAndRaise(k, SeenResult(Head(finished).result))
  BY <1>1, <1>3, <1>5 DEF Schedule!EndAndRaise, Mapped, MappedCall
<1>7. QED
  BY <1>3, <1>4, <1>6

LEMMA ReturnsSeen == ASSUME PoolInv, PoolInv', MainReturns PROVE Schedule!Return \/ Schedule!Raise
<1>1. /\ main = "loop" /\ AllDone /\ UNCHANGED <<dependencies, status>>
      /\ main' = IF \E k \in jobs : status[k] = FAILED THEN "raised" ELSE "returned"
  BY DEF MainReturns
<1>2. Mapped' = Mapped /\ MappedCall = "active" /\ MappedCall' = main'
  BY <1>1 DEF Mapped, Abstract, MappedCall
<1>3. CASE \E k \in jobs : status[k] = FAILED
  <2>1. MappedCall' = "raised"
    BY <1>1, <1>2, <1>3
  <2>2. QED
    BY <1>1, <1>2, <2>1 DEF Schedule!Raise, Mapped, MappedCall
<1>4. CASE ~\E k \in jobs : status[k] = FAILED
  <2>1. \A k \in jobs : status[k] = SUCCESSFUL
    BY <1>1, <1>4, Distinct DEF AllDone, PoolInv, CancelInv
  <2>2. \A k \in jobs : Mapped[k] = "ok"
    BY <2>1, Distinct DEF Mapped, Abstract, PoolInv, PoolType, jobs
  <2>3. MappedCall' = "returned"
    BY <1>1, <1>2, <1>4
  <2>4. QED
    BY <1>1, <1>2, <2>2, <2>3 DEF Schedule!Return, Schedule!jobs, jobs, Mapped, MappedCall
<1>5. QED
  BY <1>3, <1>4

LEMMA StepSeen ==
  ASSUME PoolInv, PoolInv', [Next]_vars
  PROVE  [Schedule!Next]_<<dependencies, Mapped, MappedCall>>
<1>1. CASE \E deps \in Graphs : Execute(deps)
  BY <1>1, CallSeen DEF Schedule!Next, MappedCall
<1>2. CASE \E k \in Job : MainSucceeds(k)
  BY <1>2, SucceedsSeen DEF Schedule!Next, Schedule!jobs, jobs
<1>3. CASE \E k \in Job : MainFails(k)
  BY <1>3, FailsSeen DEF Schedule!Next, Schedule!jobs, jobs
<1>4. CASE MainTimesOut
  BY <1>4, NothingSeen DEF MainTimesOut
<1>5. CASE MainReturns
  BY <1>5, ReturnsSeen DEF Schedule!Next
<1>6. CASE \E k \in Job : WorkerStarts(k)
  BY <1>6, StartSeen DEF Schedule!Next, Schedule!jobs, jobs
<1>7. CASE \E k \in Job : WorkerDecrements(k) \/ \E r \in {SUCCESSFUL, FAILED} : WorkerPuts(k, r)
  BY <1>7, NothingSeen DEF WorkerDecrements, WorkerPuts
<1>8. CASE \E k \in Job : MainCallbackRaises(k)
  BY <1>8, RaisesSeen DEF Schedule!Next, Schedule!jobs, jobs
<1>9. CASE UNCHANGED vars
  BY <1>9, NothingSeen DEF vars
<1>10. QED
  BY <1>1, <1>2, <1>3, <1>4, <1>5, <1>6, <1>7, <1>8, <1>9 DEF Next, Main, Worker

LEMMA InitSeen == Init => Schedule!Idle
<1> SUFFICES ASSUME Init PROVE Schedule!Idle
  OBVIOUS
<1>1. \A k \in Job : Abstract(k) = "waiting"
  BY Distinct DEF Init, Abstract
<1>2. Mapped = [k \in Job |-> "waiting"] /\ MappedCall = "none" /\ dependencies = <<>>
  BY <1>1 DEF Mapped, MappedCall, Init
<1>3. QED
  BY <1>2 DEF Schedule!Idle, Mapped, MappedCall

\* The heap, the pool, the queue and the counters of ExecutionGraph.execute work off the jobs as
\* JobSchedule says: whatever the threads' interleaving, no job starts before those it depends on
\* have succeeded, none runs twice or is canceled without cause, and the call returns normally
\* only when all succeeded.
THEOREM ExecutionGraphImplementsSchedule == Spec => ImplementsSchedule
<1>1. PoolInv /\ PoolInv' /\ [Next]_vars => [Schedule!Next]_Schedule!scheduleVars
  BY StepSeen DEF Schedule!scheduleVars, Mapped, MappedCall
<1>2. QED
  BY <1>1, InitSeen, PoolInvariant, PTL DEF Spec, ImplementsSchedule, Schedule!Spec
=============================================================================
