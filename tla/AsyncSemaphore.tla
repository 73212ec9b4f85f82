-------------------------- MODULE AsyncSemaphore --------------------------
(***************************************************************************)
(* The asynchronous semaphore that bounds how many processes the engine    *)
(* runs (src/rust/engine/async_semaphore).  A task acquires by polling a   *)
(* PermitFuture; a poll that cannot be served queues the task, and a       *)
(* Permit that is dropped notifies the task at the front of the queue.     *)
(* Every action is one critical section of the mutex on Inner.             *)
(***************************************************************************)
EXTENDS Integers, FiniteSets, Sequences

CONSTANTS
    Task,           \* the tasks that call with_acquired
    Permits,        \* the permits of AsyncSemaphore::new
    MaxAcquires,    \* bound: how many futures are created
    MaxDrops        \* bound: how many of them are given up

ASSUME TaskAssumption == IsFiniteSet(Task)

ASSUME CountAssumption ==
    /\ Permits \in Nat \ {0}
    /\ MaxAcquires \in Nat
    /\ MaxDrops \in Nat

VARIABLES
    waiters,        \* Inner.waiters: the queue, each with its id
    available,      \* Inner.available_permits
    nextId,         \* Inner.next_waiter_id
    stage,          \* what each task has: nothing, a future, a permit
    waiterId,       \* PermitFuture.waiter_id; -1 is None
    scheduled,      \* the executor owes the task a poll
    acquires, drops \* how much of the bounds is used

vars == <<waiters, available, nextId, stage, waiterId, scheduled, acquires, drops>>

Holders == {t \in Task : stage[t] = "holding"}

(* AsyncSemaphore::acquire, in a task that the executor will poll. *)
Acquire(t) ==
    /\ stage[t] = "idle"
    /\ acquires < MaxAcquires
    /\ acquires' = acquires + 1
    /\ stage' = [stage EXCEPT ![t] = "pending"]
    /\ scheduled' = [scheduled EXCEPT ![t] = TRUE]
    /\ UNCHANGED <<waiters, available, nextId, waiterId, drops>>

(* The queue as PermitFuture::poll sees it: a first poll joins it.        *)
Joined(t) ==
    IF waiterId[t] = -1 THEN Append(waiters, [id |-> nextId, task |-> t]) ELSE waiters

IdAfterJoin(t) == IF waiterId[t] = -1 THEN nextId ELSE waiterId[t]

(* Fault: permits are issued out of turn. *)
WillIssueToAny(t) == available > 0

(* PermitFuture::poll issues a permit to the front of the queue only. *)
WillIssue(t) == available > 0 /\ Head(Joined(t)).id = IdAfterJoin(t)

(* PermitFuture::poll.  A task may also be polled without being notified, *)
(* when another future it is combined with is woken.                      *)
Poll(t) ==
    /\ stage[t] = "pending"
    /\ nextId' = IF waiterId[t] = -1 THEN nextId + 1 ELSE nextId
    /\ scheduled' = [scheduled EXCEPT ![t] = FALSE]
    /\ \/ /\ WillIssue(t)
          /\ waiters' = Tail(Joined(t))
          /\ waiterId' = [waiterId EXCEPT ![t] = -1]
          /\ available' = available - 1
          /\ stage' = [stage EXCEPT ![t] = "holding"]
       \/ /\ ~WillIssue(t)
          /\ waiters' = Joined(t)
          /\ waiterId' = [waiterId EXCEPT ![t] = IdAfterJoin(t)]
          /\ UNCHANGED <<available, stage>>
    /\ UNCHANGED <<acquires, drops>>

(* Fault: the permit only returns if somebody waits for it. *)
ReleaseToWaiter(t) ==
    /\ stage[t] = "holding"
    /\ stage' = [stage EXCEPT ![t] = "idle"]
    /\ available' = IF waiters = <<>> THEN available ELSE available + 1
    /\ scheduled' = IF waiters = <<>> THEN scheduled
                    ELSE [scheduled EXCEPT ![Head(waiters).task] = TRUE]
    /\ UNCHANGED <<waiters, nextId, waiterId, acquires, drops>>

(* Fault: nobody is notified. *)
ReleaseSilently(t) ==
    /\ stage[t] = "holding"
    /\ stage' = [stage EXCEPT ![t] = "idle"]
    /\ available' = available + 1
    /\ UNCHANGED <<waiters, nextId, waiterId, scheduled, acquires, drops>>

(* Drop for Permit, when the work under it ends, fails or is cancelled.   *)
Release(t) ==
    /\ stage[t] = "holding"
    /\ stage' = [stage EXCEPT ![t] = "idle"]
    /\ available' = available + 1
    /\ scheduled' = IF waiters = <<>> THEN scheduled
                    ELSE [scheduled EXCEPT ![Head(waiters).task] = TRUE]
    /\ UNCHANGED <<waiters, nextId, waiterId, acquires, drops>>

(* Fault: the future stays in the queue. *)
GiveUpInQueue(t) ==
    /\ stage[t] = "pending"
    /\ drops < MaxDrops
    /\ drops' = drops + 1
    /\ stage' = [stage EXCEPT ![t] = "idle"]
    /\ waiterId' = [waiterId EXCEPT ![t] = -1]
    /\ scheduled' = [scheduled EXCEPT ![t] = FALSE]
    /\ UNCHANGED <<waiters, available, nextId, acquires>>

(* VecDeque::remove. *)
WithoutWaiter(i) ==
    [j \in 1..(Len(waiters) - 1) |-> IF j < i THEN waiters[j] ELSE waiters[j + 1]]

(* Drop for PermitFuture: the task gives up, as in a select with a timer. *)
(* Its place in the queue, if it has one, is searched by id; nobody is    *)
(* notified.                                                              *)
GiveUp(t) ==
    /\ stage[t] = "pending"
    /\ drops < MaxDrops
    /\ drops' = drops + 1
    /\ stage' = [stage EXCEPT ![t] = "idle"]
    /\ \/ /\ \A i \in DOMAIN waiters : waiters[i].id # waiterId[t]
          /\ UNCHANGED waiters
       \/ \E i \in DOMAIN waiters :
            /\ waiters[i].id = waiterId[t]
            /\ waiters' = WithoutWaiter(i)
    /\ waiterId' = [waiterId EXCEPT ![t] = -1]
    /\ scheduled' = [scheduled EXCEPT ![t] = FALSE]
    /\ UNCHANGED <<available, nextId, acquires>>

Init ==
    /\ waiters = <<>>
    /\ available = Permits
    /\ nextId = 0
    /\ stage = [t \in Task |-> "idle"]
    /\ waiterId = [t \in Task |-> -1]
    /\ scheduled = [t \in Task |-> FALSE]
    /\ acquires = 0
    /\ drops = 0

Next == \E t \in Task : Acquire(t) \/ Poll(t) \/ Release(t) \/ GiveUp(t)

Spec == Init /\ [][Next]_vars

(* The executor polls what was notified, and work under a permit ends.    *)
FairSpec ==
    /\ Spec
    /\ \A t \in Task : WF_vars(scheduled[t] /\ Poll(t)) /\ WF_vars(Release(t))

-----------------------------------------------------------------------------
(* The shape of every variable. *)
TypeOK ==
    /\ waiters \in Seq([id : Nat, task : Task])
    /\ available \in Nat
    /\ nextId \in Nat
    /\ stage \in [Task -> {"idle", "pending", "holding"}]
    /\ waiterId \in [Task -> Nat \cup {-1}]
    /\ scheduled \in [Task -> BOOLEAN]
    /\ acquires \in Nat
    /\ drops \in Nat

(* No permit is lost or made up by any interleaving of polls, releases    *)
(* and futures that are given up: the free permits and the held ones add  *)
(* up to those the semaphore was made with.                               *)
PermitsConserved == available + Cardinality(Holders) = Permits

(* The queue holds exactly the futures that believe to be in it, in the   *)
(* order of their ids: a future that was given up leaves nothing behind   *)
(* for the others to wait behind, one that acquired is not served again.  *)
QueueExact ==
    /\ \A i \in DOMAIN waiters :
          /\ stage[waiters[i].task] = "pending"
          /\ waiterId[waiters[i].task] = waiters[i].id
          /\ waiters[i].id < nextId
    /\ \A i, j \in DOMAIN waiters : i < j => waiters[i].id < waiters[j].id
    /\ \A t \in Task : waiterId[t] # -1 =>
          \E i \in DOMAIN waiters : waiters[i].id = waiterId[t] /\ waiters[i].task = t

(* First come, first served: a task that is served after it had to queue  *)
(* overtakes none that queued before it.                                  *)
FirstComeFirstServed ==
    [][\A t, u \in Task :
          stage[t] = "pending" /\ stage'[t] = "holding" /\ waiterId[u] # -1 /\ u # t
          => waiterId[t] # -1 /\ waiterId[t] < waiterId[u]]_vars

(* No wake-up is lost as long as nobody has given up: while a permit is    *)
(* free and a task queues, either the front of the queue will be polled   *)
(* or somebody holds a permit whose release will notify it.               *)
NoLostWakeup ==
    drops = 0 /\ available > 0 /\ waiters # <<>> =>
        scheduled[Head(waiters).task] \/ Holders # {}

(* When nobody ever gives up, every task that waits gets a permit.        *)
ServedIfAllStay ==
    [](drops = 0) => \A t \in Task : stage[t] = "pending" ~> stage[t] = "holding"

=============================================================================
