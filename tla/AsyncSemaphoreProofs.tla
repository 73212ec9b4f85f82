----------------------- MODULE AsyncSemaphoreProofs -----------------------
(***************************************************************************)
(* The safety of the semaphore, for every number of tasks and permits.     *)
(* TypeOK is not inductive by itself: a poll takes the head of the queue,  *)
(* which is only known to have one because a future that was polled before *)
(* is in it.  TypeOK and QueueExact together are, and everything else      *)
(* follows from them.                                                      *)
(***************************************************************************)
EXTENDS AsyncSemaphore, FiniteSetTheorems, TLAPS

Waiter == [id : Nat, task : Task]

IndInv == TypeOK /\ QueueExact

(* QueueExact over the positions of the queue. *)
LEMMA QueueFacts ==
    ASSUME IndInv
    PROVE  /\ waiters \in Seq(Waiter) /\ Len(waiters) \in Nat
           /\ DOMAIN waiters = 1..Len(waiters)
           /\ \A i \in 1..Len(waiters) :
                /\ waiters[i] \in Waiter
                /\ waiters[i].id \in Nat /\ waiters[i].task \in Task
                /\ stage[waiters[i].task] = "pending"
                /\ waiterId[waiters[i].task] = waiters[i].id
                /\ waiters[i].id < nextId
           /\ \A i, j \in 1..Len(waiters) : i < j => waiters[i].id < waiters[j].id
           /\ \A t \in Task : waiterId[t] # -1 =>
                \E i \in 1..Len(waiters) : waiters[i].id = waiterId[t] /\ waiters[i].task = t
<1>1. waiters \in Seq(Waiter)
  BY DEF IndInv, TypeOK, Waiter
<1>2. Len(waiters) \in Nat /\ DOMAIN waiters = 1..Len(waiters)
  BY <1>1
<1>3. \A i \in 1..Len(waiters) : waiters[i] \in Waiter
  BY <1>1
<1>4. \A w \in Waiter : w.id \in Nat /\ w.task \in Task
  BY DEF Waiter
<1> QED
  BY <1>1, <1>2, <1>3, <1>4 DEF IndInv, QueueExact

(* The queue as a poll sees it is in order, contains the task that polls, *)
(* and apart from that only others that wait.                             *)
LEMMA JoinedShape ==
    ASSUME IndInv, NEW t \in Task, stage[t] = "pending"
    PROVE  /\ Joined(t) \in Seq(Waiter)
           /\ Joined(t) # <<>>
           /\ IdAfterJoin(t) \in Nat
           /\ \A i, j \in 1..Len(Joined(t)) : i < j => Joined(t)[i].id < Joined(t)[j].id
           /\ \E i \in 1..Len(Joined(t)) : Joined(t)[i] = [id |-> IdAfterJoin(t), task |-> t]
           /\ \A i \in 1..Len(Joined(t)) :
                /\ stage[Joined(t)[i].task] = "pending"
                /\ Joined(t)[i].id < IF waiterId[t] = -1 THEN nextId + 1 ELSE nextId
                /\ Joined(t)[i].task = t => Joined(t)[i].id = IdAfterJoin(t)
                /\ Joined(t)[i].task # t => waiterId[Joined(t)[i].task] = Joined(t)[i].id
           /\ \A u \in Task \ {t} : waiterId[u] # -1 =>
                \E i \in 1..Len(Joined(t)) :
                    Joined(t)[i].id = waiterId[u] /\ Joined(t)[i].task = u
<1>0. /\ nextId \in Nat
      /\ waiterId \in [Task -> Nat \cup {-1}]
  BY DEF IndInv, TypeOK
<1>1. CASE waiterId[t] = -1
  <2> DEFINE w == [id |-> nextId, task |-> t]
  <2>1. w \in Waiter
    BY <1>0 DEF Waiter
  <2>2. Joined(t) = Append(waiters, w) /\ IdAfterJoin(t) = nextId
    BY <1>1 DEF Joined, IdAfterJoin
  <2> HIDE DEF w
  <2>3. /\ Len(Joined(t)) = Len(waiters) + 1
        /\ \A i \in 1..Len(waiters) : Joined(t)[i] = waiters[i]
        /\ Joined(t)[Len(waiters) + 1] = w
        /\ Joined(t) \in Seq(Waiter)
    BY <2>1, <2>2, QueueFacts
  <2>4. w.id = nextId /\ w.task = t /\ w = [id |-> nextId, task |-> t]
    BY DEF w
  <2>5. \A i \in 1..Len(waiters) : waiters[i].task # t /\ waiters[i] \in Waiter
    BY <1>1, QueueFacts
  <2>6. Joined(t) # <<>> /\ IdAfterJoin(t) \in Nat /\ Joined(t) \in Seq(Waiter)
    BY <1>0, <1>1, <2>2, <2>3, <2>4, <2>5, QueueFacts
  <2>7. \A i, j \in 1..Len(Joined(t)) : i < j => Joined(t)[i].id < Joined(t)[j].id
    BY <1>0, <1>1, <2>2, <2>3, <2>4, <2>5, QueueFacts
  <2>8. \E i \in 1..Len(Joined(t)) : Joined(t)[i] = [id |-> IdAfterJoin(t), task |-> t]
    BY <1>0, <1>1, <2>2, <2>3, <2>4, <2>5, QueueFacts
  <2>9. ASSUME NEW i \in 1..Len(Joined(t))
         PROVE  /\ stage[Joined(t)[i].task] = "pending"
                /\ Joined(t)[i].id < IF waiterId[t] = -1 THEN nextId + 1 ELSE nextId
                /\ Joined(t)[i].task = t => Joined(t)[i].id = IdAfterJoin(t)
                /\ Joined(t)[i].task # t => waiterId[Joined(t)[i].task] = Joined(t)[i].id
    BY <1>0, <1>1, <2>2, <2>3, <2>4, <2>5, QueueFacts
  <2>10. ASSUME NEW u \in Task \ {t}, waiterId[u] # -1
         PROVE  \E i \in 1..Len(Joined(t)) :
                    Joined(t)[i].id = waiterId[u] /\ Joined(t)[i].task = u
    BY <1>0, <1>1, <2>2, <2>3, <2>4, <2>5, <2>10, QueueFacts
  <2> QED
    BY <2>6, <2>7, <2>8, <2>9, <2>10
<1>2. CASE waiterId[t] # -1
  <2>1. Joined(t) = waiters /\ IdAfterJoin(t) = waiterId[t]
    BY <1>2 DEF Joined, IdAfterJoin
  <2>2. PICK k \in 1..Len(waiters) : waiters[k].id = waiterId[t] /\ waiters[k].task = t
    BY <1>2, QueueFacts
  <2>3. waiters[k] = [id |-> waiterId[t], task |-> t]
    BY <2>2, QueueFacts DEF Waiter
  <2>4. Joined(t) # <<>> /\ IdAfterJoin(t) \in Nat /\ Joined(t) \in Seq(Waiter)
    BY <1>0, <1>2, <2>1, <2>2, <2>3, QueueFacts
  <2>5. \A i, j \in 1..Len(Joined(t)) : i < j => Joined(t)[i].id < Joined(t)[j].id
    BY <1>0, <1>2, <2>1, <2>2, <2>3, QueueFacts
  <2>6. \E i \in 1..Len(Joined(t)) : Joined(t)[i] = [id |-> IdAfterJoin(t), task |-> t]
    BY <1>0, <1>2, <2>1, <2>2, <2>3, QueueFacts
  <2>7. ASSUME NEW i \in 1..Len(Joined(t))
         PROVE  /\ stage[Joined(t)[i].task] = "pending"
                /\ Joined(t)[i].id < IF waiterId[t] = -1 THEN nextId + 1 ELSE nextId
                /\ Joined(t)[i].task = t => Joined(t)[i].id = IdAfterJoin(t)
                /\ Joined(t)[i].task # t => waiterId[Joined(t)[i].task] = Joined(t)[i].id
    BY <1>0, <1>2, <2>1, <2>2, <2>3, QueueFacts
  <2>8. ASSUME NEW u \in Task \ {t}, waiterId[u] # -1
         PROVE  \E i \in 1..Len(Joined(t)) :
                    Joined(t)[i].id = waiterId[u] /\ Joined(t)[i].task = u
    BY <1>0, <1>2, <2>1, <2>2, <2>3, <2>8, QueueFacts
  <2> QED
    BY <2>4, <2>5, <2>6, <2>7, <2>8
<1> QED
  BY <1>1, <1>2

(* The invariant is inductive. *)
LEMMA IndInvInit == Init => IndInv
<1> SUFFICES ASSUME Init PROVE IndInv
  OBVIOUS
<1>1. TypeOK
  BY CountAssumption DEF Init, TypeOK
<1>2. QueueExact
  BY DEF Init, QueueExact
<1> QED
  BY <1>1, <1>2 DEF IndInv

(* Creating a PermitFuture touches neither the queue nor the ids. *)
LEMMA AcquireStep == ASSUME IndInv, NEW t \in Task, Acquire(t) PROVE IndInv'
<1> USE DEF Acquire
<1>1. TypeOK'
  BY DEF IndInv, TypeOK
<1>2. QueueExact'
  BY QueueFacts DEF IndInv, TypeOK, QueueExact
<1> QED
  BY <1>1, <1>2 DEF IndInv

(* Dropping a Permit notifies the head of the queue, which is a task. *)
LEMMA ReleaseStep == ASSUME IndInv, NEW t \in Task, Release(t) PROVE IndInv'
<1> USE DEF Release
<1>0. scheduled' \in [Task -> BOOLEAN]
  <2>1. CASE waiters = <<>>
    BY <2>1 DEF IndInv, TypeOK
  <2>2. CASE waiters # <<>>
    <3>1. Len(waiters) >= 1 /\ Head(waiters).task \in Task
      BY <2>2, QueueFacts
    <3> QED
      BY <2>2, <3>1 DEF IndInv, TypeOK
  <2> QED
    BY <2>1, <2>2
<1>1. TypeOK'
  BY <1>0 DEF IndInv, TypeOK
<1>2. QueueExact'
  BY QueueFacts DEF IndInv, TypeOK, QueueExact
<1> QED
  BY <1>1, <1>2 DEF IndInv

(* A poll that is served leaves the queue at its head, which is the task *)
(* itself because ids are distinct; one that is not stays where it is.    *)
LEMMA PollStep == ASSUME IndInv, NEW t \in Task, Poll(t) PROVE IndInv'
<1>0. /\ stage[t] = "pending"
      /\ nextId' = IF waiterId[t] = -1 THEN nextId + 1 ELSE nextId
      /\ scheduled' = [scheduled EXCEPT ![t] = FALSE]
      /\ UNCHANGED <<acquires, drops>>
  BY DEF Poll
<1> DEFINE q == Joined(t)
           n == IdAfterJoin(t)
<1>a. q \in Seq(Waiter) /\ q # <<>> /\ n \in Nat
  BY <1>0, JoinedShape
<1>b. \A i, j \in 1..Len(q) : i < j => q[i].id < q[j].id
  BY <1>0, JoinedShape
<1>c. PICK here \in 1..Len(q) : q[here] = [id |-> n, task |-> t]
  BY <1>0, JoinedShape
<1>d. \A i \in 1..Len(q) :
         /\ stage[q[i].task] = "pending"
         /\ q[i].id < nextId'
         /\ q[i].task = t => q[i].id = n
         /\ q[i].task # t => waiterId[q[i].task] = q[i].id
  <2>1. \A i \in 1..Len(q) :
         /\ stage[q[i].task] = "pending"
         /\ q[i].id < IF waiterId[t] = -1 THEN nextId + 1 ELSE nextId
         /\ q[i].task = t => q[i].id = n
         /\ q[i].task # t => waiterId[q[i].task] = q[i].id
    BY <1>0, JoinedShape
  <2> HIDE DEF q, n
  <2> QED
    BY <1>0, <2>1
<1>e. \A u \in Task \ {t} : waiterId[u] # -1 =>
         \E i \in 1..Len(q) : q[i].id = waiterId[u] /\ q[i].task = u
  BY <1>0, JoinedShape
<1>f. /\ Len(q) \in Nat /\ Len(q) >= 1 /\ Head(q) = q[1] /\ DOMAIN q = 1..Len(q)
      /\ \A i \in 1..Len(q) : q[i] \in Waiter
  BY <1>a
<1>g. \A w \in Waiter : w.id \in Nat /\ w.task \in Task
  BY DEF Waiter
<1>h. q[here].id = n /\ q[here].task = t
  <2> HIDE DEF q, n
  <2> QED
    BY <1>c
<1>1. CASE WillIssue(t)
  <2>1. /\ available > 0 /\ q[1].id = n
        /\ waiters' = Tail(q)
        /\ waiterId' = [waiterId EXCEPT ![t] = -1]
        /\ available' = available - 1
        /\ stage' = [stage EXCEPT ![t] = "holding"]
    BY <1>1, <1>f DEF Poll, WillIssue
  <2> HIDE DEF q, n
  <2>2. /\ Tail(q) \in Seq(Waiter)
        /\ Len(Tail(q)) = Len(q) - 1
        /\ \A i \in 1..(Len(q) - 1) : Tail(q)[i] = q[i + 1]
        /\ DOMAIN Tail(q) = 1..(Len(q) - 1)
    BY <1>a, <1>f
  <2>3. here = 1
    BY <1>b, <1>f, <1>g, <1>h, <2>1
  <2>4. q[1].task = t /\ \A i \in 2..Len(q) : q[i].task # t
    BY <1>b, <1>d, <1>f, <1>g, <1>h, <2>1, <2>3
  <2>5. TypeOK'
    BY <1>0, <2>1, <2>2 DEF IndInv, TypeOK, Waiter
  <2>6. QueueExact'
    <3>1. ASSUME NEW i \in DOMAIN waiters'
          PROVE  /\ stage'[waiters'[i].task] = "pending"
                 /\ waiterId'[waiters'[i].task] = waiters'[i].id
                 /\ waiters'[i].id < nextId'
      <4>1. i + 1 \in 2..Len(q) /\ i + 1 \in 1..Len(q) /\ waiters'[i] = q[i + 1]
        BY <1>f, <2>1, <2>2
      <4> QED
        BY <1>d, <1>f, <1>g, <2>1, <2>4, <4>1 DEF IndInv, TypeOK
    <3>2. \A i, j \in DOMAIN waiters' : i < j => waiters'[i].id < waiters'[j].id
      BY <1>b, <1>f, <2>1, <2>2
    <3>3. ASSUME NEW u \in Task, waiterId'[u] # -1
          PROVE  \E i \in DOMAIN waiters' : waiters'[i].id = waiterId'[u] /\ waiters'[i].task = u
      <4>1. u # t /\ waiterId'[u] = waiterId[u]
        BY <2>1, <3>3 DEF IndInv, TypeOK
      <4>2. PICK i \in 1..Len(q) : q[i].id = waiterId[u] /\ q[i].task = u
        BY <1>e, <3>3, <4>1
      <4>3. i # 1 /\ i - 1 \in 1..(Len(q) - 1)
        BY <1>f, <2>4, <4>1, <4>2
      <4>4. waiters'[i - 1] = q[i] /\ i - 1 \in DOMAIN waiters'
        BY <1>f, <2>1, <2>2, <4>3
      <4> QED
        BY <4>1, <4>2, <4>4
    <3> QED
      BY <3>1, <3>2, <3>3 DEF QueueExact
  <2> QED
    BY <2>5, <2>6 DEF IndInv
<1>2. CASE ~WillIssue(t)
  <2>1. /\ waiters' = q
        /\ waiterId' = [waiterId EXCEPT ![t] = n]
        /\ UNCHANGED <<available, stage>>
    BY <1>2 DEF Poll
  <2> HIDE DEF q, n
  <2>2. TypeOK'
    BY <1>0, <1>a, <2>1 DEF IndInv, TypeOK, Waiter
  <2>3. QueueExact'
    <3>1. \A i \in DOMAIN waiters' :
                 /\ stage'[waiters'[i].task] = "pending"
                 /\ waiterId'[waiters'[i].task] = waiters'[i].id
                 /\ waiters'[i].id < nextId'
      BY <1>d, <1>f, <1>g, <2>1 DEF IndInv, TypeOK
    <3>2. \A i, j \in DOMAIN waiters' : i < j => waiters'[i].id < waiters'[j].id
      BY <1>b, <1>f, <2>1
    <3>3. ASSUME NEW u \in Task, waiterId'[u] # -1
          PROVE  \E i \in DOMAIN waiters' : waiters'[i].id = waiterId'[u] /\ waiters'[i].task = u
      <4>1. CASE u = t
        BY <1>f, <1>h, <2>1, <4>1 DEF IndInv, TypeOK
      <4>2. CASE u # t
        BY <1>e, <1>f, <2>1, <3>3, <4>2 DEF IndInv, TypeOK
      <4> QED
        BY <4>1, <4>2
    <3> QED
      BY <3>1, <3>2, <3>3 DEF QueueExact
  <2> QED
    BY <2>2, <2>3 DEF IndInv
<1> QED
  BY <1>1, <1>2

(* Dropping a PermitFuture takes its one entry out of the queue and keeps *)
(* the order of the others.                                               *)
LEMMA GiveUpStep == ASSUME IndInv, NEW t \in Task, GiveUp(t) PROVE IndInv'
<1>0. /\ stage[t] = "pending"
      /\ stage' = [stage EXCEPT ![t] = "idle"]
      /\ waiterId' = [waiterId EXCEPT ![t] = -1]
      /\ scheduled' = [scheduled EXCEPT ![t] = FALSE]
      /\ drops' = drops + 1
      /\ UNCHANGED <<available, nextId, acquires>>
  BY DEF GiveUp
<1>1. CASE /\ \A i \in DOMAIN waiters : waiters[i].id # waiterId[t]
           /\ UNCHANGED waiters
  <2>1. TypeOK'
    BY <1>0, <1>1 DEF IndInv, TypeOK
  <2>2. \A i \in 1..Len(waiters) : waiters[i].task # t
    BY <1>1, QueueFacts
  <2>3. QueueExact'
    BY <1>0, <1>1, <2>2, QueueFacts DEF IndInv, TypeOK, QueueExact
  <2> QED
    BY <2>1, <2>3 DEF IndInv
<1>2. ASSUME NEW k \in DOMAIN waiters,
             waiters[k].id = waiterId[t], waiters' = WithoutWaiter(k)
      PROVE  IndInv'
  <2>1. k \in 1..Len(waiters) /\ Len(waiters) \in Nat
    BY QueueFacts
  <2>2. waiters' = [j \in 1..(Len(waiters) - 1) |-> IF j < k THEN waiters[j] ELSE waiters[j + 1]]
    BY <1>2 DEF WithoutWaiter
  <2>3. ASSUME NEW j \in 1..(Len(waiters) - 1)
        PROVE  /\ waiters'[j] = IF j < k THEN waiters[j] ELSE waiters[j + 1]
               /\ j \in 1..Len(waiters) /\ j + 1 \in 1..Len(waiters)
               /\ waiters'[j] \in Waiter
    BY <2>1, <2>2, QueueFacts
  <2> DEFINE old(j) == IF j < k THEN j ELSE j + 1
  <2>old. ASSUME NEW j \in 1..(Len(waiters) - 1)
          PROVE  waiters'[j] = waiters[old(j)] /\ old(j) \in 1..Len(waiters) /\ old(j) # k
    <3>1. CASE j < k
      BY <2>1, <2>3, <3>1
    <3>2. CASE ~(j < k)
      BY <2>1, <2>3, <3>2
    <3> QED
      BY <3>1, <3>2
  <2>4. DOMAIN waiters' = 1..(Len(waiters) - 1) /\ waiters' \in Seq(Waiter)
    <3>1. waiters' \in [1..(Len(waiters) - 1) -> Waiter]
      BY <2>2, <2>3
    <3>2. Len(waiters) - 1 \in Nat
      BY <2>1
    <3> HIDE DEF Waiter
    <3> QED
      BY <3>1, <3>2, <2>2
  <2>5. TypeOK'
    BY <1>0, <2>4 DEF IndInv, TypeOK, Waiter
  <2>6. \A i \in 1..Len(waiters) : i # k => waiters[i].task # t
    BY <1>2, <2>1, QueueFacts
  <2>7. QueueExact'
    <3>1. ASSUME NEW i \in DOMAIN waiters'
          PROVE  /\ stage'[waiters'[i].task] = "pending"
                 /\ waiterId'[waiters'[i].task] = waiters'[i].id
                 /\ waiters'[i].id < nextId'
      <4>1. PICK j \in 1..Len(waiters) : j # k /\ waiters'[i] = waiters[j]
        BY <2>old, <2>4
      <4> QED
        BY <1>0, <2>6, <4>1, QueueFacts DEF IndInv, TypeOK
    <3>2. \A i, j \in DOMAIN waiters' : i < j => waiters'[i].id < waiters'[j].id
      <4>1. SUFFICES ASSUME NEW i \in 1..(Len(waiters) - 1), NEW j \in 1..(Len(waiters) - 1),
                            i < j
                     PROVE  waiters'[i].id < waiters'[j].id
        BY <2>4
      <4>2. old(i) < old(j)
        BY <2>1, <4>1
      <4>3. /\ waiters'[i] = waiters[old(i)] /\ old(i) \in 1..Len(waiters)
            /\ waiters'[j] = waiters[old(j)] /\ old(j) \in 1..Len(waiters)
        BY <2>old
      <4> HIDE DEF old
      <4> QED
        BY <4>2, <4>3, QueueFacts
    <3>3. ASSUME NEW u \in Task, waiterId'[u] # -1
          PROVE  \E i \in DOMAIN waiters' : waiters'[i].id = waiterId'[u] /\ waiters'[i].task = u
      <4>1. u # t /\ waiterId'[u] = waiterId[u] /\ waiterId[u] # -1
        BY <1>0, <3>3 DEF IndInv, TypeOK
      <4>2. PICK j \in 1..Len(waiters) : waiters[j].id = waiterId[u] /\ waiters[j].task = u
        BY <4>1, QueueFacts
      <4>3. j # k
        BY <1>2, <2>1, <4>1, <4>2, QueueFacts
      <4>4. CASE j < k
        <5>1. j \in 1..(Len(waiters) - 1) /\ waiters'[j] = waiters[j]
          BY <2>1, <2>3, <4>4
        <5> QED
          BY <2>4, <4>1, <4>2, <5>1
      <4>5. CASE j > k
        <5>1. j - 1 \in 1..(Len(waiters) - 1) /\ ~(j - 1 < k) /\ (j - 1) + 1 = j
          BY <2>1, <4>5
        <5>2. waiters'[j - 1] = waiters[j]
          BY <2>3, <5>1
        <5> QED
          BY <2>4, <4>1, <4>2, <5>1, <5>2
      <4> QED
        BY <2>1, <4>3, <4>4, <4>5
    <3> QED
      BY <3>1, <3>2, <3>3 DEF QueueExact
  <2> QED
    BY <2>5, <2>7 DEF IndInv
<1> QED
  BY <1>1, <1>2 DEF GiveUp

(* Every step of the semaphore preserves the invariant. *)
LEMMA IndInvStep == IndInv /\ [Next]_vars => IndInv'
<1> SUFFICES ASSUME IndInv, [Next]_vars PROVE IndInv'
  OBVIOUS
<1>1. CASE UNCHANGED vars
  BY <1>1 DEF vars, IndInv, TypeOK, QueueExact
<1>2. CASE Next
  BY <1>2, AcquireStep, PollStep, ReleaseStep, GiveUpStep DEF Next
<1> QED
  BY <1>1, <1>2

(* In every reachable state of the semaphore, whatever the order of polls, *)
(* releases and dropped futures, TypeOK and QueueExact hold.               *)
THEOREM IndInvHolds == Spec => []IndInv
  BY IndInvInit, IndInvStep, PTL DEF Spec

(* The variables keep their types: in particular no poll takes a permit    *)
(* that is not there and every notified task is a task.                    *)
THEOREM TypeCorrect == Spec => []TypeOK
  BY IndInvHolds, PTL DEF IndInv

(* The queue of Inner holds exactly the futures that believe to be in it,  *)
(* in the order in which they joined.                                      *)
THEOREM QueueAlwaysExact == Spec => []QueueExact
  BY IndInvHolds, PTL DEF IndInv

(* The holders before and after a step. *)
LEMMA HoldersFinite ==
    IsFiniteSet(Holders) /\ Cardinality(Holders) \in Nat
<1>1. Holders \subseteq Task
  BY DEF Holders
<1> QED
  BY <1>1, TaskAssumption, FS_Subset, FS_CardinalityType

(* AsyncSemaphore::new has all its permits and no holder. *)
LEMMA PermitsInit == Init => PermitsConserved
<1> SUFFICES ASSUME Init PROVE PermitsConserved
  OBVIOUS
<1>1. Holders = {}
  BY DEF Init, Holders
<1> QED
  BY <1>1, FS_EmptySet, CountAssumption DEF Init, PermitsConserved

(* Polls that are served and releases move one permit, the other steps     *)
(* none.                                                                   *)
LEMMA PermitsStep == IndInv /\ PermitsConserved /\ [Next]_vars => PermitsConserved'
<1> SUFFICES ASSUME IndInv, PermitsConserved, [Next]_vars PROVE PermitsConserved'
  OBVIOUS
<1>0. /\ stage \in [Task -> {"idle", "pending", "holding"}] /\ available \in Nat
      /\ available + Cardinality(Holders) = Permits
  BY DEF IndInv, TypeOK, PermitsConserved
<1>1. CASE UNCHANGED vars
  BY <1>0, <1>1 DEF vars, Holders, PermitsConserved
<1>2. ASSUME NEW t \in Task, stage[t] # "holding", available' = available - 1,
             stage' = [stage EXCEPT ![t] = "holding"]
      PROVE  PermitsConserved'
  <2>1. Holders' = Holders \cup {t} /\ t \notin Holders
    BY <1>0, <1>2 DEF Holders
  <2>2. Cardinality(Holders') = Cardinality(Holders) + 1
    BY <2>1, HoldersFinite, FS_AddElement
  <2> QED
    BY <1>0, <1>2, <2>2, HoldersFinite DEF PermitsConserved
<1>3. ASSUME NEW t \in Task, stage[t] = "holding", available' = available + 1,
             stage' = [stage EXCEPT ![t] = "idle"]
      PROVE  PermitsConserved'
  <2>1. Holders' = Holders \ {t} /\ t \in Holders
    BY <1>0, <1>3 DEF Holders
  <2>2. Cardinality(Holders') = Cardinality(Holders) - 1
    BY <2>1, HoldersFinite, FS_RemoveElement
  <2> QED
    BY <1>0, <1>3, <2>2, HoldersFinite DEF PermitsConserved
<1>4. ASSUME NEW t \in Task, NEW s \in {"idle", "pending"}, stage[t] # "holding",
             available' = available,
             stage' = [stage EXCEPT ![t] = s]
      PROVE  PermitsConserved'
  <2>1. Holders' = Holders
    BY <1>0, <1>4 DEF Holders
  <2> QED
    BY <1>0, <1>4, <2>1 DEF PermitsConserved
<1>5. ASSUME NEW t \in Task, Acquire(t) PROVE PermitsConserved'
  BY <1>4, <1>5 DEF Acquire
<1>6. ASSUME NEW t \in Task, Release(t) PROVE PermitsConserved'
  BY <1>3, <1>6 DEF Release
<1>7. ASSUME NEW t \in Task, GiveUp(t) PROVE PermitsConserved'
  BY <1>4, <1>7 DEF GiveUp
<1>8. ASSUME NEW t \in Task, Poll(t) PROVE PermitsConserved'
  <2>0. stage[t] = "pending"
    BY <1>8 DEF Poll
  <2>1. CASE WillIssue(t)
    BY <1>2, <1>8, <2>0, <2>1 DEF Poll
  <2>2. CASE ~WillIssue(t)
    <3>1. available' = available /\ Holders' = Holders
      BY <1>8, <2>2 DEF Poll, Holders
    <3> QED
      BY <1>0, <3>1 DEF PermitsConserved
  <2> QED
    BY <2>1, <2>2
<1> QED
  BY <1>1, <1>5, <1>6, <1>7, <1>8 DEF Next

(* Free and held permits always add up to those of AsyncSemaphore::new.    *)
THEOREM PermitsAlwaysConserved == Spec => []PermitsConserved
  BY IndInvHolds, PermitsInit, PermitsStep, PTL DEF Spec

(* Nobody waits for a new semaphore. *)
LEMMA WakeupInit == Init => NoLostWakeup
  BY DEF Init, NoLostWakeup

(* A release schedules the front of the queue; a poll that is not served   *)
(* while a permit is free leaves another task at the front.                *)
LEMMA WakeupStep == IndInv /\ NoLostWakeup /\ [Next]_vars => NoLostWakeup'
<1> SUFFICES ASSUME IndInv, NoLostWakeup, [Next]_vars,
                    drops' = 0, available' > 0, waiters' # <<>>
             PROVE  scheduled'[Head(waiters').task] \/ Holders' # {}
  BY DEF NoLostWakeup
<1>0. /\ stage \in [Task -> {"idle", "pending", "holding"}]
      /\ scheduled \in [Task -> BOOLEAN] /\ drops \in Nat
  BY DEF IndInv, TypeOK
<1>a. waiters # <<>> => /\ Head(waiters) = waiters[1] /\ Head(waiters) \in Waiter
                        /\ Len(waiters) >= 1 /\ Head(waiters).task \in Task
  BY QueueFacts
<1>1. CASE UNCHANGED vars
  BY <1>1 DEF vars, NoLostWakeup, Holders
<1>2. ASSUME NEW t \in Task, Acquire(t) PROVE scheduled'[Head(waiters').task] \/ Holders' # {}
  <2>1. CASE scheduled[Head(waiters).task]
    BY <1>0, <1>2, <1>a, <2>1 DEF Acquire
  <2>2. CASE Holders # {}
    BY <1>0, <1>2, <2>2 DEF Acquire, Holders
  <2> QED
    BY <1>2, <2>1, <2>2 DEF NoLostWakeup, Acquire
<1>3. ASSUME NEW t \in Task, Release(t) PROVE scheduled'[Head(waiters').task] \/ Holders' # {}
  BY <1>0, <1>3, <1>a DEF Release
<1>4. ASSUME NEW t \in Task, GiveUp(t) PROVE scheduled'[Head(waiters').task] \/ Holders' # {}
  BY <1>0, <1>4 DEF GiveUp
<1>5. ASSUME NEW t \in Task, Poll(t) PROVE scheduled'[Head(waiters').task] \/ Holders' # {}
  <2>0. stage[t] = "pending" /\ scheduled' = [scheduled EXCEPT ![t] = FALSE] /\ drops' = drops
    BY <1>5 DEF Poll
  <2>1. CASE WillIssue(t)
    <3>1. stage'[t] = "holding"
      BY <1>0, <1>5, <2>1 DEF Poll
    <3> QED
      BY <3>1 DEF Holders
  <2>2. CASE ~WillIssue(t)
    <3>1. waiters' = Joined(t) /\ available' = available /\ stage' = stage
      BY <1>5, <2>2 DEF Poll
    <3>2. Head(Joined(t)).id # IdAfterJoin(t)
      BY <2>2, <3>1 DEF WillIssue
    <3>3. waiters # <<>> /\ Head(Joined(t)) = Head(waiters)
      <4>1. CASE waiterId[t] = -1
        <5> DEFINE w == [id |-> nextId, task |-> t]
        <5>1. w \in Waiter /\ w.id = nextId
          BY DEF IndInv, TypeOK, Waiter
        <5>2. Joined(t) = Append(waiters, w) /\ IdAfterJoin(t) = nextId
          BY <4>1 DEF Joined, IdAfterJoin
        <5> HIDE DEF w
        <5>3. waiters = <<>> => Head(Append(waiters, w)) = w
          BY <5>1, QueueFacts
        <5>4. waiters # <<>>
          BY <3>2, <5>1, <5>2, <5>3
        <5> QED
          BY <5>1, <5>2, <5>4, <1>a, QueueFacts
      <4>2. CASE waiterId[t] # -1
        BY <3>1, <4>2 DEF Joined
      <4> QED
        BY <4>1, <4>2
    <3>4. Head(waiters).task # t
      <4> DEFINE q == Joined(t)
      <4>1. /\ q \in Seq(Waiter) /\ q # <<>>
            /\ \A i \in 1..Len(q) : q[i].task = t => q[i].id = IdAfterJoin(t)
        BY <2>0, JoinedShape
      <4>2. Head(q).id # IdAfterJoin(t) /\ Head(q) = Head(waiters)
        BY <3>2, <3>3
      <4> HIDE DEF q
      <4>3. Head(q) = q[1] /\ 1 \in 1..Len(q)
        BY <4>1
      <4> QED
        BY <4>1, <4>2, <4>3
    <3>5. scheduled[Head(waiters).task] \/ Holders # {}
      BY <2>0, <3>1, <3>3 DEF NoLostWakeup
    <3>6. CASE scheduled[Head(waiters).task]
      BY <1>0, <1>a, <2>0, <3>1, <3>3, <3>4, <3>6
    <3>7. CASE Holders # {}
      BY <3>1, <3>7 DEF Holders
    <3> QED
      BY <3>5, <3>6, <3>7
  <2> QED
    BY <2>1, <2>2
<1> QED
  BY <1>1, <1>2, <1>3, <1>4, <1>5 DEF Next

(* While nobody has given up, a free permit is never left with a queue     *)
(* whose front nobody will poll: no notification is lost.                  *)
THEOREM NoWakeupLost == Spec => []NoLostWakeup
  BY IndInvHolds, WakeupInit, WakeupStep, PTL DEF Spec

(* A task is served in the order in which the tasks queued.                *)
THEOREM ServedInOrder == Spec => FirstComeFirstServed
<1> DEFINE InOrder == \A t, u \in Task :
          stage[t] = "pending" /\ stage'[t] = "holding" /\ waiterId[u] # -1 /\ u # t
          => waiterId[t] # -1 /\ waiterId[t] < waiterId[u]
<1>1. ASSUME IndInv, Next, NEW t \in Task, NEW u \in Task,
             stage[t] = "pending", stage'[t] = "holding", waiterId[u] # -1, u # t
      PROVE  waiterId[t] # -1 /\ waiterId[t] < waiterId[u]
  <2>1. stage \in [Task -> {"idle", "pending", "holding"}]
    BY <1>1 DEF IndInv, TypeOK
  <2>2. Poll(t) /\ WillIssue(t)
    BY <1>1, <2>1 DEF Next, Acquire, Release, GiveUp, Poll
  <2>3. PICK j \in 1..Len(waiters) : waiters[j].id = waiterId[u] /\ waiters[j].task = u
    BY <1>1, QueueFacts
  <2>4. waiterId[t] # -1
    <3>1. SUFFICES ASSUME waiterId[t] = -1 PROVE FALSE
      OBVIOUS
    <3>2. Joined(t) = Append(waiters, [id |-> nextId, task |-> t]) /\ IdAfterJoin(t) = nextId
      BY <3>1 DEF Joined, IdAfterJoin
    <3>3. Head(waiters) = waiters[1] /\ Len(waiters) >= 1 /\ waiters # <<>>
      BY <1>1, <2>3, QueueFacts
    <3>4. Head(Joined(t)) = waiters[1]
      <4> DEFINE w == [id |-> nextId, task |-> t]
      <4>1. w \in Waiter
        BY <1>1 DEF IndInv, TypeOK, Waiter
      <4>2. Joined(t) = Append(waiters, w)
        BY <3>2
      <4> HIDE DEF w
      <4> QED
        BY <1>1, <3>3, <4>1, <4>2, QueueFacts
    <3>5. waiters[1].id = nextId
      BY <2>2, <3>2, <3>4 DEF WillIssue
    <3> QED
      BY <1>1, <3>3, <3>5, QueueFacts DEF IndInv, TypeOK
  <2>5. Joined(t) = waiters /\ IdAfterJoin(t) = waiterId[t]
    BY <2>4 DEF Joined, IdAfterJoin
  <2>6. Head(waiters) = waiters[1] /\ Len(waiters) >= 1
    BY <1>1, <2>3, QueueFacts
  <2>7. waiters[1].id = waiterId[t]
    BY <2>2, <2>5, <2>6 DEF WillIssue
  <2>8. waiterId[t] # waiterId[u]
    <3>1. PICK i \in 1..Len(waiters) : waiters[i].id = waiterId[t] /\ waiters[i].task = t
      BY <1>1, <2>4, QueueFacts
    <3>2. i # j
      BY <1>1, <2>3, <3>1
    <3> QED
      BY <1>1, <2>3, <3>1, <3>2, QueueFacts
  <2>9. j # 1
    BY <2>3, <2>7, <2>8
  <2> QED
    BY <1>1, <2>3, <2>4, <2>6, <2>7, <2>9, QueueFacts
<1>2. IndInv /\ [Next]_vars => [InOrder]_vars
  BY <1>1
<1>3. Spec => [][InOrder]_vars
  <2> HIDE DEF InOrder
  <2> QED
    BY <1>2, IndInvHolds, PTL DEF Spec
<1> QED
  BY <1>3 DEF FirstComeFirstServed

=============================================================================
