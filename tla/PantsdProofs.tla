---------------------------- MODULE PantsdProofs ----------------------------
(***************************************************************************)
(* Proofs about the daemon.  Its requests are handled one at a time and no *)
(* change of a file is lost, for every number of requests, services,       *)
(* files, events and failures, whatever the time limits.  In the session   *)
(* of a request nobody reads from a socket that is shut down, and the      *)
(* client has the output before it has the exit code, for every amount of  *)
(* output and every size of the pipes and the socket, but for what was     *)
(* left in a pipe that the writer overlooked.                              *)
(***************************************************************************)
EXTENDS PantsServices, NailgunSession, TLAPS

Where ==
  {"absent", "backlog", "accepted", "polling"} \cup Handling \cup Ended

RequestType ==
  /\ request \in [Request -> Where]
  /\ available \in BOOLEAN

AloneInv == RequestType /\ HandledAlone

\* The request threads and the lock are where they were.
Same == UNCHANGED <<request, available>> /\ (main' # "exited" => main # "exited")

LEMMA SameStep == ASSUME AloneInv, Same PROVE AloneInv'
  BY DEF AloneInv, RequestType, HandledAlone, Same

\* A request moves and neither gets nor gives back the lock.
LEMMA MoveStep ==
    ASSUME AloneInv, NEW r \in Request, NEW w \in Where,
           request' = [request EXCEPT ![r] = w],
           (request[r] \in Handling) <=> (w \in Handling),
           available' = available, main' # "exited" => main # "exited"
    PROVE  AloneInv'
<1>1. RequestType'
  BY DEF AloneInv, RequestType
<1>2. \A q \in Request : (request'[q] \in Handling) <=> (request[q] \in Handling)
  BY DEF AloneInv, RequestType
<1> QED
  BY <1>1, <1>2 DEF AloneInv, HandledAlone

\* A request gets the lock, which was available.
LEMMA GetStep ==
    ASSUME AloneInv, NEW r \in Request, available, main # "exited",
           request' = [request EXCEPT ![r] = "handling"],
           available' = FALSE, main' = main
    PROVE  AloneInv'
<1>1. RequestType' /\ \A q \in Request : request[q] \notin Handling
  BY DEF AloneInv, RequestType, HandledAlone, Where, Handling
<1>2. \A q \in Request : (request'[q] \in Handling) <=> (q = r)
  BY <1>1 DEF AloneInv, RequestType, Handling
<1> QED
  BY <1>1, <1>2 DEF AloneInv, HandledAlone

\* The request that holds the lock ends and gives it back.
LEMMA GiveStep ==
    ASSUME AloneInv, NEW r \in Request, request[r] \in Handling, main # "exited",
           NEW w \in Ended, request' = [request EXCEPT ![r] = w],
           available' = TRUE
    PROVE  AloneInv'
<1>1. w \notin Handling /\ w \in Where
  BY DEF Where, Handling, Ended
<1>2. RequestType'
  BY <1>1 DEF AloneInv, RequestType
<1>3. \A q \in Request : request'[q] \notin Handling
  BY <1>1 DEF AloneInv, RequestType, HandledAlone
<1> QED
  BY <1>2, <1>3 DEF AloneInv, HandledAlone

LEMMA MainStep == ASSUME AloneInv, Main PROVE AloneInv'
<1>1. CASE Setup
  BY <1>1, SameStep DEF Setup, requestVars, Same
<1>2. CASE WritePid
  BY <1>2, SameStep DEF WritePid, requestVars, Same
<1>3. CASE Monitor
  BY <1>3, SameStep DEF Monitor, requestVars, Same
<1>4. CASE Shutdown
  BY <1>4, SameStep DEF Shutdown, requestVars, Same
<1>5. CASE ProcessExits
  <2>1. \A r \in Request : request'[r] \in Where
    BY <1>5 DEF ProcessExits, AloneInv, RequestType, Where, Ended
  <2> QED
    BY <1>5, <2>1 DEF ProcessExits, AloneInv, RequestType, HandledAlone
<1> QED
  BY <1>1, <1>2, <1>3, <1>4, <1>5 DEF Main

LEMMA ServiceStep ==
    ASSUME AloneInv, Fs \/ ProcessEventQueue \/ \E s \in Services : ServiceStops(s) \/ ServiceRaises(s)
    PROVE  AloneInv'
<1>1. Same
  BY DEF Fs, Watch, Receive, Enqueue, ProcessEventQueue, ServiceStops, ServiceRaises,
         requestVars, daemonVars, Same
<1> QED
  BY <1>1, SameStep

LEMMA EnvironmentStep ==
    ASSUME AloneInv, (\E f \in File : Edit(f)) \/ OtherDaemon PROVE AloneInv'
<1>1. Same
  BY DEF Edit, OtherDaemon, requestVars, daemonVars, Same
<1> QED
  BY <1>1, SameStep

LEMMA ArrivalStep ==
    ASSUME AloneInv, NEW r \in Request, Connect(r) \/ Accept(r) PROVE AloneInv'
<1>1. CASE Connect(r)
  BY <1>1, MoveStep DEF Connect, daemonVars, Where, Handling
<1>2. CASE Accept(r)
  BY <1>2, MoveStep DEF Accept, daemonVars, Where, Handling
<1> QED
  BY <1>1, <1>2

LEMMA RequestStep ==
    ASSUME AloneInv, NEW r \in Request,
           RequestThread(r) \/ (main # "exited" /\ RequestRaises(r))
    PROVE  AloneInv'
<1>0. main # "exited" /\ available \in BOOLEAN
  BY DEF RequestThread, AloneInv, RequestType
<1>1. CASE TryAcquire(r)
  <2>1. CASE available /\ available' = FALSE /\ Goto(r, "handling")
    BY <1>0, <1>1, <2>1, GetStep DEF TryAcquire, Goto, daemonVars
  <2>2. CASE Goto(r, "polling") /\ UNCHANGED available
    BY <1>1, <2>2, MoveStep DEF TryAcquire, Goto, daemonVars, Where, Handling
  <2> QED
    BY <1>1, <2>1, <2>2 DEF TryAcquire
<1>2. CASE Poll(r)
  <2>1. CASE available /\ available' = FALSE /\ Goto(r, "handling")
    BY <1>0, <1>2, <2>1, GetStep DEF Poll, Goto, daemonVars
  <2>2. CASE UNCHANGED available /\ Goto(r, IF polled[r] + 1 < PollLimit[r] THEN "polling" ELSE "timedout")
    BY <1>2, <2>2, MoveStep DEF Poll, Goto, daemonVars, Where, Handling, Ended
  <2> QED
    BY <1>2, <2>1, <2>2 DEF Poll
<1>3. CASE Body(r)
  BY <1>3, MoveStep DEF Body, BodyOf, Goto, daemonVars, Where, Handling
<1>4. CASE LoopWaits(r)
  BY <1>4, MoveStep DEF LoopWaits, Goto, daemonVars, Where, Handling
<1>5. CASE LoopWakes(r)
  BY <1>5, MoveStep DEF LoopWakes, Goto, daemonVars, Where, Handling
<1>6. CASE Complete(r)
  BY <1>0, <1>6, GiveStep DEF Complete, Goto, Handling, Ended
<1>7. CASE RequestRaises(r)
  <2>1. CASE request[r] \in Handling
    BY <1>0, <1>7, <2>1, GiveStep DEF RequestRaises, Goto, Ended
  <2>2. CASE request[r] \notin Handling
    BY <1>0, <1>7, <2>2, MoveStep DEF RequestRaises, Goto, Where, Handling, Ended
  <2> QED
    BY <2>1, <2>2
<1> QED
  BY <1>1, <1>2, <1>3, <1>4, <1>5, <1>6, <1>7 DEF RequestThread

\* PailgunServer.ensure_request_is_exclusive: at most one request is handled at any time, and
\* the lock is available exactly when none is, however requests end and for any number of them.
THEOREM AlwaysHandledAlone == Spec => []HandledAlone
<1>1. Init => AloneInv
  BY DEF Init, AloneInv, RequestType, HandledAlone, Where, Handling
<1>2. AloneInv /\ [Next]_vars => AloneInv'
  <2> SUFFICES ASSUME AloneInv, [Next]_vars PROVE AloneInv'
    OBVIOUS
  <2>1. CASE UNCHANGED vars
    BY <2>1, SameStep DEF vars, requestVars, daemonVars, Same
  <2>2. CASE Next
    BY <2>2, MainStep, ServiceStep, EnvironmentStep, ArrivalStep, RequestStep DEF Next
  <2> QED
    BY <2>1, <2>2
<1>3. AloneInv => HandledAlone
  BY DEF AloneInv
<1> QED
  BY <1>1, <1>2, <1>3, PTL DEF Spec

-----------------------------------------------------------------------------
(***************************************************************************)
(* No change is lost, for every number of files, edits, requests and       *)
(* events, and every size of the queue.                                    *)
(*                                                                         *)
(* SettledIsFresh speaks of the states in which nothing is on its way.  It *)
(* rests on FreshInv: a file whose version in the graph is not the one on  *)
(* disk is named by something on its way, and while nothing is watched the *)
(* graph holds nothing but the invalidating file.  The latter needs that   *)
(* a build waits for the first event, as the graph is never empty.         *)
(***************************************************************************)

Events ==
  [subscription : {"none", "all_files", "pantsd_pid"}, initial : BOOLEAN, files : SUBSET File]

Sources == File \ {InvalidatingFile}

FreshType ==
  /\ disk \in [File -> Nat \ {0}] /\ graph \in [File -> Nat]
  /\ event \in Events /\ queue \in Seq(Events)
  /\ watched \in BOOLEAN /\ watchmanIsRunning \in BOOLEAN

Invalidates(e, f) == e.subscription = "all_files" /\ ~e.initial /\ f \in e.files

OnItsWay(f) ==
  \/ f \in changes \/ Invalidates(event, f)
  \/ \E i \in 1 .. Len(queue) : Invalidates(queue[i], f)

StaleIsOnItsWay == \A f \in Sources : graph[f] \in {NoVersion, disk[f]} \/ OnItsWay(f)

WatchInv ==
  /\ ~watched => /\ changes = {} /\ event = NoEvent /\ queue = <<>> /\ ~watchmanIsRunning
                 /\ \A f \in Sources : graph[f] = NoVersion
  /\ main = "setup" => \A r \in Request : request[r] = "absent"
  /\ main # "setup" => graph[InvalidatingFile] # NoVersion

FreshInv == FreshType /\ StaleIsOnItsWay /\ WatchInv

LEMMA FreshInit == Init => FreshInv
<1> SUFFICES ASSUME Init PROVE FreshInv
  OBVIOUS
<1>1. event \in Events /\ queue \in Seq(Events)
  BY DEF Init, NoEvent, Events
<1>2. InvalidatingFile \in File /\ graph = [f \in File |-> 0] /\ NoVersion = 0
  BY ServicesAssumption DEF Init, NoVersion
<1>3. FreshType
  <2>1. graph \in [File -> Nat] /\ disk \in [File -> Nat \ {0}]
    BY <1>2 DEF Init
  <2>2. QED
    BY <1>1, <2>1 DEF Init, FreshType
<1>4. StaleIsOnItsWay
  BY <1>2 DEF StaleIsOnItsWay, Sources
<1>5. WatchInv
  BY <1>2 DEF Init, WatchInv, Sources
<1>6. QED
  BY <1>3, <1>4, <1>5 DEF FreshInv

\* Steps that touch neither files, events nor the graph.
LEMMA SameFresh ==
  ASSUME FreshInv, UNCHANGED <<disk, graph, event, queue, watched, watchmanIsRunning>>,
         changes \subseteq changes', watched \/ changes' = changes,
         main' = "setup" => main = "setup" /\ request' = request,
         main = "setup" => main' = "setup"
  PROVE  FreshInv'
<1>1. FreshType'
  BY DEF FreshInv, FreshType
<1>2. StaleIsOnItsWay'
  BY DEF FreshInv, StaleIsOnItsWay, OnItsWay
<1>3. WatchInv'
  BY DEF FreshInv, WatchInv
<1>4. QED
  BY <1>1, <1>2, <1>3 DEF FreshInv

LEMMA EditFresh == ASSUME FreshInv, NEW f \in File, Edit(f) PROVE FreshInv'
<1>1. /\ disk' = [disk EXCEPT ![f] = @ + 1] /\ changes' = IF watched THEN changes \cup {f} ELSE changes
      /\ UNCHANGED <<main, request, watched, event, queue, graph, watchmanIsRunning>>
  BY DEF Edit, Report, daemonVars, requestVars
<1>2. FreshType'
  BY <1>1 DEF FreshInv, FreshType
<1>3. StaleIsOnItsWay'
  <2> SUFFICES ASSUME NEW g \in Sources PROVE graph'[g] \in {NoVersion, disk'[g]} \/ OnItsWay(g)'
    BY DEF StaleIsOnItsWay
  <2>1. OnItsWay(g) => OnItsWay(g)'
    BY <1>1 DEF OnItsWay
  <2>2. CASE g # f
    BY <1>1, <2>1, <2>2 DEF FreshInv, FreshType, StaleIsOnItsWay, Sources
  <2>3. CASE g = f /\ watched
    BY <1>1, <2>3 DEF OnItsWay
  <2>4. CASE ~watched
    BY <1>1, <2>4 DEF FreshInv, WatchInv
  <2>5. QED
    BY <2>2, <2>3, <2>4
<1>4. WatchInv'
  BY <1>1 DEF FreshInv, WatchInv
<1>5. QED
  BY <1>2, <1>3, <1>4 DEF FreshInv

LEMMA SetupFresh == ASSUME FreshInv, Setup PROVE FreshInv'
<1>1. /\ graph' = [graph EXCEPT ![InvalidatingFile] = disk[InvalidatingFile]]
      /\ main = "setup" /\ main' = "start"
      /\ UNCHANGED <<disk, changes, watched, event, queue, watchmanIsRunning>>
  BY DEF Setup
<1>2. InvalidatingFile \in File /\ disk[InvalidatingFile] \in Nat \ {0} /\ graph \in [File -> Nat]
  BY ServicesAssumption DEF FreshInv, FreshType
<1>3. FreshType'
  BY <1>1, <1>2 DEF FreshInv, FreshType
<1>4. \A f \in Sources : graph'[f] = graph[f]
  BY <1>1, <1>2 DEF Sources
<1>5. StaleIsOnItsWay'
  BY <1>1, <1>4 DEF FreshInv, StaleIsOnItsWay, OnItsWay
<1>6. WatchInv'
  BY <1>1, <1>2, <1>4 DEF FreshInv, WatchInv, NoVersion
<1>7. QED
  BY <1>3, <1>5, <1>6 DEF FreshInv

\* The watch begins with an empty graph: nothing that was read before it can be stale.
LEMMA WatchFresh == ASSUME FreshInv, Watch PROVE FreshInv'
<1>1. ~watched /\ watched' = TRUE /\ UNCHANGED <<main, request, disk, event, queue, graph, watchmanIsRunning>>
  BY DEF Watch, daemonVars, requestVars
<1>2. FreshType'
  BY <1>1 DEF FreshInv, FreshType
<1>3. StaleIsOnItsWay'
  BY <1>1 DEF FreshInv, WatchInv, StaleIsOnItsWay
<1>4. WatchInv'
  BY <1>1 DEF FreshInv, WatchInv
<1>5. QED
  BY <1>2, <1>3, <1>4 DEF FreshInv

LEMMA ReceiveFresh == ASSUME FreshInv, Receive PROVE FreshInv'
<1>1. event = NoEvent /\ UNCHANGED <<main, request, disk, watched, queue, graph, watchmanIsRunning>>
  BY DEF Receive, daemonVars, requestVars
<1>2. event' \in Events
  <2>1. /\ [subscription |-> "all_files", initial |-> TRUE, files |-> File] \in Events
        /\ [subscription |-> "all_files", initial |-> FALSE, files |-> changes \cap File] \in Events
        /\ [subscription |-> "pantsd_pid", initial |-> FALSE, files |-> {}] \in Events
    BY DEF Events
  <2>2. QED
    BY <2>1 DEF Receive
<1>3. FreshType'
  BY <1>1, <1>2 DEF FreshInv, FreshType
<1>4. \A f \in File : OnItsWay(f) => OnItsWay(f)'
  <2> TAKE f \in File
  <2> HAVE OnItsWay(f)
  <2>1. CASE \E i \in 1 .. Len(queue) : Invalidates(queue[i], f)
    BY <1>1, <2>1 DEF OnItsWay
  <2>2. CASE Invalidates(event, f)
    BY <1>1, <2>2 DEF Invalidates, NoEvent
  <2>3. CASE f \in changes
    <3>1. f # "initial" /\ f # "pid"
      BY ServicesAssumption
    <3>2. f \in changes' \/ Invalidates(event', f)
      BY <2>3, <3>1 DEF Receive, Invalidates
    <3>3. QED
      BY <3>2 DEF OnItsWay
  <2>4. QED
    BY <2>1, <2>2, <2>3 DEF OnItsWay
<1>5. StaleIsOnItsWay'
  BY <1>1, <1>4 DEF FreshInv, StaleIsOnItsWay, Sources
<1>6. watched
  <2>1. changes # {}
    BY DEF Receive
  <2>2. QED
    BY <2>1 DEF FreshInv, WatchInv
<1>7. WatchInv'
  BY <1>1, <1>6 DEF FreshInv, FreshType, WatchInv
<1>8. QED
  BY <1>3, <1>5, <1>7 DEF FreshInv

LEMMA EnqueueFresh == ASSUME FreshInv, Enqueue PROVE FreshInv'
<1>1. /\ event # NoEvent /\ queue' = Append(queue, event) /\ event' = NoEvent
      /\ UNCHANGED <<main, request, disk, watched, changes, graph, watchmanIsRunning>>
  BY DEF Enqueue, daemonVars, requestVars
<1>2. event \in Events /\ queue \in Seq(Events) /\ NoEvent \in Events
  BY DEF FreshInv, FreshType, NoEvent, Events
<1>3. FreshType'
  BY <1>1, <1>2 DEF FreshInv, FreshType
<1>4. \A f \in File : OnItsWay(f) => OnItsWay(f)'
  <2> TAKE f \in File
  <2> HAVE OnItsWay(f)
  <2>1. /\ Len(queue) \in Nat /\ Len(queue') = Len(queue) + 1 /\ queue'[Len(queue) + 1] = event
        /\ \A i \in 1 .. Len(queue) : queue'[i] = queue[i]
    BY <1>1, <1>2
  <2>2. CASE \E i \in 1 .. Len(queue) : Invalidates(queue[i], f)
    BY <2>1, <2>2 DEF OnItsWay
  <2>3. CASE Invalidates(event, f)
    BY <2>1, <2>3 DEF OnItsWay
  <2>4. QED
    BY <1>1, <2>2, <2>3 DEF OnItsWay
<1>5. StaleIsOnItsWay'
  BY <1>1, <1>4 DEF FreshInv, StaleIsOnItsWay, Sources
<1>6. WatchInv'
  BY <1>1 DEF FreshInv, WatchInv
<1>7. QED
  BY <1>3, <1>5, <1>6 DEF FreshInv

\* The event that leaves the queue takes the files it names out of the graph.
LEMMA EventFresh == ASSUME FreshInv, ProcessEventQueue PROVE FreshInv'
<1> DEFINE e == Head(queue)
<1>1. /\ queue # <<>> /\ queue' = Tail(queue)
      /\ UNCHANGED <<main, disk, watched, changes, event, request>>
      /\ watchmanIsRunning' = (watchmanIsRunning \/ "sched" \in alive')
      /\ \/ e.subscription = "all_files" /\ ~e.initial /\ HandleBatchEvent(e.files)
         \/ ~(e.subscription = "all_files" /\ ~e.initial) /\ graph' = graph
  BY DEF ProcessEventQueue, CheckPid
<1>2. /\ queue \in Seq(Events) /\ queue' \in Seq(Events) /\ Len(queue) \in Nat /\ Len(queue) >= 1
      /\ e = queue[1] /\ e \in Events /\ Len(queue') = Len(queue) - 1
      /\ \A i \in 1 .. Len(queue') : queue'[i] = queue[i + 1]
  BY <1>1 DEF FreshInv, FreshType
<1>3. InvalidatingFile \in File /\ graph \in [File -> Nat] /\ disk \in [File -> Nat \ {0}]
  BY ServicesAssumption DEF FreshInv, FreshType
<1>4. /\ graph' \in [File -> Nat]
      /\ \A f \in Sources : graph'[f] = IF Invalidates(e, f) THEN NoVersion ELSE graph[f]
      /\ graph[InvalidatingFile] # NoVersion => graph'[InvalidatingFile] # NoVersion
  <2>1. CASE ~(e.subscription = "all_files" /\ ~e.initial) /\ graph' = graph
    BY <1>3, <2>1 DEF Invalidates
  <2>2. CASE e.subscription = "all_files" /\ ~e.initial /\ HandleBatchEvent(e.files)
    <3> DEFINE left == [f \in File |-> IF f \in e.files THEN NoVersion ELSE graph[f]]
               g == IF left[InvalidatingFile] = NoVersion THEN disk[InvalidatingFile]
                    ELSE left[InvalidatingFile]
    <3>1. graph' = [left EXCEPT ![InvalidatingFile] = g]
      BY <2>2 DEF HandleBatchEvent
    <3>2. left \in [File -> Nat] /\ NoVersion = 0
      BY <1>3 DEF NoVersion
    <3>3. g \in Nat /\ g # NoVersion
      BY <1>3, <3>2
    <3> HIDE DEF g
    <3>4. graph'[InvalidatingFile] = g /\ \A f \in Sources : graph'[f] = left[f]
      BY <1>3, <3>1, <3>2 DEF Sources
    <3>5. \A f \in Sources : Invalidates(e, f) <=> f \in e.files
      BY <2>2 DEF Invalidates
    <3>6. graph' \in [File -> Nat]
      BY <3>1, <3>2, <3>3
    <3>7. QED
      BY <3>3, <3>4, <3>5, <3>6 DEF Sources
  <2>3. QED
    BY <1>1, <2>1, <2>2
<1>5. FreshType'
  BY <1>1, <1>2, <1>4 DEF FreshInv, FreshType
<1>6. StaleIsOnItsWay'
  <2> SUFFICES ASSUME NEW f \in Sources, ~Invalidates(e, f), graph[f] \notin {NoVersion, disk[f]}
               PROVE  OnItsWay(f)'
    BY <1>1, <1>4 DEF StaleIsOnItsWay, FreshInv
  <2>1. OnItsWay(f)
    BY DEF FreshInv, StaleIsOnItsWay
  <2>2. CASE f \in changes \/ Invalidates(event, f)
    BY <1>1, <2>2 DEF OnItsWay
  <2>3. ASSUME NEW i \in 1 .. Len(queue), Invalidates(queue[i], f) PROVE OnItsWay(f)'
    <3>1. i # 1
      BY <1>2, <2>3
    <3>2. i - 1 \in 1 .. Len(queue') /\ queue'[i - 1] = queue[i]
      BY <1>2, <3>1
    <3>3. QED
      BY <2>3, <3>2 DEF OnItsWay
  <2>4. QED
    BY <2>1, <2>2, <2>3 DEF OnItsWay
<1>7. WatchInv'
  BY <1>1, <1>4 DEF FreshInv, WatchInv
<1>8. QED
  BY <1>5, <1>6, <1>7 DEF FreshInv

\* A build reads what is not in the graph; by then the watch has begun.
LEMMA BodyFresh == ASSUME FreshInv, NEW r \in Request, Body(r) PROVE FreshInv'
<1>1. /\ graph' = [f \in File |-> IF graph[f] = NoVersion THEN disk[f] ELSE graph[f]]
      /\ request[r] = "handling"
      /\ UNCHANGED <<main, disk, watched, changes, event, queue, watchmanIsRunning>>
      /\ (\E f \in File : graph[f] # NoVersion) => watchmanIsRunning
  BY DEF Body, BodyOf, daemonVars
<1>2. main # "setup" /\ watched
  BY <1>1, ServicesAssumption DEF FreshInv, WatchInv
<1>3. FreshType'
  BY <1>1 DEF FreshInv, FreshType
<1>4. StaleIsOnItsWay'
  BY <1>1 DEF FreshInv, FreshType, StaleIsOnItsWay, OnItsWay, Sources
<1>5. WatchInv'
  BY <1>1, <1>2, ServicesAssumption DEF FreshInv, FreshType, WatchInv, NoVersion
<1>6. QED
  BY <1>3, <1>4, <1>5 DEF FreshInv

LEMMA OtherFresh ==
  ASSUME FreshInv,
         \/ WritePid \/ Monitor \/ Shutdown \/ ProcessExits \/ OtherDaemon
         \/ \E s \in Services : ServiceStops(s) \/ ServiceRaises(s)
         \/ UNCHANGED vars
  PROVE  FreshInv'
<1>1. UNCHANGED <<disk, graph, event, queue, watched, watchmanIsRunning>>
  BY DEF WritePid, Monitor, Shutdown, ProcessExits, OtherDaemon, ServiceStops, ServiceRaises, vars, fsVars
<1>2. changes \subseteq changes' /\ (watched \/ changes' = changes)
  BY DEF WritePid, Monitor, Shutdown, ProcessExits, OtherDaemon, ServiceStops, ServiceRaises, vars,
         fsVars, Report
<1>3. (main = "setup" => main' = "setup") /\ (main' = "setup" => main = "setup" /\ request' = request)
  BY DEF WritePid, Monitor, Shutdown, ProcessExits, OtherDaemon, ServiceStops, ServiceRaises, vars,
         daemonVars,
         requestVars
<1>4. QED
  BY <1>1, <1>2, <1>3, SameFresh

LEMMA RequestFresh ==
  ASSUME FreshInv, NEW r \in Request,
         \/ Connect(r) \/ Accept(r) \/ TryAcquire(r) \/ Poll(r) \/ LoopWaits(r) \/ LoopWakes(r) \/ Complete(r)
         \/ RequestRaises(r)
  PROVE  FreshInv'
<1>1. main # "setup" /\ main' = main
  BY DEF FreshInv, WatchInv, Connect, Accept, TryAcquire, Poll, LoopWaits, LoopWakes, Complete, RequestRaises,
         daemonVars, Handling
<1>2. UNCHANGED fsVars
  BY DEF Connect, Accept, TryAcquire, Poll, LoopWaits, LoopWakes, Complete, RequestRaises
<1>3. QED
  BY <1>1, <1>2, SameFresh DEF fsVars

LEMMA FreshStep == FreshInv /\ [Next]_vars => FreshInv'
<1> SUFFICES ASSUME FreshInv, [Next]_vars PROVE FreshInv'
  OBVIOUS
<1>1. CASE Main
  BY <1>1, SetupFresh, OtherFresh DEF Main
<1>2. CASE Fs
  BY <1>2, WatchFresh, ReceiveFresh, EnqueueFresh DEF Fs
<1>3. ASSUME NEW r \in Request, Connect(r) \/ Accept(r) \/ RequestThread(r) \/ RequestRaises(r)
      PROVE  FreshInv'
  BY <1>3, BodyFresh, RequestFresh DEF RequestThread
<1>4. QED
  BY <1>1, <1>2, <1>3, EventFresh, EditFresh, OtherFresh DEF Next

\* FSEventService and SchedulerService: no change is lost on its way from watchman to the graph,
\* nor by a build that begins while the watch is being set up: once all events have been applied
\* the graph holds what is on disk, or nothing.
THEOREM NoChangeIsLost == Spec => []SettledIsFresh
<1>1. FreshInv => SettledIsFresh
  <2> SUFFICES ASSUME FreshInv, Settled, NEW f \in Sources PROVE graph[f] \in {NoVersion, disk[f]}
    BY DEF SettledIsFresh, Sources
  <2>1. ~OnItsWay(f)
    BY DEF Settled, OnItsWay, Invalidates, NoEvent
  <2>2. QED
    BY <2>1 DEF FreshInv, StaleIsOnItsWay
<1>2. QED
  BY <1>1, FreshInit, FreshStep, PTL DEF Spec

-----------------------------------------------------------------------------
(***************************************************************************)
(* The session of one request.                                             *)
(***************************************************************************)
\* The reader polls exactly while it holds the lock: so whoever finds the lock free and shuts
\* the socket down does not do so under a reader.
LockInv ==
  /\ (reader = "polling") <=> (lock # "free")
  /\ runner \in {"pid", "input"} => reader = "off"
  /\ NoReadAfterShutdown

LEMMA SameSessionStep ==
    ASSUME LockInv, UNCHANGED <<reader, lock, isShutdown>>,
           runner' = runner \/ runner' \notin {"pid", "input"}
    PROVE  LockInv'
  BY DEF LockInv, NoReadAfterShutdown

LEMMA DiesStep == ASSUME DaemonDies PROVE LockInv'
  BY DEF LockInv, NoReadAfterShutdown, DaemonDies

\* DaemonExiter.exit and the other sends take the lock.
LEMMA SendStep ==
    ASSUME LockInv, NEW from, NEW chunk, NEW to, SendLocked(from, chunk, to),
           from = "pid" \/ to \notin {"pid", "input"}
    PROVE  LockInv'
  BY DEF LockInv, NoReadAfterShutdown, SendLocked, clientVars

LEMMA RunnerStep == ASSUME LockInv, Runner PROVE LockInv'
<1>1. CASE SendPid \/ SendStart \/ SendError \/ SendExit
  BY <1>1, SendStep DEF SendPid, SendStart, SendError, SendExit
<1>2. CASE OpenInput
  <2>1. lock' = lock /\ isShutdown' = isShutdown /\ reader' = "idle"
    BY <1>2 DEF OpenInput
  <2> QED
    BY <1>2, <2>1 DEF OpenInput, LockInv, NoReadAfterShutdown
<1>3. CASE OpenOutput \/ (\E s \in Stream : Write(s)) \/ Flush \/ RunEnds \/ StopWriting \/ Join \/ Close
  <2>1. UNCHANGED <<reader, lock, isShutdown>> /\ (runner' = runner \/ runner' \notin {"pid", "input"})
    BY <1>3 DEF OpenOutput, Write, Flush, RunEnds, StopWriting, Join, Close, readerVars
  <2> QED
    BY <2>1, SameSessionStep
<1> QED
  BY <1>1, <1>2, <1>3 DEF Runner

LEMMA WriterStep == ASSUME LockInv, Writer PROVE LockInv'
<1>1. UNCHANGED <<reader, lock, isShutdown, runner>>
  BY DEF Writer, Select, DropPipes, ReadPipe, SendPiece, SendRaises, readerVars, runVars
<1> QED
  BY <1>1, SameSessionStep

LEMMA ReaderStep == ASSUME LockInv, Reader PROVE LockInv'
<1>1. CASE ReaderPolls
  BY <1>1 DEF ReaderPolls, LockInv, NoReadAfterShutdown, runVars
<1>2. CASE ReaderReads
  BY <1>2 DEF ReaderReads, LockInv, NoReadAfterShutdown, runVars
<1> QED
  BY <1>1, <1>2 DEF Reader

LEMMA ClientStep ==
    ASSUME LockInv, Client \/ SendInput \/ Interrupt \/ ClientDies \/ DaemonTerminated
    PROVE  LockInv'
<1>1. DaemonDies \/ UNCHANGED <<reader, lock, isShutdown, runner>>
  <2>1. CASE Client
    BY <2>1 DEF Client, ReceiveChunk, ConnectionLost, Ends, DaemonStays
  <2>2. CASE SendInput \/ ClientDies
    BY <2>2 DEF SendInput, ClientDies, readerVars, runVars
  <2>3. CASE Interrupt \/ DaemonTerminated
    BY <2>3 DEF Interrupt, DaemonTerminated, DaemonStays
  <2> QED
    BY <2>1, <2>2, <2>3
<1> QED
  BY <1>1, SameSessionStep, DiesStep

\* MaybeShutdownSocket: from the moment DaemonExiter.exit shuts the socket down, the stdin reader
\* does not read from it, for any interleaving of the threads.
THEOREM NeverReadAfterShutdown == SessionSpec => []NoReadAfterShutdown
<1>1. SessionInit => LockInv
  BY DEF SessionInit, LockInv, NoReadAfterShutdown
<1>2. LockInv /\ [SessionNext]_sessionVars => LockInv'
  <2> SUFFICES ASSUME LockInv, [SessionNext]_sessionVars PROVE LockInv'
    OBVIOUS
  <2>1. CASE UNCHANGED sessionVars
    BY <2>1, SameSessionStep DEF sessionVars, readerVars, runVars
  <2>2. CASE SessionNext
    BY <2>2, RunnerStep, WriterStep, ReaderStep, ClientStep DEF SessionNext
  <2> QED
    BY <2>1, <2>2
<1>3. LockInv => NoReadAfterShutdown
  BY DEF LockInv
<1> QED
  BY <1>1, <1>2, <1>3, PTL DEF SessionSpec

-----------------------------------------------------------------------------
(***************************************************************************)
(* The output arrives before the exit code, for every amount of output and *)
(* every size of the socket.                                               *)
(*                                                                         *)
(* The argument is one of conservation: what was written to a stream is    *)
(* received, on its way in chunks, in the writer's hand, in the pipe or in *)
(* the buffer.  What is on its way is a sum over the chunks; instead of a  *)
(* recursive sum the invariant says that there is a function of running    *)
(* totals.  To that belongs that the exit chunk is the last one, and that  *)
(* it is sent only after the writer came to its end, or was given up, of   *)
(* which the client is told.                                               *)
(***************************************************************************)

Chunks == [type : {"pid", "start", "error", "exit", "stdout", "stderr"}, n : Nat]
Pieces == [type : Stream, n : Nat]

Of(c, s) == IF c.type = s THEN c.n ELSE 0

\* from, and the pieces of s in the chunks q, are to.
Flow(q, from, to, s) ==
  \E total \in [0 .. Len(q) -> Nat] :
    /\ total[0] = from /\ total[Len(q)] = to
    /\ \A i \in 1 .. Len(q) : total[i] = total[i - 1] + Of(q[i], s)

FlowType ==
  /\ wrote \in [Stream -> Nat] /\ buffered \in [Stream -> Nat] /\ pipe \in [Stream -> Nat]
  /\ received \in [Stream -> Nat]
  /\ hand \in {Nothing} \cup Pieces
  /\ toClient \in Seq(Chunks)
  /\ told \in BOOLEAN /\ isShutdown \in BOOLEAN

Conserved(s) ==
  \E sent \in Nat :
    /\ Flow(toClient, received[s], sent, s)
    /\ sent + Of(hand, s) + pipe[s] + buffered[s] = wrote[s]

ErrorSent == told \/ \E i \in 1 .. Len(toClient) : toClient[i].type = "error"

\* Nothing is left in the pipe of s but what the writer overlooked.
Emptied(s) == pipe[s] = 0 \/ s \in overlooked

\* The writer is at its end with empty hands, or the client knows or will know better.
OutputSettled ==
  \/ writer = "crashed" \/ ErrorSent
  \/ writer = "done" /\ hand = Nothing /\ \A s \in Stream : buffered[s] = 0

ExitInv ==
  /\ writer \in {"off", "select", "check", "done"} => hand = Nothing
  /\ runner \in {"pid", "input", "start", "output"} => writer = "off"
  /\ runner \in {"join", "error", "exit"} => \A s \in Stream : buffered[s] = 0
  /\ runner = "exit" \/ isShutdown => OutputSettled
  /\ isShutdown => runner \in {"closing", "ended", "killed"}
  /\ \A i \in 1 .. Len(toClient) : toClient[i].type = "exit" => i = Len(toClient) /\ isShutdown
  /\ client = "done" => isShutdown /\ toClient = <<>>

\* A stream is no longer written to when its writing is stopped, and only then the writer drops its
\* pipe: so nothing comes into a pipe that was dropped.
PipeInv ==
  /\ flushing \in SUBSET Stream /\ inFds \in SUBSET Stream
  /\ writable \in [Stream -> BOOLEAN]
  /\ runner = "stop" => \A s \in Stream : buffered[s] = 0 \/ s \in flushing
  /\ flushing # {} => runner \in {"running", "stop", "killed"}
  /\ flushing # {} \/ runner \in {"pid", "input", "start", "output", "running"} => \A s \in Stream : writable[s]
  /\ writer = "check" => \A s \in inFds : Emptied(s)
  /\ writer \in {"select", "check", "copy", "done"} => \A s \in Stream \ inFds : Emptied(s) /\ ~writable[s]
  /\ writer = "done" => inFds = {}

OutputInv == FlowType /\ (\A s \in Stream : Conserved(s)) /\ ExitInv

LEMMA OfNat == ASSUME NEW c \in {Nothing} \cup Pieces \cup Chunks, NEW s \in Stream PROVE Of(c, s) \in Nat
  BY DEF Of, Nothing, Chunk, Pieces, Chunks

LEMMA FlowOfNone == ASSUME NEW s, NEW from \in Nat PROVE Flow(<<>>, from, from, s)
<1> DEFINE total == [i \in 0 .. 0 |-> from]
<1>1. total \in [0 .. 0 -> Nat] /\ total[0] = from
  OBVIOUS
<1>2. Len(<<>>) = 0 /\ 1 .. 0 = {}
  OBVIOUS
<1>3. QED
  BY <1>1, <1>2 DEF Flow

LEMMA FlowEmpty == ASSUME NEW s, NEW from, NEW to, Flow(<<>>, from, to, s) PROVE from = to
  BY DEF Flow

\* A chunk that is sent counts at the end, ...
LEMMA FlowAppend ==
  ASSUME NEW s \in Stream, NEW q \in Seq(Chunks), NEW c \in Chunks, NEW from \in Nat, NEW to \in Nat,
         Flow(q, from, to, s)
  PROVE  Flow(Append(q, c), from, to + Of(c, s), s)
<1>1. PICK total \in [0 .. Len(q) -> Nat] :
         /\ total[0] = from /\ total[Len(q)] = to
         /\ \A i \in 1 .. Len(q) : total[i] = total[i - 1] + Of(q[i], s)
  BY DEF Flow
<1> DEFINE next == [i \in 0 .. Len(q) + 1 |-> IF i <= Len(q) THEN total[i] ELSE to + Of(c, s)]
<1>2. /\ Len(Append(q, c)) = Len(q) + 1 /\ Len(q) \in Nat /\ Of(c, s) \in Nat
      /\ \A i \in 1 .. Len(q) : Append(q, c)[i] = q[i]
      /\ Append(q, c)[Len(q) + 1] = c
  BY OfNat
<1>3. next \in [0 .. Len(Append(q, c)) -> Nat]
  BY <1>1, <1>2
<1>4. next[0] = from /\ next[Len(Append(q, c))] = to + Of(c, s)
  BY <1>1, <1>2
<1>5. ASSUME NEW i \in 1 .. Len(Append(q, c)) PROVE next[i] = next[i - 1] + Of(Append(q, c)[i], s)
  <2>1. CASE i \in 1 .. Len(q)
    <3>1. next[i] = total[i] /\ next[i - 1] = total[i - 1] /\ Append(q, c)[i] = q[i]
      BY <1>2, <2>1
    <3>2. QED
      BY <1>1, <2>1, <3>1
  <2>2. CASE i = Len(q) + 1
    <3>1. next[i] = to + Of(c, s) /\ next[i - 1] = total[Len(q)] /\ Append(q, c)[i] = c
      BY <1>2, <2>2
    <3>2. QED
      BY <1>1, <3>1
  <2>3. QED
    BY <1>2, <2>1, <2>2
<1>6. QED
  BY <1>3, <1>4, <1>5 DEF Flow

\* ... and one that is received at the beginning.
LEMMA FlowTail ==
  ASSUME NEW s \in Stream, NEW q \in Seq(Chunks), q # <<>>, NEW from \in Nat, NEW to \in Nat,
         Flow(q, from, to, s)
  PROVE  Flow(Tail(q), from + Of(Head(q), s), to, s)
<1>1. PICK total \in [0 .. Len(q) -> Nat] :
         /\ total[0] = from /\ total[Len(q)] = to
         /\ \A i \in 1 .. Len(q) : total[i] = total[i - 1] + Of(q[i], s)
  BY DEF Flow
<1> DEFINE next == [i \in 0 .. Len(q) - 1 |-> total[i + 1]]
<1>2. /\ Len(q) \in Nat /\ Len(q) >= 1 /\ Len(Tail(q)) = Len(q) - 1 /\ Head(q) = q[1]
      /\ \A i \in 1 .. Len(q) - 1 : Tail(q)[i] = q[i + 1]
  OBVIOUS
<1>3. next \in [0 .. Len(Tail(q)) -> Nat]
  BY <1>1, <1>2
<1>4. next[0] = from + Of(Head(q), s) /\ next[Len(Tail(q))] = to
  <2>1. total[1] = total[0] + Of(q[1], s)
    BY <1>1, <1>2
  <2>2. next[0] = total[1] /\ next[Len(q) - 1] = total[Len(q)]
    BY <1>2
  <2>3. QED
    BY <1>1, <1>2, <2>1, <2>2
<1>5. ASSUME NEW i \in 1 .. Len(Tail(q)) PROVE next[i] = next[i - 1] + Of(Tail(q)[i], s)
  <2>1. i + 1 \in 1 .. Len(q) /\ next[i] = total[i + 1] /\ next[i - 1] = total[i] /\ Tail(q)[i] = q[i + 1]
    BY <1>2
  <2>2. total[i + 1] = total[(i + 1) - 1] + Of(q[i + 1], s) /\ (i + 1) - 1 = i
    BY <1>1, <1>2, <2>1
  <2>3. QED
    BY <2>1, <2>2
<1>6. QED
  BY <1>3, <1>4, <1>5 DEF Flow

LEMMA OutputInit == SessionInit => OutputInv
<1> SUFFICES ASSUME SessionInit PROVE OutputInv
  OBVIOUS
<1>1. FlowType
  <2>1. toClient \in Seq(Chunks)
    BY DEF SessionInit
  <2>2. QED
    BY <2>1 DEF SessionInit, FlowType
<1>2. \A s \in Stream : Conserved(s)
  <2> TAKE s \in Stream
  <2>1. toClient = <<>> /\ received[s] = 0 /\ pipe[s] = 0 /\ buffered[s] = 0 /\ wrote[s] = 0 /\ Of(hand, s) = 0
    BY DEF SessionInit, Of, Nothing, Chunk
  <2>2. Flow(toClient, received[s], 0, s)
    BY <2>1, FlowOfNone
  <2>3. QED
    BY <2>1, <2>2 DEF Conserved
<1>3. ExitInv
  BY DEF SessionInit, ExitInv
<1>4. QED
  BY <1>1, <1>2, <1>3 DEF OutputInv

\* Steps that move pieces between the run, its buffer, the pipe and the writer's hand.
LEMMA Balanced ==
  ASSUME NEW s \in Stream, Conserved(s), FlowType, FlowType', UNCHANGED <<toClient, received>>,
         Of(hand', s) + pipe'[s] + buffered'[s] + wrote[s] = Of(hand, s) + pipe[s] + buffered[s] + wrote'[s]
  PROVE  Conserved(s)'
<1>1. PICK sent \in Nat : /\ Flow(toClient, received[s], sent, s)
                          /\ sent + Of(hand, s) + pipe[s] + buffered[s] = wrote[s]
  BY DEF Conserved
<1>2. Of(hand, s) \in Nat /\ Of(hand', s) \in Nat
  BY OfNat DEF FlowType
<1>3. /\ wrote \in [Stream -> Nat] /\ buffered \in [Stream -> Nat] /\ pipe \in [Stream -> Nat]
      /\ wrote' \in [Stream -> Nat] /\ buffered' \in [Stream -> Nat] /\ pipe' \in [Stream -> Nat]
  BY DEF FlowType
<1>4. sent + Of(hand', s) + pipe'[s] + buffered'[s] = wrote'[s]
  BY <1>1, <1>2, <1>3
<1>5. QED
  BY <1>1, <1>4 DEF Conserved

LEMMA Untouched ==
  ASSUME OutputInv, UNCHANGED <<toClient, received, hand, pipe, buffered, wrote, told, isShutdown>>
  PROVE  FlowType' /\ \A s \in Stream : Conserved(s)'
  BY DEF OutputInv, FlowType, Conserved

\* A chunk is sent, of the output or not.
LEMMA SentFlow ==
  ASSUME FlowType, \A s \in Stream : Conserved(s), NEW c \in Chunks, toClient' = Append(toClient, c),
         UNCHANGED <<received, pipe, buffered, wrote>>,
         hand' \in {Nothing} \cup Pieces,
         \A s \in Stream : Of(c, s) + Of(hand', s) = Of(hand, s)
  PROVE  \A s \in Stream : Conserved(s)'
<1> TAKE s \in Stream
<1>1. PICK sent \in Nat : /\ Flow(toClient, received[s], sent, s)
                          /\ sent + Of(hand, s) + pipe[s] + buffered[s] = wrote[s]
  BY DEF Conserved
<1>2. Of(c, s) \in Nat /\ Of(hand, s) \in Nat /\ Of(hand', s) \in Nat
  BY OfNat DEF FlowType
<1>3. Flow(toClient', received[s], sent + Of(c, s), s)
  BY <1>1, FlowAppend DEF FlowType
<1>4. wrote[s] \in Nat /\ buffered[s] \in Nat /\ pipe[s] \in Nat /\ Of(c, s) + Of(hand', s) = Of(hand, s)
  BY DEF FlowType
<1>5. (sent + Of(c, s)) + Of(hand', s) + pipe[s] + buffered[s] = wrote[s] /\ sent + Of(c, s) \in Nat
  BY <1>1, <1>2, <1>4
<1>6. QED
  BY <1>3, <1>5 DEF Conserved

LEMMA ErrorStays ==
  ASSUME FlowType, NEW c \in Chunks, toClient' = Append(toClient, c), told' = told, ErrorSent
  PROVE  ErrorSent'
  BY DEF ErrorSent, FlowType

\* What the request's thread sends under the lock carries no output, and is the last if it is
\* the exit code.
LEMMA LockedOutput ==
  ASSUME OutputInv, NEW from, NEW chunk \in Chunks, NEW to, SendLocked(from, chunk, to),
         chunk.type \notin Stream,
         to \in {"pid", "input", "start", "output"} => from \in {"pid", "input", "start", "output"},
         to \in {"join", "error", "exit"} => from \in {"join", "error", "exit"},
         from \notin {"closing", "ended", "killed"},
         to = "exit" => chunk.type = "error",
         chunk.type = "exit" => from = "exit" /\ to = "closing"
  PROVE  OutputInv'
<1>1. /\ UNCHANGED <<wrote, buffered, pipe, writer, hand, client, received, told>>
      /\ runner = from
  BY DEF SendLocked, pipeVars, writerVars, clientVars
<1>2. CASE Gone /\ runner' = "closing" /\ UNCHANGED <<toClient, isShutdown>>
  <2>1. FlowType' /\ \A s \in Stream : Conserved(s)'
    BY <1>1, <1>2, Untouched
  <2>2. ExitInv'
    BY <1>1, <1>2 DEF OutputInv, ExitInv, OutputSettled, ErrorSent
  <2>3. QED
    BY <2>1, <2>2 DEF OutputInv
<1>3. CASE ~Gone /\ Send(chunk) /\ runner' = to /\ isShutdown' = (chunk.type = "exit")
  <2>1. toClient' = Append(toClient, chunk) /\ toClient \in Seq(Chunks) /\ toClient' \in Seq(Chunks)
    BY <1>3 DEF Send, OutputInv, FlowType
  <2>2. FlowType'
    BY <1>1, <1>3, <2>1 DEF OutputInv, FlowType
  <2>3. \A s \in Stream : Of(chunk, s) + Of(hand, s)' = Of(hand, s)
    <3> TAKE s \in Stream
    <3>1. Of(hand, s) \in Nat
      BY OfNat DEF OutputInv, FlowType
    <3>2. Of(chunk, s) = 0 /\ Of(hand, s)' = Of(hand, s)
      BY <1>1 DEF Of
    <3>3. QED
      BY <3>1, <3>2
  <2>4. \A s \in Stream : Conserved(s)'
    BY <1>1, <2>1, <2>3, SentFlow DEF OutputInv, FlowType
  <2>5. ~isShutdown /\ \A i \in 1 .. Len(toClient) : toClient[i].type # "exit"
    BY <1>1 DEF OutputInv, ExitInv
  <2>6. /\ Len(toClient') = Len(toClient) + 1 /\ toClient'[Len(toClient')] = chunk
        /\ \A i \in 1 .. Len(toClient) : toClient'[i] = toClient[i]
        /\ Len(toClient) \in Nat
    BY <2>1
  <2>7. OutputSettled => OutputSettled'
    BY <1>1, <2>1, ErrorStays DEF OutputSettled, OutputInv
  <2>8. chunk.type = "error" => OutputSettled'
    BY <2>6 DEF OutputSettled, ErrorSent
  <2>9. ExitInv'
    <3>1. \A i \in 1 .. Len(toClient') : toClient'[i].type = "exit" => i = Len(toClient') /\ isShutdown'
      <4> SUFFICES ASSUME NEW i \in 1 .. Len(toClient'), toClient'[i].type = "exit"
                   PROVE  i = Len(toClient') /\ isShutdown'
        OBVIOUS
      <4>1. i \notin 1 .. Len(toClient)
        BY <2>5, <2>6
      <4>2. i = Len(toClient')
        BY <2>6, <4>1
      <4>3. QED
        BY <1>3, <2>6, <4>2
    <3>2. client' # "done"
      BY <1>1, <1>3 DEF Gone
    <3>3. runner' = "exit" \/ isShutdown' => OutputSettled'
      BY <1>1, <1>3, <2>7, <2>8 DEF OutputInv, ExitInv
    <3>4. QED
      BY <1>1, <1>3, <3>1, <3>2, <3>3 DEF OutputInv, ExitInv
  <2>10. QED
    BY <2>2, <2>4, <2>9 DEF OutputInv
<1>4. QED
  BY <1>2, <1>3 DEF SendLocked

LEMMA ChunkTypes ==
  /\ Chunk("pid", 1) \in Chunks /\ Chunk("start", 0) \in Chunks
  /\ Chunk("error", 0) \in Chunks /\ Chunk("exit", 0) \in Chunks
  /\ Chunk("pid", 1).type = "pid" /\ Chunk("start", 0).type = "start"
  /\ Chunk("error", 0).type = "error" /\ Chunk("exit", 0).type = "exit"
  BY DEF Chunk, Chunks

LEMMA RunnerOutput == ASSUME OutputInv, PipeInv, Runner PROVE OutputInv'
<1>1. CASE SendPid \/ SendStart \/ SendError \/ SendExit
  <2>1. CASE SendPid
    BY <2>1, LockedOutput, ChunkTypes DEF SendPid, Stream
  <2>2. CASE SendStart
    BY <2>2, LockedOutput, ChunkTypes DEF SendStart, Stream
  <2>3. CASE SendError
    BY <2>3, LockedOutput, ChunkTypes DEF SendError, Stream
  <2>4. CASE SendExit
    BY <2>4, LockedOutput, ChunkTypes DEF SendExit, Stream
  <2>5. QED
    BY <1>1, <2>1, <2>2, <2>3, <2>4
<1>2. ASSUME NEW t \in Stream, Write(t) PROVE OutputInv'
  <2>1. /\ runner = "running" /\ wrote' = [wrote EXCEPT ![t] = @ + 1]
        /\ buffered' = [buffered EXCEPT ![t] = @ + 1]
        /\ UNCHANGED <<runner, pipe, writer, hand, client, received, told, toClient, isShutdown>>
    BY <1>2 DEF Write, pipeVars, writerVars, readerVars, clientVars
  <2>2. FlowType'
    BY <2>1 DEF OutputInv, FlowType
  <2>3. ASSUME NEW s \in Stream PROVE Conserved(s)'
    <3>1. /\ wrote \in [Stream -> Nat] /\ buffered \in [Stream -> Nat] /\ pipe \in [Stream -> Nat]
          /\ Of(hand, s) \in Nat /\ Of(hand', s) = Of(hand, s)
      BY <2>1, OfNat DEF OutputInv, FlowType
    <3>2. Of(hand', s) + pipe'[s] + buffered'[s] + wrote[s] = Of(hand, s) + pipe[s] + buffered[s] + wrote'[s]
      BY <2>1, <3>1
    <3>3. QED
      BY <2>1, <2>2, <3>2, Balanced DEF OutputInv
  <2>4. ExitInv'
    BY <2>1 DEF OutputInv, ExitInv
  <2>5. QED
    BY <2>2, <2>3, <2>4 DEF OutputInv
<1>3. CASE Flush
  <2> DEFINE t == First(flushing)
  <2>1. /\ runner \in {"running", "stop"} /\ t \in Stream
        /\ UNCHANGED <<runner, wrote, writer, hand, client, received, told, toClient, isShutdown>>
    BY <1>3 DEF Flush, First, Stream, writerVars, readerVars, clientVars
  <2>2. \/ UNCHANGED <<buffered, pipe>>
        \/ /\ buffered[t] > 0
           /\ buffered' = [buffered EXCEPT ![t] = @ - 1] /\ pipe' = [pipe EXCEPT ![t] = @ + 1]
    BY <1>3 DEF Flush
  <2>3. FlowType'
    <3>1. buffered \in [Stream -> Nat] /\ pipe \in [Stream -> Nat]
      BY DEF OutputInv, FlowType
    <3>2. buffered' \in [Stream -> Nat] /\ pipe' \in [Stream -> Nat]
      BY <2>1, <2>2, <3>1
    <3>3. QED
      BY <2>1, <3>2 DEF OutputInv, FlowType
  <2>4. ASSUME NEW s \in Stream PROVE Conserved(s)'
    <3>1. /\ wrote \in [Stream -> Nat] /\ buffered \in [Stream -> Nat] /\ pipe \in [Stream -> Nat]
          /\ Of(hand, s) \in Nat /\ Of(hand', s) = Of(hand, s)
      BY <2>1, OfNat DEF OutputInv, FlowType
    <3>2. Of(hand', s) + pipe'[s] + buffered'[s] + wrote[s] = Of(hand, s) + pipe[s] + buffered[s] + wrote'[s]
      BY <2>1, <2>2, <3>1
    <3>3. QED
      BY <2>1, <2>3, <3>2, Balanced DEF OutputInv
  <2>5. ExitInv'
    <3>1. isShutdown = FALSE /\ client # "done"
      BY <2>1 DEF OutputInv, FlowType, ExitInv
    <3>2. QED
      BY <2>1, <3>1 DEF OutputInv, ExitInv
  <2>6. QED
    BY <2>3, <2>4, <2>5 DEF OutputInv
<1>4. CASE OpenInput \/ OpenOutput \/ RunEnds \/ StopWriting \/ Join \/ Close
  <2>1. UNCHANGED <<wrote, buffered, pipe, hand, client, received, told, toClient, isShutdown>>
    BY <1>4 DEF OpenInput, OpenOutput, RunEnds, StopWriting, Join, Close, pipeVars, writerVars, readerVars, clientVars
  <2>2. FlowType' /\ \A s \in Stream : Conserved(s)'
    BY <2>1, Untouched
  <2>3. ErrorSent' <=> ErrorSent
    BY <2>1 DEF ErrorSent
  <2>4. ExitInv'
    <3>1. CASE OpenInput
      BY <2>1, <3>1 DEF OpenInput, writerVars, OutputInv, ExitInv
    <3>2. CASE OpenOutput
      BY <2>1, <3>2 DEF OpenOutput, OutputInv, ExitInv
    <3>3. CASE RunEnds
      BY <2>1, <3>3 DEF RunEnds, writerVars, OutputInv, ExitInv
    <3>4. CASE StopWriting
      <4>1. runner = "stop" /\ runner' \in {"stop", "join"} /\ writer' = writer /\ \A s \in Stream : buffered[s] = 0
        BY <3>4 DEF StopWriting, writerVars, PipeInv
      <4>2. QED
        BY <2>1, <4>1 DEF OutputInv, ExitInv
    <3>5. CASE Join
      BY <2>1, <3>5 DEF Join, writerVars, OutputInv, ExitInv, OutputSettled
    <3>6. CASE Close
      <4>1. OutputSettled => OutputSettled'
        BY <2>1, <2>3, <3>6 DEF Close, OutputSettled
      <4>2. QED
        BY <2>1, <3>6, <4>1 DEF Close, OutputInv, ExitInv
    <3>7. QED
      BY <1>4, <3>1, <3>2, <3>3, <3>4, <3>5, <3>6
  <2>5. QED
    BY <2>2, <2>4 DEF OutputInv
<1>5. QED
  BY <1>1, <1>2, <1>3, <1>4 DEF Runner

LEMMA WriterOutput == ASSUME OutputInv, Writer PROVE OutputInv'
<1>1. UNCHANGED <<runner, wrote, buffered, isShutdown, client, received, told>>
  BY DEF Writer, Select, DropPipes, ReadPipe, SendPiece, SendRaises, runVars, readerVars, clientVars
<1>2. CASE Select \/ DropPipes \/ SendRaises
  <2>1. UNCHANGED <<hand, pipe, toClient>> /\ writer \in {"select", "check", "copy"}
    BY <1>2 DEF Select, DropPipes, SendRaises, pipeVars
  <2>2. FlowType' /\ \A s \in Stream : Conserved(s)'
    BY <1>1, <2>1, Untouched
  <2>3. ErrorSent' <=> ErrorSent
    BY <1>1, <2>1 DEF ErrorSent
  <2>4. runner \notin {"pid", "input", "start", "output"}
    BY <2>1 DEF OutputInv, ExitInv
  <2>5. writer' \in {"off", "select", "check", "done"} => hand' = Nothing
    BY <1>2, <2>1 DEF Select, DropPipes, SendRaises, OutputInv, ExitInv
  <2>6. OutputSettled => OutputSettled'
    BY <1>1, <2>1, <2>3 DEF OutputSettled
  <2>7. ExitInv'
    BY <1>1, <2>1, <2>4, <2>5, <2>6 DEF OutputInv, ExitInv
  <2>8. QED
    BY <2>2, <2>7 DEF OutputInv
<1>3. ASSUME NEW t \in Stream, ReadPipe(t) PROVE OutputInv'
  <2>1. /\ writer = "copy" /\ writer' = writer /\ hand = Nothing /\ toClient' = toClient
    BY <1>3 DEF ReadPipe
  <2>2. PICK n \in 1 .. pipe[t] : hand' = Chunk(t, n) /\ pipe' = [pipe EXCEPT ![t] = @ - n]
    BY <1>3 DEF ReadPipe
  <2>3. n \in Nat /\ pipe[t] - n \in Nat /\ pipe \in [Stream -> Nat]
    BY <2>2 DEF OutputInv, FlowType
  <2>4. FlowType'
    <3>1. hand' \in Pieces /\ pipe' \in [Stream -> Nat]
      BY <2>2, <2>3 DEF Chunk, Pieces
    <3>2. QED
      BY <1>1, <2>1, <3>1 DEF OutputInv, FlowType
  <2>5. ASSUME NEW s \in Stream PROVE Conserved(s)'
    <3>1. /\ wrote \in [Stream -> Nat] /\ buffered \in [Stream -> Nat] /\ pipe \in [Stream -> Nat]
      BY DEF OutputInv, FlowType
    <3>2. Of(hand, s) = 0 /\ Of(hand', s) = IF s = t THEN n ELSE 0
      BY <2>1, <2>2 DEF Of, Nothing, Chunk, Stream
    <3>3. Of(hand', s) + pipe'[s] + buffered'[s] + wrote[s] = Of(hand, s) + pipe[s] + buffered[s] + wrote'[s]
      BY <1>1, <2>2, <2>3, <3>1, <3>2
    <3>4. QED
      BY <1>1, <2>1, <2>4, <3>3, Balanced DEF OutputInv
  <2>6. ExitInv'
    BY <1>1, <2>1 DEF OutputInv, ExitInv, OutputSettled, ErrorSent
  <2>7. QED
    BY <2>4, <2>5, <2>6 DEF OutputInv
<1>4. CASE SendPiece
  <2>1. /\ writer = "copy" /\ hand # Nothing /\ ~Gone /\ ~isShutdown
        /\ toClient' = Append(toClient, hand) /\ hand' = Nothing /\ pipe' = pipe
        /\ writer' \in {"select", "copy"}
    BY <1>4 DEF SendPiece, Send, pipeVars
  <2>2. hand \in Chunks /\ hand.type # "exit" /\ toClient \in Seq(Chunks)
    BY <2>1 DEF OutputInv, FlowType, Pieces, Chunks, Stream
  <2>3. FlowType'
    BY <1>1, <2>1, <2>2 DEF OutputInv, FlowType
  <2>4. \A s \in Stream : Of(hand, s) + Of(hand', s) = Of(hand, s)
    <3> TAKE s \in Stream
    <3>1. Of(hand', s) = 0 /\ Of(hand, s) \in Nat
      BY <2>1, <2>2, OfNat DEF Of, Nothing, Chunk, Stream
    <3>2. QED
      BY <3>1
  <2>5. \A s \in Stream : Conserved(s)'
    BY <1>1, <2>1, <2>2, <2>4, SentFlow DEF OutputInv
  <2>6. /\ Len(toClient') = Len(toClient) + 1 /\ toClient'[Len(toClient')] = hand
        /\ \A i \in 1 .. Len(toClient) : toClient'[i] = toClient[i]
        /\ Len(toClient) \in Nat
    BY <2>1, <2>2
  <2>7. OutputSettled => OutputSettled'
    BY <1>1, <2>1, <2>2, ErrorStays DEF OutputSettled, OutputInv
  <2>8. \A i \in 1 .. Len(toClient') : toClient'[i].type # "exit"
    BY <2>1, <2>2, <2>6 DEF OutputInv, ExitInv
  <2>9. ExitInv'
    BY <1>1, <2>1, <2>7, <2>8 DEF OutputInv, ExitInv, Gone
  <2>10. QED
    BY <2>3, <2>5, <2>9 DEF OutputInv
<1>5. QED
  BY <1>2, <1>3, <1>4 DEF Writer

\* The daemon goes on, or dies and with it the writer.
LEMMA DaemonOutput ==
  ASSUME OutputInv, UNCHANGED <<toClient, received, hand, pipe, buffered, wrote, told, isShutdown>>,
         DaemonDies \/ UNCHANGED <<runner, writer>>, client' # "done" \/ client' = client
  PROVE  OutputInv'
<1>1. FlowType' /\ \A s \in Stream : Conserved(s)'
  BY Untouched
<1>2. ExitInv'
  <2>1. CASE DaemonDies
    BY <2>1 DEF DaemonDies, OutputInv, ExitInv, OutputSettled
  <2>2. CASE UNCHANGED <<runner, writer>>
    BY <2>2 DEF OutputInv, ExitInv, OutputSettled, ErrorSent
  <2>3. QED
    BY <2>1, <2>2
<1>3. QED
  BY <1>1, <1>2 DEF OutputInv

LEMMA ReceiveOutput == ASSUME OutputInv, ReceiveChunk PROVE OutputInv'
<1> DEFINE c == Head(toClient)
<1>1. /\ client = "reading" /\ toClient # <<>> /\ toClient' = Tail(toClient)
      /\ received' = IF c.type \in Stream THEN [received EXCEPT ![c.type] = @ + c.n] ELSE received
      /\ told' = (told \/ c.type = "error")
      /\ UNCHANGED <<wrote, buffered, pipe, hand, isShutdown>>
      /\ DaemonDies \/ UNCHANGED <<runner, writer>>
      /\ client' = "done" => c.type = "exit"
  BY DEF ReceiveChunk, Ends, DaemonStays, pipeVars
<1>2. /\ toClient \in Seq(Chunks) /\ c \in Chunks /\ toClient' \in Seq(Chunks)
      /\ Len(toClient) \in Nat /\ Len(toClient) >= 1 /\ c = toClient[1] /\ Len(toClient') = Len(toClient) - 1
      /\ \A i \in 1 .. Len(toClient') : toClient'[i] = toClient[i + 1] /\ i + 1 \in 1 .. Len(toClient)
  BY <1>1 DEF OutputInv, FlowType
<1>3. FlowType'
  <2>1. c.n \in Nat
    BY <1>2 DEF Chunks
  <2>2. QED
    BY <1>1, <1>2, <2>1 DEF OutputInv, FlowType
<1>4. ASSUME NEW s \in Stream PROVE Conserved(s)'
  <2>1. PICK sent \in Nat : /\ Flow(toClient, received[s], sent, s)
                            /\ sent + Of(hand, s) + pipe[s] + buffered[s] = wrote[s]
    BY DEF OutputInv, Conserved
  <2>2. received[s] \in Nat
    BY DEF OutputInv, FlowType
  <2>3. Flow(toClient', received[s] + Of(c, s), sent, s)
    BY <1>1, <1>2, <2>1, <2>2, FlowTail
  <2>4. received'[s] = received[s] + Of(c, s)
    BY <1>1, <2>2 DEF Of, OutputInv, FlowType
  <2>5. QED
    BY <1>1, <2>1, <2>3, <2>4 DEF Conserved
<1>5. ExitInv'
  <2>1. ErrorSent => ErrorSent'
    <3>1. CASE told \/ c.type = "error"
      BY <1>1, <3>1 DEF ErrorSent
    <3>2. ASSUME NEW i \in 1 .. Len(toClient), toClient[i].type = "error", c.type # "error" PROVE ErrorSent'
      <4>1. i - 1 \in 1 .. Len(toClient') /\ toClient'[i - 1] = toClient[i]
        BY <1>2, <3>2
      <4>2. QED
        BY <3>2, <4>1 DEF ErrorSent
    <3>3. QED
      BY <3>1, <3>2 DEF ErrorSent
  <2>2. OutputSettled => OutputSettled'
    BY <1>1, <2>1 DEF OutputSettled, DaemonDies
  <2>3. c.type = "exit" => isShutdown /\ toClient' = <<>>
    <3> HAVE c.type = "exit"
    <3>1. 1 = Len(toClient) /\ isShutdown
      BY <1>2 DEF OutputInv, ExitInv
    <3>2. QED
      BY <1>2, <3>1
  <2>4. \A i \in 1 .. Len(toClient') : toClient'[i].type = "exit" => i = Len(toClient') /\ isShutdown
    <3> TAKE i \in 1 .. Len(toClient')
    <3> HAVE toClient'[i].type = "exit"
    <3>1. i + 1 = Len(toClient) /\ isShutdown
      BY <1>2 DEF OutputInv, ExitInv
    <3>2. QED
      BY <1>2, <3>1
  <2>5. CASE DaemonDies
    BY <1>1, <2>2, <2>3, <2>4, <2>5 DEF DaemonDies, OutputInv, ExitInv
  <2>6. CASE UNCHANGED <<runner, writer>>
    BY <1>1, <2>2, <2>3, <2>4, <2>6 DEF OutputInv, ExitInv
  <2>7. QED
    BY <1>1, <2>5, <2>6
<1>6. QED
  BY <1>3, <1>4, <1>5 DEF OutputInv

LEMMA OutputStep == OutputInv /\ PipeInv /\ [SessionNext]_sessionVars => OutputInv'
<1> SUFFICES ASSUME OutputInv, PipeInv, [SessionNext]_sessionVars PROVE OutputInv'
  OBVIOUS
<1>1. CASE UNCHANGED sessionVars
  BY <1>1, DaemonOutput DEF sessionVars, runVars, pipeVars, writerVars, readerVars, clientVars
<1>2. CASE Reader
  BY <1>2, DaemonOutput DEF Reader, ReaderPolls, ReaderReads, runVars, pipeVars, writerVars, clientVars
<1>3. CASE ConnectionLost
  BY <1>3, DaemonOutput DEF ConnectionLost, Ends, DaemonStays, pipeVars
<1>4. CASE SendInput \/ ClientDies
  BY <1>4, DaemonOutput DEF SendInput, ClientDies, runVars, pipeVars, writerVars, readerVars
<1>5. CASE Interrupt \/ DaemonTerminated
  BY <1>5, DaemonOutput DEF Interrupt, DaemonTerminated, DaemonStays, pipeVars, clientVars
<1>6. CASE SessionNext
  BY <1>2, <1>3, <1>4, <1>5, <1>6, RunnerOutput, WriterOutput, ReceiveOutput DEF SessionNext, Client
<1>7. QED
  BY <1>1, <1>6

\* The pipes and the streams are as they were, or the writer is at its end.
LEMMA SamePipes ==
  ASSUME PipeInv, UNCHANGED <<buffered, flushing, inFds, writable, pipe, overlooked>>,
         writer' = writer \/ writer' \notin {"select", "check", "copy", "done"},
         runner' = runner \/ runner' \in {"killed", "join", "error", "exit", "closing", "ended"},
         flushing = {} \/ runner' \in {runner, "killed"}
  PROVE  PipeInv'
  BY DEF PipeInv, Emptied

LEMMA RunnerPipes == ASSUME OutputInv, PipeInv, Runner PROVE PipeInv'
<1>1. CASE SendPid \/ SendStart
  <2>1. UNCHANGED <<buffered, flushing, inFds, writable, pipe, overlooked, writer>>
    BY <1>1 DEF SendPid, SendStart, SendLocked, pipeVars, writerVars
  <2>2. runner \in {"pid", "start"} /\ runner' \in {"input", "output", "closing"}
    BY <1>1 DEF SendPid, SendStart, SendLocked
  <2>3. QED
    BY <2>1, <2>2 DEF PipeInv, Emptied
<1>2. CASE OpenInput \/ OpenOutput
  <2>1. UNCHANGED <<buffered, flushing, writable, pipe, overlooked>>
    BY <1>2 DEF OpenInput, OpenOutput, pipeVars, writerVars
  <2>2. runner \in {"input", "output"} /\ runner' \in {"start", "running"}
    BY <1>2 DEF OpenInput, OpenOutput
  <2>3. UNCHANGED <<inFds, writer>> \/ (inFds' = Stream /\ writer' = "select")
    BY <1>2 DEF OpenInput, OpenOutput, writerVars
  <2>4. QED
    BY <2>1, <2>2, <2>3 DEF PipeInv, Emptied
<1>3. ASSUME NEW s \in Stream, Write(s) PROVE PipeInv'
  <2>1. /\ runner = "running" /\ runner' = runner /\ flushing' \in SUBSET Stream
        /\ UNCHANGED <<inFds, writable, pipe, overlooked, writer>>
    BY <1>3 DEF Write, pipeVars, writerVars
  <2>2. QED
    BY <2>1 DEF PipeInv, Emptied
<1>4. CASE Flush
  <2> DEFINE t == First(flushing)
  <2>1. /\ runner \in {"running", "stop"} /\ flushing # {} /\ t \in flushing
        /\ UNCHANGED <<runner, inFds, writable, writer>>
    BY <1>4 DEF Flush, First, Stream, writerVars, PipeInv
  <2>2. flushing \in SUBSET Stream /\ \A s \in Stream : writable[s]
    BY <2>1 DEF PipeInv
  <2>3. CASE buffered[t] = 0 /\ flushing' = flushing \ {t} /\ UNCHANGED <<buffered, pipe, overlooked>>
    BY <2>1, <2>2, <2>3 DEF PipeInv, Emptied
  <2>4. CASE /\ UNCHANGED flushing
             /\ buffered' = [buffered EXCEPT ![t] = @ - 1] /\ pipe' = [pipe EXCEPT ![t] = @ + 1]
             /\ overlooked' = IF writer = "check" /\ t \in inFds THEN overlooked \cup {t} ELSE overlooked
    <3>1. \A s \in Stream \ {t} : buffered'[s] = buffered[s] /\ pipe'[s] = pipe[s]
      BY <2>4 DEF OutputInv, FlowType
    <3>2. writer \in {"select", "check", "copy", "done"} => inFds = Stream
      BY <2>2 DEF PipeInv
    <3>3. writer = "check" => \A s \in inFds : Emptied(s)'
      BY <2>2, <2>4, <3>1, <3>2 DEF PipeInv, Emptied
    <3>4. runner = "stop" => \A s \in Stream : buffered'[s] = 0 \/ s \in flushing'
      BY <2>1, <2>4, <3>1 DEF PipeInv
    <3>5. writer # "done"
      BY <3>2 DEF PipeInv, Stream
    <3>6. QED
      BY <2>1, <2>2, <2>4, <3>2, <3>3, <3>4, <3>5 DEF PipeInv
  <2>5. QED
    BY <1>4, <2>3, <2>4 DEF Flush
<1>5. CASE RunEnds
  <2>1. /\ runner = "running" /\ runner' = "stop" /\ flushing' = Stream
        /\ UNCHANGED <<inFds, writable, pipe, overlooked, writer>>
    BY <1>5 DEF RunEnds, pipeVars, writerVars
  <2>2. QED
    BY <2>1 DEF PipeInv, Emptied
<1>6. CASE StopWriting
  <2>1. /\ runner = "stop" /\ runner' \in {"stop", "join"} /\ flushing = {}
        /\ writable' = [writable EXCEPT ![First({t \in Stream : writable[t]})] = FALSE]
        /\ UNCHANGED <<buffered, flushing, inFds, pipe, overlooked, writer>>
    BY <1>6 DEF StopWriting, writerVars
  <2>2. writable' \in [Stream -> BOOLEAN] /\ \A s \in Stream : ~writable[s] => ~writable'[s]
    BY <2>1 DEF PipeInv
  <2>3. QED
    BY <2>1, <2>2 DEF PipeInv, Emptied
<1>7. CASE Join \/ SendError \/ SendExit \/ Close
  <2>1. UNCHANGED <<buffered, flushing, inFds, writable, pipe, overlooked>>
    BY <1>7 DEF Join, SendError, SendExit, SendLocked, Close, pipeVars, writerVars
  <2>2. writer' = writer \/ writer' = "stopped"
    BY <1>7 DEF Join, SendError, SendExit, SendLocked, Close, writerVars
  <2>3. /\ runner \in {"join", "error", "exit", "closing"}
        /\ runner' \in {"error", "exit", "closing", "ended"}
    BY <1>7 DEF Join, SendError, SendExit, SendLocked, Close
  <2>4. flushing = {}
    BY <2>3 DEF PipeInv
  <2>5. QED
    BY <2>1, <2>2, <2>3, <2>4, SamePipes
<1>8. QED
  BY <1>1, <1>2, <1>3, <1>4, <1>5, <1>6, <1>7 DEF Runner

\* What the writer finds empty in its select, and what is then written, it may overlook.
LEMMA WriterPipes == ASSUME OutputInv, PipeInv, Writer PROVE PipeInv'
<1>1. UNCHANGED <<runner, buffered, flushing, writable>>
  BY DEF Writer, Select, DropPipes, ReadPipe, SendPiece, SendRaises, runVars, pipeVars
<1>2. CASE Select
  <2>1. /\ writer = "select" /\ UNCHANGED <<pipe, inFds>> /\ overlooked' = overlooked \ inFds
        /\ writer' \in {"check", "copy"} /\ (writer' = "check" => \A s \in inFds : ~(pipe[s] > 0))
    BY <1>2 DEF Select
  <2>2. pipe \in [Stream -> Nat] /\ inFds \in SUBSET Stream
    BY DEF OutputInv, FlowType, PipeInv
  <2>3. writer' = "check" => \A s \in inFds : pipe'[s] = 0
    BY <2>1, <2>2
  <2>4. \A s \in Stream \ inFds : Emptied(s)' /\ ~writable[s]
    BY <2>1 DEF PipeInv, Emptied
  <2>5. QED
    BY <1>1, <2>1, <2>3, <2>4 DEF PipeInv, Emptied
<1>3. CASE DropPipes
  <2>1. /\ writer = "check" /\ UNCHANGED <<pipe, overlooked>>
        /\ writer' = IF inFds' = {} THEN "done" ELSE "select"
    BY <1>3 DEF DropPipes, pipeVars
  <2>2. inFds' \subseteq inFds /\ \A s \in inFds \ inFds' : ~writable[s]
    BY <1>3 DEF DropPipes, First, Stream, PipeInv
  <2>3. QED
    BY <1>1, <2>1, <2>2 DEF PipeInv, Emptied
<1>4. ASSUME NEW t \in Stream, ReadPipe(t) PROVE PipeInv'
  <2>1. writer = "copy" /\ UNCHANGED <<writer, inFds, overlooked>>
    BY <1>4 DEF ReadPipe
  <2>2. PICK n \in 1 .. pipe[t] : pipe' = [pipe EXCEPT ![t] = @ - n]
    BY <1>4 DEF ReadPipe
  <2>3. pipe \in [Stream -> Nat]
    BY DEF OutputInv, FlowType
  <2>4. \A s \in Stream : pipe[s] = 0 => pipe'[s] = 0
    BY <2>2, <2>3
  <2>5. QED
    BY <1>1, <2>1, <2>4 DEF PipeInv, Emptied
<1>5. CASE SendPiece \/ SendRaises
  <2>1. /\ writer = "copy" /\ UNCHANGED <<inFds, pipe, overlooked>>
        /\ writer' \in {"select", "copy", "crashed"}
    BY <1>5 DEF SendPiece, SendRaises, pipeVars
  <2>2. QED
    BY <1>1, <2>1 DEF PipeInv, Emptied
<1>6. QED
  BY <1>2, <1>3, <1>4, <1>5 DEF Writer

LEMMA PipeStep == OutputInv /\ PipeInv /\ [SessionNext]_sessionVars => PipeInv'
<1> SUFFICES ASSUME OutputInv, PipeInv, [SessionNext]_sessionVars PROVE PipeInv'
  OBVIOUS
<1>1. CASE UNCHANGED sessionVars
  BY <1>1, SamePipes DEF sessionVars, runVars, pipeVars, writerVars
<1>2. CASE Reader \/ SendInput \/ ClientDies
  BY <1>2, SamePipes DEF Reader, ReaderPolls, ReaderReads, SendInput, ClientDies, runVars, pipeVars, writerVars
<1>3. CASE Client \/ Interrupt \/ DaemonTerminated
  <2>1. UNCHANGED <<buffered, flushing, inFds, writable, pipe, overlooked>>
    BY <1>3 DEF Client, ReceiveChunk, ConnectionLost, Interrupt, DaemonTerminated, pipeVars
  <2>2. DaemonDies \/ UNCHANGED <<runner, writer>>
    BY <1>3 DEF Client, ReceiveChunk, ConnectionLost, Ends, Interrupt, DaemonTerminated, DaemonStays
  <2>3. QED
    BY <2>1, <2>2, SamePipes DEF DaemonDies
<1>4. QED
  BY <1>1, <1>2, <1>3, RunnerPipes, WriterPipes DEF SessionNext

\* DaemonExiter.exit and the finalizer before it: a client that has the exit code, and was not
\* told of a failure, has received all that was written, for every size of the pipes and the
\* socket; unless the writer thread was ended by an exception, or dropped a pipe into which the
\* last pieces came after its last select.
THEOREM ExitComesLast == SessionSpec => []OutputBeforeExit
<1>1. OutputInv /\ PipeInv => OutputBeforeExit
  <2> SUFFICES ASSUME OutputInv, PipeInv, client = "done", writer # "crashed", ~told, NEW s \in Stream
               PROVE  received[s] = wrote[s] \/ (s \in overlooked /\ received[s] + pipe[s] = wrote[s])
    BY DEF OutputBeforeExit
  <2>1. toClient = <<>> /\ OutputSettled
    BY DEF OutputInv, ExitInv
  <2>2. ~ErrorSent
    BY <2>1 DEF ErrorSent
  <2>3. writer = "done" /\ hand = Nothing /\ buffered[s] = 0
    BY <2>1, <2>2 DEF OutputSettled
  <2>4. Emptied(s)
    BY <2>3 DEF PipeInv
  <2>5. PICK sent \in Nat : /\ Flow(<<>>, received[s], sent, s)
                            /\ sent + Of(hand, s) + pipe[s] + buffered[s] = wrote[s]
    BY <2>1 DEF OutputInv, Conserved
  <2>6. sent = received[s] /\ Of(hand, s) = 0
    BY <2>3, <2>5, FlowEmpty DEF Of, Nothing, Chunk, Stream
  <2>7. received \in [Stream -> Nat] /\ pipe \in [Stream -> Nat] /\ wrote \in [Stream -> Nat]
    BY DEF OutputInv, FlowType
  <2>8. received[s] + pipe[s] = wrote[s]
    BY <2>3, <2>5, <2>6, <2>7
  <2>9. QED
    BY <2>4, <2>7, <2>8 DEF Emptied
<1>2. SessionInit => PipeInv
  BY DEF SessionInit, PipeInv, Emptied
<1>3. QED
  BY <1>1, <1>2, OutputInit, OutputStep, PipeStep, PTL DEF SessionSpec
=============================================================================
