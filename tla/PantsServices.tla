---------------------------- MODULE PantsServices ----------------------------
(***************************************************************************)
(* The inside of pantsd: PantsDaemon.run_sync starts one thread for each   *)
(* service and watches them; FSEventService reads watchman's events and    *)
(* SchedulerService applies them to the product graph; PailgunService      *)
(* accepts requests, each handled in a thread of its own, one at a time    *)
(* (PailgunServer.ensure_request_is_exclusive), through                    *)
(* SchedulerService.prepare_v1_graph_run_v2.                               *)
(*                                                                         *)
(* The graph is abstracted to the version of each file it holds; one file  *)
(* is covered by the invalidation globs.  Watchman is external: from the   *)
(* subscription on it reports every change, several in one event perhaps.  *)
(***************************************************************************)
EXTENDS Naturals, Sequences, FiniteSets

CONSTANTS
  Service,           \* the services, in the order they are started and terminated
  File, InvalidatingFile,
  Request,
  LoopMax,           \* --loop-max of each request; 1 when it does not loop
  PollLimit,         \* polls until PANTSD_REQUEST_TIMEOUT_LIMIT; 0 to wait forever
  ShutdownAfterRun,  \* shutdown_pantsd_after_run
  QueueSize,         \* SchedulerService.QUEUE_SIZE
  MaxEdits,          \* bound: edits of files
  MaxFailures        \* bound: services and requests that raise, pid files overwritten

Services == {Service[i] : i \in DOMAIN Service}

ASSUME ServicesAssumption ==
  /\ {"fs", "sched", "pailgun"} \subseteq Services /\ Len(Service) = Cardinality(Services)
  /\ InvalidatingFile \in File /\ {"initial", "pid"} \cap File = {}
  /\ LoopMax \in [Request -> Nat \ {0}] /\ PollLimit \in [Request -> Nat]
  /\ QueueSize \in Nat \ {0} /\ MaxEdits \in Nat /\ MaxFailures \in Nat

VARIABLES
  main,           \* where run_sync is
  terminated,     \* services shutdown() has terminated and joined for a second
  alive,          \* the service threads that run
  terminating,    \* services whose _ServiceState is Terminating
  pidfile,        \* what the pid file holds
  disk, edits, failures,
  watched,        \* watchman has the subscriptions
  changes,        \* what watchman has still to report
  event,          \* the event FSEventService has taken from watchman, if any
  queue,          \* SchedulerService._event_queue
  graph,          \* the version of each file in the graph
  snapshot,       \* _invalidating_snapshot
  watchmanIsRunning,
  request,        \* where the thread of each request is
  available,      \* free_to_handle_request_lock.available
  polled,         \* time_polled
  iterations,     \* of _loop, still to go
  notified        \* LoopCondition: it was notified since the request's wait began

fsVars == <<disk, edits, watched, changes, event, queue, graph, snapshot, watchmanIsRunning>>
daemonVars == <<main, terminated, alive, terminating, pidfile, failures>>
requestVars == <<request, available, polled, iterations, notified>>
vars == <<fsVars, daemonVars, requestVars>>

NoVersion == 0
NoEvent == [subscription |-> "none", initial |-> FALSE, files |-> {}]

Handling == {"handling", "built", "waiting"}
Ended == {"done", "error", "timedout", "killed"}

-----------------------------------------------------------------------------
(* The file system, watchman and the users. *)

Report(what) == changes' = IF watched THEN changes \cup {what} ELSE changes

Edit(f) ==
  /\ edits < MaxEdits /\ main \notin {"shutdown", "exited"}
  /\ edits' = edits + 1 /\ disk' = [disk EXCEPT ![f] = @ + 1] /\ Report(f)
  /\ UNCHANGED <<daemonVars, requestVars, watched, event, queue, graph, snapshot, watchmanIsRunning>>

\* A client, having lost track of this daemon, starts another one.
OtherDaemon ==
  /\ pidfile # "other" /\ main = "monitor" /\ failures < MaxFailures
  /\ pidfile' = "other" /\ failures' = failures + 1 /\ Report("pid")
  /\ UNCHANGED <<requestVars, main, terminated, alive, terminating, disk, edits, watched,
                 event, queue, graph, snapshot, watchmanIsRunning>>

\* Clients wait for the pid file.
Connect(r) ==
  /\ request[r] = "absent" /\ main = "monitor" /\ "pailgun" \notin terminating
  /\ request' = [request EXCEPT ![r] = "backlog"]
  /\ UNCHANGED <<fsVars, daemonVars, available, polled, iterations, notified>>

-----------------------------------------------------------------------------
(* PantsDaemon: the main thread. *)

\* SchedulerService.setup, which takes the snapshot of the invalidating files, and the start of
\* the threads.
Setup ==
  /\ main = "setup"
  /\ graph' = [graph EXCEPT ![InvalidatingFile] = disk[InvalidatingFile]]
  /\ snapshot' = disk[InvalidatingFile]
  /\ main' = "start" /\ alive' = Services
  /\ UNCHANGED <<requestVars, terminated, terminating, pidfile, failures, disk, edits, watched,
                 changes, event, queue, watchmanIsRunning>>

\* write_pid: the file is opened, then written.
WritePid ==
  /\ main \in {"start", "writing"}
  /\ main' = IF main = "start" THEN "writing" ELSE "monitor"
  /\ pidfile' = IF main = "start" THEN "empty" ELSE "ours"
  /\ Report("pid")
  /\ UNCHANGED <<requestVars, terminated, alive, terminating, failures, disk, edits, watched, event,
                 queue, graph, snapshot, watchmanIsRunning>>

\* _run_services: a service thread is found dead.  shutdown takes the lifecycle lock, which the
\* pailgun thread holds only within Accept.
Monitor ==
  /\ main = "monitor" /\ alive # Services
  /\ main' = "shutdown"
  /\ UNCHANGED <<fsVars, requestVars, terminated, alive, terminating, pidfile, failures>>

ShutdownJoins ==
  LET s == Service[Cardinality(terminated) + 1]
  IN /\ main = "shutdown" /\ terminated # Services /\ terminated \cap alive = {}
     /\ terminating' = terminating \cup {s} /\ terminated' = terminated \cup {s}
     /\ UNCHANGED <<fsVars, requestVars, main, alive, pidfile, failures>>

\* shutdown: one service after the other is terminated and its thread joined, for a second, so
\* that the next one's turn comes whether or not the thread has ended.
Shutdown ==
  LET s == Service[Cardinality(terminated) + 1]
  IN /\ main = "shutdown" /\ terminated # Services
     /\ terminating' = terminating \cup {s} /\ terminated' = terminated \cup {s}
     /\ UNCHANGED <<fsVars, requestVars, main, alive, pidfile, failures>>

\* RuntimeFailure is raised out of run_sync; the other threads are daemon threads.
ProcessExits ==
  /\ main = "shutdown" /\ terminated = Services
  /\ main' = "exited" /\ alive' = {}
  /\ request' = [r \in Request |-> IF request[r] \in Ended \cup {"absent"} THEN request[r] ELSE "killed"]
  /\ UNCHANGED <<fsVars, terminated, terminating, pidfile, failures, available, polled, iterations, notified>>

Main == Setup \/ WritePid \/ Monitor \/ Shutdown \/ ProcessExits

-----------------------------------------------------------------------------
(* The service threads. *)

Alive(s) == s \in alive /\ main # "exited"

\* The loop of a service sees that it is to terminate; FSEventService does not while it puts.
ServiceStops(s) ==
  /\ Alive(s) /\ s \in terminating /\ (s = "fs" => event = NoEvent)
  /\ alive' = alive \ {s}
  /\ UNCHANGED <<fsVars, requestVars, main, terminated, terminating, pidfile, failures>>

\* Its run() raises: watchman is gone, the engine or the store fails.
ServiceRaises(s) ==
  /\ Alive(s) /\ failures < MaxFailures
  /\ failures' = failures + 1 /\ alive' = alive \ {s}
  /\ UNCHANGED <<fsVars, requestVars, main, terminated, terminating, pidfile>>

\* FSEventService.run: the subscriptions are made; all_files is answered with a listing of what
\* there is, pantsd_pid only if the pid file exists.
Watch ==
  /\ Alive("fs") /\ ~watched
  /\ watched' = TRUE
  /\ changes' = {"initial"} \cup IF pidfile = "none" THEN {} ELSE {"pid"}
  /\ UNCHANGED <<daemonVars, requestVars, disk, edits, event, queue, graph, snapshot, watchmanIsRunning>>

\* The next event; the listing comes before the other events of its subscription.
Receive ==
  /\ Alive("fs") /\ "fs" \notin terminating /\ event = NoEvent
  /\ \/ /\ "initial" \in changes /\ changes' = changes \ {"initial"}
        /\ event' = [subscription |-> "all_files", initial |-> TRUE, files |-> File]
     \/ /\ "initial" \notin changes /\ changes \cap File # {} /\ changes' = changes \ File
        /\ event' = [subscription |-> "all_files", initial |-> FALSE, files |-> changes \cap File]
     \/ /\ "pid" \in changes /\ changes' = changes \ {"pid"}
        /\ event' = [subscription |-> "pantsd_pid", initial |-> FALSE, files |-> {}]
  /\ UNCHANGED <<daemonVars, requestVars, disk, edits, watched, queue, graph, snapshot, watchmanIsRunning>>

\* _enqueue_fs_event: put blocks while the queue is full.
Enqueue ==
  /\ Alive("fs") /\ event # NoEvent /\ Len(queue) < QueueSize
  /\ queue' = Append(queue, event) /\ event' = NoEvent
  /\ UNCHANGED <<daemonVars, requestVars, disk, edits, watched, changes, graph, snapshot, watchmanIsRunning>>

\* _handle_batch_event: the files leave the graph, the loops that wait are notified if there was
\* something to invalidate, and the invalidating files are compared with the first snapshot.
HandleBatchEvent(files) ==
  LET invalidated == {f \in files : graph[f] # NoVersion}
      left == [f \in File |-> IF f \in files THEN NoVersion ELSE graph[f]]
      g == IF left[InvalidatingFile] = NoVersion THEN disk[InvalidatingFile] ELSE left[InvalidatingFile]
  IN /\ graph' = [left EXCEPT ![InvalidatingFile] = g]
     /\ notified' = IF invalidated = {} THEN notified
                    ELSE [r \in Request |-> notified[r] \/ request[r] = "waiting"]
     /\ terminating' = IF g # snapshot THEN terminating \cup {"sched"} ELSE terminating
     /\ UNCHANGED alive

\* _maybe_invalidate_scheduler_pidfile; int() of an empty file raises in the service thread.
CheckPid ==
  /\ terminating' = IF pidfile \in {"other", "none"} THEN terminating \cup {"sched"} ELSE terminating
  /\ alive' = IF pidfile = "empty" THEN alive \ {"sched"} ELSE alive
  /\ UNCHANGED <<graph, notified>>

\* _process_event_queue.  Events are well-formed; it drops those that are not.
ProcessEventQueue ==
  LET e == Head(queue)
  IN /\ Alive("sched") /\ "sched" \notin terminating /\ queue # <<>>
     /\ queue' = Tail(queue)
     /\ \/ e.subscription = "all_files" /\ ~e.initial /\ HandleBatchEvent(e.files)
        \/ e.subscription = "all_files" /\ e.initial /\ UNCHANGED <<graph, notified, terminating, alive>>
        \/ e.subscription = "pantsd_pid" /\ CheckPid
     /\ watchmanIsRunning' = (watchmanIsRunning \/ "sched" \in alive')
     /\ UNCHANGED <<main, terminated, pidfile, failures, disk, edits, watched, changes, event,
                    snapshot, request, available, polled, iterations>>

\* PailgunServer.handle_request: accept, and start of the request's thread, under the lifecycle lock.
Accept(r) ==
  /\ Alive("pailgun") /\ "pailgun" \notin terminating /\ main # "shutdown"
  /\ request[r] = "backlog"
  /\ request' = [request EXCEPT ![r] = "accepted"]
  /\ UNCHANGED <<fsVars, daemonVars, available, polled, iterations, notified>>

-----------------------------------------------------------------------------
(* The thread of a request: process_request_thread. *)

Goto(r, where) == request' = [request EXCEPT ![r] = where]

\* ensure_request_is_exclusive: the first try, ...
TryAcquire(r) ==
  /\ request[r] = "accepted"
  /\ \/ available /\ available' = FALSE /\ Goto(r, "handling")
     \/ ~available /\ Goto(r, "polling") /\ UNCHANGED available
  /\ UNCHANGED <<fsVars, daemonVars, polled, iterations, notified>>

PollUnchecked(r) ==
  /\ request[r] = "polling"
  /\ available' = FALSE /\ Goto(r, "handling")
  /\ UNCHANGED <<fsVars, daemonVars, polled, iterations, notified>>

PollForever(r) ==
  /\ request[r] = "polling" /\ available
  /\ available' = FALSE /\ Goto(r, "handling")
  /\ UNCHANGED <<fsVars, daemonVars, polled, iterations, notified>>

\* ... and the next ones.  A wait ends when the lock is released or its time is over; that it
\* found the lock taken again counts as a wait of full length.
Poll(r) ==
  /\ request[r] = "polling"
  /\ \/ available /\ available' = FALSE /\ Goto(r, "handling") /\ UNCHANGED polled
     \/ /\ ~available /\ PollLimit[r] # 0 /\ UNCHANGED available
        /\ polled' = [polled EXCEPT ![r] = @ + 1]
        /\ Goto(r, IF polled[r] + 1 < PollLimit[r] THEN "polling" ELSE "timedout")
  /\ UNCHANGED <<fsVars, daemonVars, iterations, notified>>

BodyOf(r) ==
  /\ graph' = [f \in File |-> IF graph[f] = NoVersion THEN disk[f] ELSE graph[f]]
  /\ iterations' = [iterations EXCEPT ![r] = @ - 1]
  /\ Goto(r, "built")
  /\ UNCHANGED <<daemonVars, disk, edits, watched, changes, event, queue, snapshot, watchmanIsRunning,
                 available, polled, notified>>

BodyAtOnce(r) == request[r] = "handling" /\ BodyOf(r)

\* prepare_v1_graph_run_v2: when there is anything in the graph, it waits for the first event.
Body(r) ==
  /\ request[r] = "handling"
  /\ (\E f \in File : graph[f] # NoVersion) => watchmanIsRunning
  /\ BodyOf(r)

\* _loop: with iterations to go it waits for a notification; a wait that ends with none is
\* repeated until the service terminates.  A notification that falls between two waits is kept
\* here and lost in the code, which looks at the iteration again.
LoopWaits(r) ==
  /\ request[r] = "built" /\ iterations[r] # 0 /\ "sched" \notin terminating
  /\ Goto(r, "waiting") /\ notified' = [notified EXCEPT ![r] = FALSE]
  /\ UNCHANGED <<fsVars, daemonVars, available, polled, iterations>>

LoopWakes(r) ==
  /\ request[r] = "waiting"
  /\ \/ notified[r] /\ "sched" \notin terminating /\ Goto(r, "handling")
     \/ "sched" \in terminating /\ Goto(r, "built")
  /\ UNCHANGED <<fsVars, daemonVars, available, polled, iterations, notified>>

\* The run is over: request_complete_callback, then the lock is released.
Complete(r) ==
  /\ request[r] = "built" /\ (iterations[r] = 0 \/ "sched" \in terminating)
  /\ Goto(r, "done") /\ available' = TRUE
  /\ terminating' = IF ShutdownAfterRun THEN terminating \cup {"pailgun"} ELSE terminating
  /\ UNCHANGED <<fsVars, main, terminated, alive, pidfile, failures, polled, iterations, notified>>

\* The handler raises, or the client is gone, which a request that polls notices too: the lock
\* is released if it was held, the callback is not called.  (One that cannot be parsed ends before
\* it asks for the lock.)
RequestRaises(r) ==
  /\ request[r] \in Handling \cup {"polling"} /\ failures < MaxFailures
  /\ failures' = failures + 1 /\ Goto(r, "error")
  /\ available' = (available \/ request[r] \in Handling)
  /\ UNCHANGED <<fsVars, main, terminated, alive, terminating, pidfile, polled, iterations, notified>>

RequestThread(r) ==
  /\ main # "exited"
  /\ TryAcquire(r) \/ Poll(r) \/ Body(r) \/ LoopWaits(r) \/ LoopWakes(r) \/ Complete(r)

-----------------------------------------------------------------------------

Init ==
  /\ main = "setup" /\ terminated = {} /\ alive = {} /\ terminating = {} /\ pidfile = "none"
  /\ disk = [f \in File |-> 1] /\ edits = 0 /\ failures = 0
  /\ watched = FALSE /\ changes = {} /\ event = NoEvent /\ queue = <<>>
  /\ graph = [f \in File |-> NoVersion] /\ snapshot = NoVersion /\ watchmanIsRunning = FALSE
  /\ request = [r \in Request |-> "absent"] /\ available = TRUE
  /\ polled = [r \in Request |-> 0] /\ iterations = LoopMax /\ notified = [r \in Request |-> FALSE]

Fs == Watch \/ Receive \/ Enqueue

Next ==
  \/ Main \/ Fs \/ ProcessEventQueue
  \/ \E f \in File : Edit(f)
  \/ OtherDaemon
  \/ \E s \in Services : ServiceStops(s) \/ ServiceRaises(s)
  \/ \E r \in Request : Connect(r) \/ Accept(r) \/ RequestThread(r) \/ (main # "exited" /\ RequestRaises(r))

\* Threads run; builds end, whatever their result.
Spec ==
  /\ Init /\ [][Next]_vars
  /\ WF_vars(Main) /\ WF_vars(Fs) /\ WF_vars(ProcessEventQueue)
  /\ \A s \in Services : WF_vars(ServiceStops(s))
  /\ \A r \in Request : WF_vars(Accept(r)) /\ WF_vars(RequestThread(r))

-----------------------------------------------------------------------------

\* ensure_request_is_exclusive: no two requests are handled at once, and the lock is never lost:
\* it is available exactly when no request is being handled, whatever raised or timed out.
HandledAlone ==
  main # "exited" =>
    /\ \A r, q \in Request : request[r] \in Handling /\ request[q] \in Handling => r = q
    /\ available = (\A r \in Request : request[r] \notin Handling)

\* Nothing of a change is on its way from watchman to the graph.
Settled == watched /\ changes = {} /\ event = NoEvent /\ queue = <<>>

\* A build never answers from files as they were before the watch began, nor does any change
\* get lost: once the events have been applied, what the graph holds is what is on disk.  (The
\* invalidating file is read before the watch begins: what is changed between the two is never noticed.)
SettledIsFresh ==
  Settled => \A f \in File \ {InvalidatingFile} : graph[f] \in {NoVersion, disk[f]}

\* pantsd goes away: when a service thread is gone, also when FSEventService hangs in a put on a
\* full queue; when its pid file is another's, however it came to that; when the invalidating
\* file in its graph is not the one it started with; and after a run it was started for.
DaemonEnds ==
  \/ alive # Services /\ main = "monitor"
  \/ pidfile = "other"
  \/ snapshot # NoVersion /\ graph[InvalidatingFile] \notin {NoVersion, snapshot}
  \/ ShutdownAfterRun /\ \E r \in Request : request[r] = "done"
  ~> main = "exited"

\* A request that was accepted ends, or the daemon does: it is not left waiting for watchman's
\* first event, nor for its turn beyond its time limit.
RequestEnds ==
  \A r \in Request :
    PollLimit[r] # 0 /\ LoopMax[r] = 1 => (request[r] = "accepted" ~> request[r] \in Ended)
=============================================================================
