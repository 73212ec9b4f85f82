---------------------------- MODULE DaemonLaunch ----------------------------
(***************************************************************************)
(* How thin clients find, start, replace and use pantsd: RemotePantsRunner,*)
(* PantsDaemon.Factory, ProcessManager and the files it keeps in .pids     *)
(* (pid, socket, fingerprint), and the life of the daemons that write them.*)
(*                                                                         *)
(* The lock a client takes around maybe_launch and restart is the RLock of *)
(* its own PantsServices, so that nothing keeps two clients apart.  A pid, *)
(* and the port a daemon listens on, are the daemon.                       *)
(***************************************************************************)
EXTENDS Naturals, FiniteSets

CONSTANTS
  Client,
  Killers,       \* which clients run kill-pantsd or clean-all: the sets to start from
  Fingerprint,   \* options_fingerprint of each client
  Daemon,        \* bound: the daemons that may be spawned
  Retries,       \* retries of _run_pants_with_retry
  None

ASSUME LaunchAssumption ==
  /\ Killers \subseteq SUBSET Client /\ None \notin Daemon
  /\ Retries \in Nat

VARIABLES
  daemon,        \* how far each daemon process has come
  options,       \* the fingerprint it was started with
  terminating,   \* the daemons whose scheduler service is terminating
  pid, port, fingerprint,   \* the files
  killer,        \* the clients that run kill-pantsd
  client,        \* where each client is
  process,       \* ProcessManager._process: the process it looked at
  handle,        \* port of the PantsDaemon.Handle
  attempt,
  executed       \* how often the client's command was run

files == <<pid, port, fingerprint>>
daemonVars == <<daemon, options, terminating>>
clientVars == <<killer, client, process, handle, attempt, executed>>
vars == <<files, daemonVars, clientVars>>

Alive(d) == d # None /\ daemon[d] \notin {"dead"}
Serving(d) == d # None /\ daemon[d] \in {"started", "pid", "up"}
Final == {"done", "terminated", "error"}

\* What no daemon is, or the client of one still knows, can be the pid of the next.
Unused == {d \in Daemon : daemon[d] = "dead" /\ \A c \in Client : d \notin {process[c], handle[c]}}

Goto(c, where) == client' = [client EXCEPT ![c] = where]
NoFiles == pid' = None /\ port' = None /\ fingerprint' = None

-----------------------------------------------------------------------------
(* PantsDaemon.run_sync. *)

\* The socket file is written, then the services start, then the pid and fingerprint files are
\* written.
WriteSocket(d) ==
  /\ daemon[d] = "boot"
  /\ daemon' = [daemon EXCEPT ![d] = "started"] /\ port' = d
  /\ UNCHANGED <<pid, fingerprint, options, terminating, clientVars>>

WritePid(d) ==
  /\ daemon[d] = "started"
  /\ daemon' = [daemon EXCEPT ![d] = "pid"] /\ pid' = d
  /\ UNCHANGED <<port, fingerprint, options, terminating, clientVars>>

WriteFingerprint(d) ==
  /\ daemon[d] = "pid"
  /\ daemon' = [daemon EXCEPT ![d] = "up"] /\ fingerprint' = options[d]
  /\ UNCHANGED <<pid, port, options, terminating, clientVars>>

SaysOther(d) == pid \notin {d, None}

\* _check_pid_changed, called when watchman reports the pid file: it is there when the watch
\* begins, or it changes or disappears later.  The pid file is below the buildroot, as it is by
\* default; one outside of it is not watched.
CheckPidChanged(d) == pid # d /\ (pid = None => daemon[d] # "started")

\* The scheduler service terminates itself ...
TerminateItself(d) ==
  /\ daemon[d] \in {"started", "pid"} /\ d \notin terminating
  /\ CheckPidChanged(d)
  /\ terminating' = terminating \cup {d}
  /\ UNCHANGED <<files, daemon, options, clientVars>>

Dies(d) ==
  /\ daemon' = [daemon EXCEPT ![d] = "dead"]
  /\ options' = [options EXCEPT ![d] = None] /\ terminating' = terminating \ {d}

\* ... and the monitor, once it runs, finds its thread dead.  Nothing removes the files.
Exit(d) ==
  /\ \/ daemon[d] = "signalled"
     \/ daemon[d] = "up" /\ (d \in terminating \/ CheckPidChanged(d))
  /\ Dies(d)
  /\ UNCHANGED <<files, clientVars>>

-----------------------------------------------------------------------------
(* Clients. *)

\* maybe_launch: needs_restart looks at the pid and the fingerprint.  (A client that wants the
\* daemon to shut down after its run restarts it too.)
MaybeLaunch(c) ==
  /\ client[c] = "start" /\ c \notin killer
  /\ Goto(c, IF Alive(pid) /\ fingerprint = Fingerprint[c] THEN "awaitpid" ELSE "launch")
  /\ UNCHANGED <<files, daemonVars, killer, process, handle, attempt, executed>>

KillPantsd(c) ==
  /\ client[c] = "start" /\ c \in killer
  /\ Goto(c, "launch")
  /\ UNCHANGED <<files, daemonVars, killer, process, handle, attempt, executed>>

\* ProcessManager.terminate: the process of the pid file is looked at once, ...
Terminate(c) ==
  /\ client[c] = "launch"
  /\ process' = [process EXCEPT ![c] = IF Alive(pid) THEN pid ELSE None]
  /\ Goto(c, IF Alive(pid) THEN "sigterm" ELSE "purge")
  /\ UNCHANGED <<files, daemonVars, killer, handle, attempt, executed>>

\* ... while the signals go to the process that the file names when they are sent.
Kill(c) ==
  /\ client[c] \in {"sigterm", "sigkill"}
  /\ \/ ~Alive(pid) /\ UNCHANGED daemonVars
     \/ /\ Alive(pid) /\ client[c] = "sigterm"
        /\ daemon' = [daemon EXCEPT ![pid] = "signalled"] /\ UNCHANGED <<options, terminating>>
     \/ Alive(pid) /\ client[c] = "sigkill" /\ Dies(pid)
  /\ Goto(c, IF client[c] = "sigterm" THEN "wait" ELSE "lastwait")
  /\ UNCHANGED <<files, killer, process, handle, attempt, executed>>

AwaitDead(c) ==
  /\ client[c] \in {"wait", "lastwait"}
  /\ Goto(c, IF ~Alive(process[c]) THEN "purge"
             ELSE IF client[c] = "wait" THEN "sigkill" ELSE "error")   \* NonResponsiveProcess
  /\ UNCHANGED <<files, daemonVars, killer, process, handle, attempt, executed>>

\* purge_metadata(force=True); kill-pantsd has nothing more to do.
Purge(c) ==
  /\ client[c] = "purge"
  /\ NoFiles
  /\ Goto(c, IF c \in killer THEN "done" ELSE "spawn")
  /\ UNCHANGED <<daemonVars, killer, process, handle, attempt, executed>>

\* daemon_spawn: purge_metadata refuses if by now there is a process, which it only looks for
\* when it had not seen one before.
DaemonSpawn(c) ==
  /\ client[c] = "spawn"
  /\ \/ /\ process[c] = None /\ Alive(pid)
        /\ Goto(c, "error") /\ UNCHANGED <<files, daemonVars>>
     \/ /\ process[c] # None \/ ~Alive(pid)
        /\ NoFiles
        /\ \E d \in Unused :
             /\ \A e \in Unused : d <= e
             /\ daemon' = [daemon EXCEPT ![d] = "boot"]
             /\ options' = [options EXCEPT ![d] = Fingerprint[c]]
        /\ Goto(c, "awaitpid") /\ UNCHANGED <<terminating>>
  /\ process' = [process EXCEPT ![c] = None]    \* a later restart has a ProcessManager of its own
  /\ UNCHANGED <<killer, handle, attempt, executed>>

\* await_pid, which may time out, and read_named_socket.  The port is there before the pid,
\* unless it was purged in between: it is then no integer.
AwaitPid(c) ==
  /\ client[c] = "awaitpid"
  /\ \/ pid = None /\ Goto(c, "error") /\ UNCHANGED handle
     \/ pid # None /\ port = None /\ Goto(c, "error") /\ UNCHANGED handle
     \/ pid # None /\ port # None /\ Goto(c, "connect") /\ handle' = [handle EXCEPT ![c] = port]
  /\ UNCHANGED <<files, daemonVars, killer, process, attempt, executed>>

ConnectAgain(c) ==
  /\ client[c] = "connect"
  /\ Goto(c, IF Alive(handle[c]) THEN "connected" ELSE IF attempt[c] > 1 THEN "launch" ELSE "connect")
  /\ UNCHANGED <<files, daemonVars, killer, process, handle, attempt, executed>>

\* _run_pants_with_retry: the first retry connects to the same port, the next ones restart
\* pantsd before; then the command is run without it.  A daemon listens as soon as it exists.
Connect(c) ==
  /\ client[c] = "connect"
  /\ \/ /\ Alive(handle[c]) /\ Goto(c, "connected") /\ UNCHANGED attempt
     \/ /\ ~Alive(handle[c]) /\ attempt[c] > Retries /\ Goto(c, "fallback") /\ UNCHANGED attempt
     \/ /\ ~Alive(handle[c]) /\ attempt[c] <= Retries
        /\ attempt' = [attempt EXCEPT ![c] = @ + 1]
        /\ Goto(c, IF attempt[c] > 1 THEN "launch" ELSE "connect")
  /\ handle' = [handle EXCEPT ![c] = IF client'[c] \in {"launch", "fallback"} THEN None ELSE @]
  /\ UNCHANGED <<files, daemonVars, killer, process, executed>>

Ran(c) == executed' = [executed EXCEPT ![c] = @ + 1]

\* The daemon runs the command.
Execute(c) ==
  /\ client[c] = "connected" /\ Serving(handle[c])
  /\ Goto(c, "executing") /\ Ran(c)
  /\ UNCHANGED <<files, daemonVars, killer, process, handle, attempt>>

Result(c) ==
  /\ client[c] = "executing" /\ Alive(handle[c])
  /\ Goto(c, "done")
  /\ handle' = [handle EXCEPT ![c] = None] /\ attempt' = [attempt EXCEPT ![c] = 1]
  /\ UNCHANGED <<files, daemonVars, killer, process, executed>>

LostRetried(c) ==
  /\ client[c] \in {"connected", "executing"} /\ ~Alive(handle[c])
  /\ Goto(c, "connect")
  /\ UNCHANGED <<files, daemonVars, killer, process, handle, attempt, executed>>

\* The connection is lost: a NailgunError, and no NailgunConnectionError.
Lost(c) ==
  /\ client[c] \in {"connected", "executing"} /\ ~Alive(handle[c])
  /\ Goto(c, "terminated")
  /\ handle' = [handle EXCEPT ![c] = None] /\ attempt' = [attempt EXCEPT ![c] = 1]
  /\ UNCHANGED <<files, daemonVars, killer, process, executed>>

\* Fallback: PantsRunner.run goes on with a LocalPantsRunner.
RunLocally(c) ==
  /\ client[c] = "fallback"
  /\ Goto(c, "done") /\ Ran(c)
  /\ UNCHANGED <<files, daemonVars, killer, process, handle, attempt>>

-----------------------------------------------------------------------------

(***************************************************************************)
(* At first there is no daemon, or one is up, or one died before it had    *)
(* written all its files: since the first of them does not matter, its     *)
(* pid, its pid and its fingerprint, or only its port is left.             *)
(***************************************************************************)
Init ==
  /\ \E first \in {"dead", "up"} :
     LET d == CHOOSE e \in Daemon : \A f \in Daemon : e <= f
         o == Fingerprint[CHOOSE c \in Client : TRUE]
     IN
       /\ daemon = [e \in Daemon |-> IF e = d THEN first ELSE "dead"]
       /\ options = [e \in Daemon |-> IF e = d /\ first = "up" THEN o ELSE None]
       /\ \/ first = "dead" /\ pid = None /\ port = None /\ fingerprint = None
          \/ pid = d /\ port = d /\ fingerprint = o
          \/ first = "dead" /\ pid \in {d, None} /\ port = d /\ fingerprint = None
  /\ terminating = {} /\ killer \in Killers
  /\ client = [c \in Client |-> "start"] /\ process = [c \in Client |-> None]
  /\ handle = [c \in Client |-> None] /\ attempt = [c \in Client |-> 1]
  /\ executed = [c \in Client |-> 0]

DaemonStep(d) == WriteSocket(d) \/ WritePid(d) \/ WriteFingerprint(d) \/ TerminateItself(d) \/ Exit(d)

ClientStep(c) ==
  \/ MaybeLaunch(c) \/ KillPantsd(c)
  \/ Terminate(c) \/ Kill(c) \/ AwaitDead(c) \/ Purge(c) \/ DaemonSpawn(c)
  \/ AwaitPid(c) \/ Connect(c)
  \/ Execute(c) \/ Result(c) \/ Lost(c) \/ RunLocally(c)

Next ==
  \/ \E d \in Daemon : DaemonStep(d)
  \/ \E c \in Client : ClientStep(c)

\* Processes run, and every wait of a client has a time limit.
Spec ==
  /\ Init /\ [][Next]_vars
  /\ \A d \in Daemon : WF_vars(DaemonStep(d))
  /\ \A c \in Client : WF_vars(ClientStep(c))

-----------------------------------------------------------------------------

\* A command is never run twice, however often the client reconnects, restarts the daemon or
\* falls back to a local run: only an attempt that found nobody listening is repeated.
RunAtMostOnce == \A c \in Client : executed[c] <= 1

\* Clients end: with its result, with an error, or because the daemon died under it.
\* In particular a port file of a daemon that is gone does not keep one retrying.
ClientsEnd == <>(\A c \in Client : client[c] \in Final)

\* No daemon is left over: one that the pid file does not name, whether another was started, the
\* files were purged under it or it lost the race of writing them, exits.  It can only tell while
\* the pid file is below the buildroot: PantsDaemon.Factory.create warns of stray daemons else.
NoStrayDaemon == <>[](\A d \in Daemon : Alive(d) => pid = d)
=============================================================================
