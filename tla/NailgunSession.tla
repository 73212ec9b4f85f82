--------------------------- MODULE NailgunSession ---------------------------
(***************************************************************************)
(* One request over the nailgun protocol, from the accepted connection to  *)
(* the exit code: DaemonPantsRunner and its DaemonExiter, the threads that *)
(* copy the run's output to the socket (PipedNailgunStreamWriter) and the  *)
(* client's input from it (NailgunStreamStdinReader), and the client's     *)
(* session (NailgunClientSession, PailgunClientSignalHandler).             *)
(*                                                                         *)
(* Output is counted in pieces.  The socket holds SocketSize chunks until  *)
(* the client reads, and a pipe PipeSize pieces until the writer thread    *)
(* reads: whoever writes to a full pipe waits.                             *)
(***************************************************************************)
EXTENDS Naturals, Sequences, FiniteSets

CONSTANTS
  MaxWrites,     \* bound: pieces the run writes to each stream
  SocketSize,    \* chunks
  PipeSize       \* pieces, instead of 64 KiB

ASSUME SessionAssumption ==
  MaxWrites \in Nat /\ SocketSize \in Nat \ {0} /\ PipeSize \in Nat \ {0}

Stream == {"stdout", "stderr"}

\* Both are always gone through in this order.
First(S) == IF "stdout" \in S THEN "stdout" ELSE "stderr"

VARIABLES
  runner,        \* where the request thread is
  wrote, buffered, pipe, writable,   \* of each stream
  flushing,      \* the streams whose buffers the request thread is writing to their pipes
  overlooked,    \* pipes that got a piece after the writer's last select found all of them empty
  writer,        \* where the writer thread is
  inFds,         \* the pipes it still reads
  readable,      \* what its last select returned, and it has not read yet
  hand,          \* what it has read and not sent: stream and pieces
  reader,        \* where the stdin reader thread is
  lock,          \* MaybeShutdownSocket.lock: who holds it
  isShutdown,
  toClient, toServer,                \* chunks on their way
  client,        \* where the session is
  received,      \* pieces of each stream
  told,          \* it was sent the finalizer's exception
  pidKnown, input, signalled

runVars == <<runner, wrote, buffered, flushing>>
pipeVars == <<pipe, writable, overlooked>>
writerVars == <<writer, inFds, readable, hand>>
readerVars == <<reader, lock, isShutdown, toServer>>
clientVars == <<client, received, told, pidKnown, input, signalled>>
sessionVars == <<runVars, pipeVars, writerVars, readerVars, clientVars, toClient>>

Chunk(type, n) == [type |-> type, n |-> n]
Nothing == Chunk("none", 0)

Gone == client # "reading"
Served == runner \notin {"ended", "killed"}
Room == Len(toClient) < SocketSize
Send(c) == toClient' = Append(toClient, c)

-----------------------------------------------------------------------------
(* DaemonPantsRunner.run, in the request's thread. *)

\* What is sent under the socket's lock: the pid, "start reading input", the finalizer's
\* exception, the exit code.  If the client is gone it raises, and the context managers exit.
SendLocked(from, chunk, to) ==
  /\ runner = from /\ lock = "free"
  /\ \/ Gone /\ runner' = "closing" /\ UNCHANGED <<toClient, isShutdown>>
     \/ ~Gone /\ Room /\ Send(chunk) /\ runner' = to /\ isShutdown' = (chunk.type = "exit")
  /\ UNCHANGED <<wrote, buffered, flushing, pipeVars, writerVars, reader, lock, toServer, clientVars>>

SendPid == SendLocked("pid", Chunk("pid", 1), "input")

\* _pipe_stdio: the reader thread starts, the client is asked for input, ...
OpenInput ==
  /\ runner = "input" /\ runner' = "start" /\ reader' = "idle"
  /\ UNCHANGED <<wrote, buffered, flushing, pipeVars, writerVars, lock, isShutdown, toServer, clientVars, toClient>>

SendStart == SendLocked("start", Chunk("start", 0), "output")

\* ... and the writer thread starts.
OpenOutput ==
  /\ runner = "output" /\ runner' = "running" /\ writer' = "select" /\ inFds' = Stream
  /\ UNCHANGED <<wrote, buffered, flushing, pipeVars, readable, hand, readerVars, clientVars, toClient>>

\* The run itself: it writes to its streams, which are flushed now and then, and ends.
Write(s) ==
  /\ runner = "running" /\ flushing = {} /\ wrote[s] < MaxWrites
  /\ wrote' = [wrote EXCEPT ![s] = @ + 1] /\ buffered' = [buffered EXCEPT ![s] = @ + 1]
  /\ flushing' \in {{}, {s}}
  /\ UNCHANGED <<runner, pipeVars, writerVars, readerVars, clientVars, toClient>>

\* A piece is written to its pipe, if there is room, or the stream is flushed.
Flush ==
  LET s == First(flushing)
  IN /\ runner \in {"running", "stop"} /\ flushing # {}
     /\ \/ /\ buffered[s] = 0 /\ flushing' = flushing \ {s}
           /\ UNCHANGED <<buffered, pipe, overlooked>>
        \/ /\ buffered[s] > 0 /\ pipe[s] < PipeSize /\ UNCHANGED flushing
           /\ buffered' = [buffered EXCEPT ![s] = @ - 1] /\ pipe' = [pipe EXCEPT ![s] = @ + 1]
           /\ overlooked' = IF writer = "check" /\ s \in inFds THEN overlooked \cup {s} ELSE overlooked
     /\ UNCHANGED <<runner, wrote, writable, writerVars, readerVars, clientVars, toClient>>

\* The finalizer flushes both streams, ...
RunEnds ==
  /\ runner = "running" /\ flushing = {} /\ runner' = "stop" /\ flushing' = Stream
  /\ UNCHANGED <<wrote, buffered, pipeVars, writerVars, readerVars, clientVars, toClient>>

\* ... sleeps, which lets other threads run but makes none of them, stops the pipes ...
StopWriting ==
  LET s == First({t \in Stream : writable[t]})
  IN /\ runner = "stop" /\ flushing = {}
     /\ writable' = [writable EXCEPT ![s] = FALSE]
     /\ runner' = IF s = "stderr" THEN "join" ELSE "stop"
     /\ UNCHANGED <<wrote, buffered, flushing, pipe, overlooked, writerVars, readerVars, clientVars, toClient>>

JoinNoWait ==
  /\ runner = "join" /\ runner' = "exit"
  /\ UNCHANGED <<wrote, buffered, flushing, pipeVars, writerVars, readerVars, clientVars, toClient>>

\* ... and waits for the writer, for at most a minute, after which it raises.
Join ==
  /\ runner = "join"
  /\ runner' = IF writer \in {"done", "crashed"} THEN "exit" ELSE "error"
  /\ UNCHANGED <<wrote, buffered, flushing, pipeVars, writerVars, readerVars, clientVars, toClient>>

SendError == SendLocked("error", Chunk("error", 0), "exit")

\* DaemonExiter.exit: the exit code, and the socket is shut down.
SendExit == SendLocked("exit", Chunk("exit", 0), "closing")

\* The pipes are closed, the threads stopped and joined for some seconds, the request closed.
Close ==
  /\ runner = "closing" /\ runner' = "ended"
  /\ writer' = IF writer \in {"done", "crashed"} THEN writer ELSE "stopped"
  /\ UNCHANGED <<wrote, buffered, flushing, pipeVars, inFds, readable, hand, readerVars, clientVars, toClient>>

Runner ==
  \/ SendPid \/ OpenInput \/ SendStart \/ OpenOutput
  \/ (\E s \in Stream : Write(s)) \/ Flush \/ RunEnds
  \/ StopWriting \/ Join \/ SendError \/ SendExit \/ Close

-----------------------------------------------------------------------------
(* PipedNailgunStreamWriter.run: it does not use the socket's lock. *)

Select ==
  /\ writer = "select"
  /\ readable' = {s \in inFds : pipe[s] > 0} /\ overlooked' = overlooked \ inFds
  /\ writer' = IF readable' = {} THEN "check" ELSE "copy"
  /\ UNCHANGED <<runVars, pipe, writable, inFds, hand, readerVars, clientVars, toClient>>

\* do_run with nothing readable: pipes that are no longer written to are dropped.  The list is
\* changed while it is iterated, so that the pipe after a dropped one has to wait.
DropPipes ==
  LET ended == {s \in inFds : ~writable[s]}
  IN /\ writer = "check"
     /\ inFds' = IF ended = {} THEN inFds ELSE inFds \ {First(ended)}
     /\ writer' = IF inFds' = {} THEN "done" ELSE "select"
     /\ UNCHANGED <<runVars, pipeVars, readable, hand, readerVars, clientVars, toClient>>

\* os.read, of what is there or less.
ReadPipe(s) ==
  /\ writer = "copy" /\ hand = Nothing /\ s \in readable
  /\ readable' = readable \ {s}
  /\ \E n \in 1 .. pipe[s] : hand' = Chunk(s, n) /\ pipe' = [pipe EXCEPT ![s] = @ - n]
  /\ UNCHANGED <<runVars, writable, overlooked, writer, inFds, readerVars, clientVars, toClient>>

SendPiece ==
  /\ writer = "copy" /\ hand # Nothing /\ Room /\ ~Gone /\ ~isShutdown
  /\ Send(hand) /\ hand' = Nothing
  /\ writer' = IF readable = {} THEN "select" ELSE "copy"
  /\ UNCHANGED <<runVars, pipeVars, inFds, readable, readerVars, clientVars>>

\* sendall raises, and with it the thread ends: the client is gone, the socket is shut down, or
\* the socket is full and has the timeout which the stdin reader sets on it while it polls.
SendRaises ==
  /\ writer = "copy" /\ hand # Nothing
  /\ Gone \/ isShutdown \/ (~Room /\ lock = "reader")
  /\ writer' = "crashed"
  /\ UNCHANGED <<runVars, pipeVars, inFds, readable, hand, readerVars, clientVars, toClient>>

Writer == Select \/ DropPipes \/ (\E s \in Stream : ReadPipe(s)) \/ SendPiece \/ SendRaises

-----------------------------------------------------------------------------
(* NailgunStreamStdinReader.run: iter_chunks polls under the lock. *)

ReaderPollsUnchecked ==
  /\ reader = "idle" /\ lock = "free" /\ lock' = "reader" /\ reader' = "polling"
  /\ UNCHANGED <<runVars, pipeVars, writerVars, isShutdown, toServer, clientVars, toClient>>

ReaderPolls ==
  /\ reader = "idle" /\ lock = "free"
  /\ \/ isShutdown /\ reader' = "done" /\ UNCHANGED lock
     \/ ~isShutdown /\ lock' = "reader" /\ reader' = "polling"
  /\ UNCHANGED <<runVars, pipeVars, writerVars, isShutdown, toServer, clientVars, toClient>>


\* A chunk, the end of the input, the end of the connection, or nothing for a hundredth of a second.
ReaderReads ==
  /\ reader = "polling" /\ lock' = "free"
  /\ \/ toServer # <<>> /\ toServer' = Tail(toServer)
        /\ reader' = IF Head(toServer) = "stdin_eof" THEN "done" ELSE "idle"
     \/ toServer = <<>> /\ Gone /\ reader' = "done" /\ UNCHANGED toServer
     \/ toServer = <<>> /\ ~Gone /\ reader' = "idle" /\ UNCHANGED toServer
  /\ UNCHANGED <<runVars, pipeVars, writerVars, isShutdown, clientVars, toClient>>

Reader == ReaderPolls \/ ReaderReads

-----------------------------------------------------------------------------
(* NailgunClientSession. *)

DaemonDies == runner' = "killed" /\ writer' = "crashed" /\ reader' = "done" /\ lock' = "free"
DaemonStays == UNCHANGED <<runner, writer, reader, lock>>

\* _process_session's finally: a session that was interrupted kills the daemon, if it was told
\* its pid, before it raises.
Ends(how) ==
  \/ signalled /\ client' = "interrupted" /\ (IF pidKnown THEN DaemonDies ELSE DaemonStays)
  \/ ~signalled /\ client' = how /\ DaemonStays

\* _process_session: the next chunk.
ReceiveChunk ==
  LET c == Head(toClient)
  IN /\ client = "reading" /\ toClient # <<>> /\ toClient' = Tail(toClient)
     /\ \/ c.type = "exit" /\ Ends("done")
        \/ c.type # "exit" /\ UNCHANGED client /\ DaemonStays
     /\ received' = IF c.type \in Stream THEN [received EXCEPT ![c.type] = @ + c.n] ELSE received
     /\ told' = (told \/ c.type = "error")
     /\ pidKnown' = (pidKnown \/ c.type = "pid")
     /\ input' = IF c.type = "start" THEN "on" ELSE input
     /\ UNCHANGED <<wrote, buffered, flushing, pipeVars, inFds, readable, hand, isShutdown, toServer, signalled>>

\* The connection is closed before the exit chunk.
ConnectionLost ==
  /\ client = "reading" /\ toClient = <<>> /\ ~Served /\ Ends("lost")
  /\ UNCHANGED <<wrote, buffered, flushing, pipeVars, inFds, readable, hand, isShutdown, toServer, received, told,
                 pidKnown, input, signalled, toClient>>

\* The client's NailgunStreamWriter, once the server asked for input.
SendInput ==
  /\ client = "reading" /\ input = "on"
  /\ \E c \in {"stdin", "stdin_eof"} :
       toServer' = Append(toServer, c) /\ input' = IF c = "stdin" THEN "sent" ELSE "done"
  /\ UNCHANGED <<runVars, pipeVars, writerVars, reader, lock, isShutdown, client, received, told,
                 pidKnown, signalled, toClient>>

\* The user interrupts.  Before the pid is known SIGINT just ends the client; otherwise the exit
\* timeout is set and the signal forwarded, to the daemon if its pid is known, which ends it
\* unless it is ignoring SIGINT.
Interrupt ==
  /\ client = "reading" /\ ~signalled
  /\ \/ ~pidKnown /\ client' = "interrupted" /\ UNCHANGED signalled /\ DaemonStays
     \/ signalled' = TRUE /\ UNCHANGED client /\ (DaemonStays \/ (pidKnown /\ DaemonDies))
  /\ UNCHANGED <<wrote, buffered, flushing, pipeVars, inFds, readable, hand, isShutdown, toServer, received, told,
                 pidKnown, input, toClient>>

\* The client is killed, or its own output is closed.
ClientDies ==
  /\ client = "reading" /\ client' = "dead"
  /\ UNCHANGED <<runVars, pipeVars, writerVars, readerVars, received, told, pidKnown, input, signalled, toClient>>

\* The daemon is terminated in the middle of a request, by another client or by its own services.
DaemonTerminated ==
  /\ Served /\ DaemonDies
  /\ UNCHANGED <<wrote, buffered, flushing, pipeVars, inFds, readable, hand, isShutdown, toServer, clientVars, toClient>>

-----------------------------------------------------------------------------

SessionInit ==
  /\ runner = "pid" /\ writer = "off" /\ reader = "off" /\ client = "reading"
  /\ wrote = [s \in Stream |-> 0] /\ buffered = wrote /\ pipe = wrote /\ received = wrote
  /\ writable = [s \in Stream |-> TRUE]
  /\ flushing = {} /\ overlooked = {} /\ inFds = {} /\ readable = {} /\ hand = Nothing
  /\ lock = "free" /\ isShutdown = FALSE /\ toClient = <<>> /\ toServer = <<>>
  /\ told = FALSE /\ pidKnown = FALSE /\ input = "off" /\ signalled = FALSE

Client == ReceiveChunk \/ ConnectionLost

SessionNext ==
  \/ Runner \/ Writer \/ Reader
  \/ Client \/ SendInput \/ Interrupt \/ ClientDies \/ DaemonTerminated

(***************************************************************************)
(* Threads run and the client reads.  A thread that waits for the socket's *)
(* lock gets it in the end although the reader takes it again and again.   *)
(***************************************************************************)
SessionSpec ==
  /\ SessionInit /\ [][SessionNext]_sessionVars
  /\ WF_sessionVars(Writer) /\ WF_sessionVars(Reader) /\ WF_sessionVars(Client) /\ SF_sessionVars(Runner)

-----------------------------------------------------------------------------

\* The exit code comes after the output.  A client that has it, and was not sent the finalizer's
\* exception, has received all that the run wrote to a stream, with two exceptions: the writer
\* thread was ended by an exception of its own, of which nobody tells the client; or the last
\* pieces came into the pipe between a select that found nothing and the look whether the pipe is
\* still written to, and stay in it.
OutputBeforeExit ==
  client = "done" /\ writer # "crashed" /\ ~told =>
    \A s \in Stream : received[s] = wrote[s] \/ (s \in overlooked /\ received[s] + pipe[s] = wrote[s])

\* MaybeShutdownSocket: nobody reads from the socket once it is shut down.
NoReadAfterShutdown == isShutdown => reader # "polling"

\* The request's thread waits for room in a pipe that nobody reads any more: the writer thread was
\* ended by an exception, and the pipe's read end stays open until the request is over.
Abandoned ==
  /\ runner \in {"running", "stop"} /\ flushing # {} /\ writer = "crashed"
  /\ pipe[First(flushing)] = PipeSize

=============================================================================
