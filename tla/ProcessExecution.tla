-------------------------- MODULE ProcessExecution --------------------------
(***************************************************************************)
(* How an ExecuteProcess node gets its result (process_execution): the     *)
(* cache in front, then a primary and a secondary runner of which the      *)
(* second starts after a delay (speculate.rs), each behind a semaphore     *)
(* (BoundedCommandRunner), one running the process here (local.rs), the    *)
(* other through the remote execution protocol (remote.rs) with its        *)
(* polls, retries, uploads, time limit and cancellations.                  *)
(*                                                                         *)
(* The server is external: it creates an operation for an Execute call and *)
(* ends it when it likes.  Which of the waiting futures a semaphore serves *)
(* is left to AsyncSemaphore; here one is served when a permit is free.    *)
(***************************************************************************)
EXTENDS Naturals, FiniteSets

CONSTANTS
  Request,
  Key,           \* digest of each request: what its result is cached under
  Orders,        \* the runners each request may use, the primary first
  Permits,       \* process_execution_local_parallelism and _remote_parallelism
  MaxAttempts,   \* 5: attempts after which a retryable error is final
  MaxMissing     \* bound: how often the server misses digests

Runner == {"local", "remote"}

ASSUME ProcessAssumption ==
  /\ \A o \in Orders : o \in [Request -> {<<"local">>, <<"remote">>, <<"local", "remote">>, <<"remote", "local">>}]
  /\ Permits \in [Runner -> Nat \ {0}]
  /\ MaxAttempts \in Nat \ {0} /\ MaxMissing \in Nat

VARIABLES
  cached,        \* the keys in process_execution_store
  order,         \* Orders of this configuration and these platforms
  request,       \* where the node is; at the end, its answer
  local, remote, \* where each of its runners is
  attempt,       \* total_attempt_count
  operation,     \* the server's view of each attempt, and whether its name was received
  token,         \* the attempt whose CancelRemoteExecutionToken is armed, or 0
  late,          \* elapsed > total_timeout
  missing

remoteVars == <<attempt, operation, token, late, missing>>
vars == <<cached, order, request, local, remote, remoteVars>>

Attempts == 1 .. MaxAttempts + MaxMissing

Primary(r) == order[r][1]
Speculating(r) == DOMAIN order[r] = {1, 2}
Secondary(r) == order[r][2]

Where(r, k) == IF k = "local" THEN local[r] ELSE remote[r]
Holders(k) == {r \in Request : Where(r, k) \notin {"off", "queued", "failed", "gone"}}

-----------------------------------------------------------------------------
(* The cancellation token. *)

Disarm(r) == token' = [token EXCEPT ![r] = 0] /\ UNCHANGED operation

\* Drop: the server is told, if the operation may still run.
SendCancel(r) ==
  /\ token' = [token EXCEPT ![r] = 0]
  /\ operation' = IF token[r] # 0 /\ operation[r][token[r]] = "named"
                  THEN [operation EXCEPT ![r][token[r]] = "canceled"] ELSE operation

-----------------------------------------------------------------------------
(* SpeculatingCommandRunner and the cache around it. *)

\* cache::CommandRunner.run: a result that is found and can be loaded, or the runners.
Lookup(r) ==
  /\ request[r] = "lookup"
  /\ \/ /\ Key[r] \in cached /\ request' = [request EXCEPT ![r] = "ok"]
        /\ UNCHANGED <<local, remote>>
     \/ /\ request' = [request EXCEPT ![r] = "racing"]
        /\ local' = [local EXCEPT ![r] = IF Primary(r) = "local" THEN "queued" ELSE @]
        /\ remote' = [remote EXCEPT ![r] = IF Primary(r) = "remote" THEN "queued" ELSE @]
  /\ UNCHANGED <<cached, order, remoteVars>>

\* speculate: the delay is over, whether or not the primary has begun.
SecondaryStarts(r) ==
  /\ request[r] = "racing" /\ Speculating(r) /\ Where(r, Secondary(r)) = "off"
  /\ IF Secondary(r) = "local"
     THEN local' = [local EXCEPT ![r] = "queued"] /\ UNCHANGED remote
     ELSE remote' = [remote EXCEPT ![r] = "queued"] /\ UNCHANGED local
  /\ UNCHANGED <<cached, order, request, remoteVars>>

Ended(r, k, where, other) ==
  /\ local' = [local EXCEPT ![r] = IF k = "local" THEN where ELSE other]
  /\ remote' = [remote EXCEPT ![r] = IF k = "remote" THEN where ELSE other]

\* The answer is there, and the future of the other runner is dropped.
Finish(r, k, result) ==
  /\ request' = [request EXCEPT ![r] = IF result = "ok" THEN "storing" ELSE result]
  /\ Ended(r, k, IF result = "error" THEN "failed" ELSE "gone", "gone")

FailsAtOnce(r, k) == Finish(r, k, "error")

\* Runner k returns an error: the primary's is the answer, the secondary's is not shown.
Fails(r, k) ==
  \/ /\ Speculating(r) /\ k = Secondary(r)
     /\ Ended(r, k, "failed", Where(r, Primary(r))) /\ UNCHANGED request
  \/ k = Primary(r) /\ Finish(r, k, "error")

\* Results of processes that succeeded are cached; an error of the store is ignored.
Store(r) ==
  /\ request[r] = "storing"
  /\ request' = [request EXCEPT ![r] = "ok"]
  /\ cached' \in {cached, cached \cup {Key[r]}}
  /\ UNCHANGED <<order, local, remote, remoteVars>>

-----------------------------------------------------------------------------
(* BoundedCommandRunner and the local runner. *)

Acquire(r, k) ==
  /\ Where(r, k) = "queued" /\ Cardinality(Holders(k)) < Permits[k]
  /\ IF k = "local" THEN local' = [local EXCEPT ![r] = "running"] /\ UNCHANGED remote
                    ELSE remote' = [remote EXCEPT ![r] = "uploading"] /\ UNCHANGED local
  /\ UNCHANGED <<cached, order, request, remoteVars>>

\* run_and_capture_workdir: the process ends, exceeds its time limit or cannot be run.  If that
\* ends the race the remote runner's future is dropped, and with it its token.
LocalEnds(r) ==
  /\ local[r] = "running"
  /\ Fails(r, "local") \/ \E result \in {"ok", "failed", "timeout"} : Finish(r, "local", result)
  /\ IF remote'[r] = "gone" THEN SendCancel(r) ELSE UNCHANGED <<token, operation>>
  /\ UNCHANGED <<cached, order, attempt, late, missing>>

-----------------------------------------------------------------------------
(* remote::CommandRunner.run. *)

Goto(r, where) == remote' = [remote EXCEPT ![r] = where] /\ UNCHANGED <<request, local>>
RemoteFails(r) == Fails(r, "remote")

\* ensure_remote_has_recursive, of all inputs at first and of what the server misses later.
Upload(r) ==
  /\ remote[r] = "uploading"
  /\ Goto(r, "sending") \/ RemoteFails(r)
  /\ UNCHANGED <<cached, order, remoteVars>>

\* oneshot_execute.
SendExecute(r) ==
  /\ remote[r] = "sending" /\ Goto(r, "executing")
  /\ attempt' = [attempt EXCEPT ![r] = @ + 1]
  /\ UNCHANGED <<cached, order, operation, token, late, missing>>

ServerStarts(r) ==
  /\ remote[r] = "executing" /\ operation[r][attempt[r]] = "none"
  /\ operation' = [operation EXCEPT ![r][attempt[r]] = "started"]
  /\ UNCHANGED <<cached, order, request, local, remote, attempt, token, late, missing>>

ServerEnds(r, n) ==
  /\ operation[r][n] \in {"started", "named", "canceled"}
  /\ operation' = [operation EXCEPT ![r][n] = "over"]
  /\ UNCHANGED <<cached, order, request, local, remote, attempt, token, late, missing>>

\* start_time is taken when the first Execute call was answered.
TimePasses(r) ==
  /\ ~late[r] /\ r \in Holders("remote")
  /\ attempt[r] > 1 \/ (attempt[r] = 1 /\ remote[r] # "executing")
  /\ late' = [late EXCEPT ![r] = TRUE]
  /\ UNCHANGED <<cached, order, request, local, remote, attempt, operation, token, missing>>

RetryOneMore(r) ==
  \/ attempt[r] > MaxAttempts /\ RemoteFails(r)
  \/ attempt[r] <= MaxAttempts /\ Goto(r, "sending")

\* ExecutionError::Retryable, through retry_execution.
Retry(r) ==
  \/ attempt[r] >= MaxAttempts /\ RemoteFails(r)
  \/ attempt[r] < MaxAttempts /\ Goto(r, "sending")

\* extract_execute_response and what run makes of a status that is not Ok: the token is disarmed.
StatusReceived(r) ==
  /\ \/ RemoteFails(r) /\ UNCHANGED missing            \* Fatal
     \/ Retry(r) /\ UNCHANGED missing
     \/ /\ missing[r] < MaxMissing                              \* MissingDigests
        /\ missing' = [missing EXCEPT ![r] = @ + 1] /\ Goto(r, "uploading")
  /\ UNCHANGED <<attempt, late>>

NotFinishedForever(r) ==
  /\ Goto(r, "backoff") /\ UNCHANGED <<token, operation>>
  /\ UNCHANGED <<attempt, late, missing>>

NotFinishedGivesUp(r) ==
  /\ \/ late[r] /\ Finish(r, "remote", "timeout") /\ Disarm(r)
     \/ ~late[r] /\ Goto(r, "backoff") /\ UNCHANGED <<token, operation>>
  /\ UNCHANGED <<attempt, late, missing>>

\* ExecutionError::NotFinished: too much time has passed, or the operation is polled again.
NotFinished(r) ==
  /\ \/ late[r] /\ Finish(r, "remote", "timeout") /\ SendCancel(r)
     \/ ~late[r] /\ Goto(r, "backoff") /\ UNCHANGED <<token, operation>>
  /\ UNCHANGED <<attempt, late, missing>>

\* The answer to Execute: an operation, of which the token is made, a status, or an error of the
\* call.  The operation may exist although the call failed.
ExecuteAnswered(r) ==
  LET n == attempt[r] IN
  /\ remote[r] = "executing"
  /\ \/ /\ operation[r][n] = "started" /\ ~late[r] /\ Goto(r, "backoff")
        /\ operation' = [operation EXCEPT ![r][n] = "named"] /\ token' = [token EXCEPT ![r] = n]
        /\ UNCHANGED <<attempt, late, missing>>
     \/ /\ operation[r][n] = "started" /\ late[r] /\ Finish(r, "remote", "timeout")
        /\ operation' = [operation EXCEPT ![r][n] = "canceled"]
        /\ UNCHANGED <<attempt, token, late, missing>>
     \/ /\ operation[r][n] = "over" /\ Goto(r, "fetching") /\ token' = [token EXCEPT ![r] = n]
        /\ UNCHANGED <<attempt, operation, late, missing>>
     \/ StatusReceived(r) /\ UNCHANGED <<operation, token>>
     \/ RemoteFails(r) /\ UNCHANGED remoteVars
  /\ UNCHANGED <<cached, order>>

\* The delay between polls.
Backoff(r) ==
  /\ remote[r] = "backoff" /\ Goto(r, "polling")
  /\ UNCHANGED <<cached, order, remoteVars>>

\* The answer to GetOperation, which may be older than what the server has done since.  A
\* cancelled call counts as an operation that has not finished (rpcerror_recover_cancelled).
OperationPolled(r) ==
  /\ remote[r] = "polling"
  /\ \/ NotFinished(r)
     \/ /\ operation[r][token[r]] = "over"
        /\ \/ Goto(r, "fetching") /\ UNCHANGED remoteVars
           \/ StatusReceived(r) /\ Disarm(r)
     \/ RemoteFails(r) /\ SendCancel(r) /\ UNCHANGED <<attempt, late, missing>>
  /\ UNCHANGED <<cached, order>>

\* populate_fallible_execution_result; what cannot be fetched is Fatal.
Fetched(r) ==
  /\ remote[r] = "fetching"
  /\ RemoteFails(r) \/ \E result \in {"ok", "failed"} : Finish(r, "remote", result)
  /\ Disarm(r)
  /\ UNCHANGED <<cached, order, attempt, late, missing>>

RemoteStep(r) ==
  \/ Upload(r) \/ SendExecute(r) \/ ExecuteAnswered(r) \/ Backoff(r) \/ OperationPolled(r) \/ Fetched(r)

-----------------------------------------------------------------------------

Init ==
  /\ cached = {} /\ order \in Orders
  /\ request = [r \in Request |-> "lookup"]
  /\ local = [r \in Request |-> "off"] /\ remote = local
  /\ attempt = [r \in Request |-> 0]
  /\ operation = [r \in Request |-> [n \in Attempts |-> "none"]]
  /\ token = [r \in Request |-> 0] /\ late = [r \in Request |-> FALSE]
  /\ missing = [r \in Request |-> 0]

Next ==
  \E r \in Request :
    \/ Lookup(r) \/ SecondaryStarts(r) \/ Store(r) \/ (\E k \in Runner : Acquire(r, k))
    \/ LocalEnds(r) \/ RemoteStep(r) \/ TimePasses(r)
    \/ ServerStarts(r) \/ \E n \in Attempts : ServerEnds(r, n)

\* Processes here end or exceed their time limit, calls are answered, futures that are ready are
\* polled and time passes.  The server need not end any operation.
Spec ==
  /\ Init /\ [][Next]_vars
  /\ \A r \in Request : WF_vars(LocalEnds(r)) /\ WF_vars(RemoteStep(r)) /\ WF_vars(TimePasses(r))

-----------------------------------------------------------------------------

\* CancelRemoteExecutionToken: an operation whose name was received and that may still run is
\* followed, or the server was asked to cancel it, whatever ended the following: the other runner
\* won, the time was over, a call failed, the process is tried again.
NoneForgotten ==
  \A r \in Request : \A n \in Attempts : operation[r][n] = "named" => token[r] = n

\* speculate: the request fails only if the primary runner did.  An error of the secondary, before
\* or after the primary has begun, neither ends the request nor the primary.
PrimaryDecides ==
  \A r \in Request : request[r] = "error" => Where(r, Primary(r)) = "failed"

\* Retryable errors are retried until there were MaxAttempts calls in all; every further one was
\* made because the server missed digests.
AttemptsBounded == \A r \in Request : attempt[r] <= MaxAttempts + missing[r]

\* A permit of a runner comes back, although the server may never end the operation, may report
\* retryable errors for ever, and the future that holds it may be dropped.
PermitsComeBack ==
  \A r \in Request : \A k \in Runner : (r \in Holders(k)) ~> (r \notin Holders(k))
=============================================================================
