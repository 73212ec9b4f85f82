----------------------- MODULE ProcessExecutionProofs -----------------------
(***************************************************************************)
(* No operation the client knows of is forgotten, only the primary runner  *)
(* makes a request fail, and there are never too many calls: for any       *)
(* number of requests, permits, attempts and lost calls.                   *)
(*                                                                         *)
(* NoneForgotten is not inductive: a token may only be replaced or         *)
(* disarmed where there is nothing left to cancel.  TokenInv adds that an  *)
(* operation is named only while its future is between two polls, and that *)
(* a request that is still looking in the cache has no remote runner.      *)
(***************************************************************************)
EXTENDS ProcessExecution, TLAPS

Places == {"off", "queued", "uploading", "sending", "executing", "backoff", "polling", "fetching",
           "failed", "gone"}
Stages == {"lookup", "racing", "storing", "ok", "failed", "timeout", "error"}
Operations == {"none", "started", "named", "canceled", "over"}

TokenType ==
  /\ order \in Orders
  /\ remote \in [Request -> Places]
  /\ request \in [Request -> Stages]
  /\ attempt \in [Request -> Nat] /\ token \in [Request -> Nat]
  /\ operation \in [Request -> [Attempts -> Operations]]

(* An operation is named only while its future polls it. *)
NamedIsPolled ==
  \A r \in Request : \A n \in Attempts :
    operation[r][n] = "named" => token[r] = n /\ remote[r] \in {"backoff", "polling"}

NotYetRemote == \A r \in Request : request[r] = "lookup" => remote[r] = "off"

TokenInv == TokenType /\ NamedIsPolled /\ NotYetRemote

LEMMA AttemptsArePositive == Attempts \subseteq Nat \ {0}
  BY ProcessAssumption DEF Attempts

(* A request that speculates has two different runners. *)
LEMMA OtherRunner ==
  ASSUME order \in Orders, NEW r \in Request, Speculating(r), Secondary(r) = "local"
  PROVE  Primary(r) = "remote"
<1>1. order[r] \in {<<"local">>, <<"remote">>, <<"local", "remote">>, <<"remote", "local">>}
  BY ProcessAssumption
<1>2. QED
  BY <1>1 DEF Speculating, Secondary, Primary

LEMMA TokenInit == Init => TokenInv
  BY DEF Init, TokenInv, TokenType, NamedIsPolled, NotYetRemote, Places, Stages, Operations

(* The cache, the race and the semaphores touch no token. *)
LEMMA RaceStep ==
  ASSUME TokenInv, NEW r \in Request,
         Lookup(r) \/ SecondaryStarts(r) \/ Store(r) \/ \E k \in Runner : Acquire(r, k)
  PROVE  TokenInv'
<1>1. CASE Lookup(r)
  <2>1. TokenType'
    BY <1>1 DEF Lookup, TokenInv, TokenType, Places, Stages, remoteVars
  <2>2. NamedIsPolled'
    BY <1>1 DEF Lookup, TokenInv, TokenType, NamedIsPolled, NotYetRemote, remoteVars
  <2>3. NotYetRemote'
    BY <1>1 DEF Lookup, TokenInv, TokenType, NotYetRemote, Stages
  <2>4. QED
    BY <2>1, <2>2, <2>3 DEF TokenInv
<1>2. CASE SecondaryStarts(r)
  <2>1. TokenType'
    BY <1>2 DEF SecondaryStarts, TokenInv, TokenType, Places, remoteVars
  <2>2. NamedIsPolled'
    BY <1>2 DEF SecondaryStarts, Where, TokenInv, TokenType, NamedIsPolled, remoteVars
  <2>3. NotYetRemote'
    BY <1>2 DEF SecondaryStarts, TokenInv, TokenType, NotYetRemote
  <2>4. QED
    BY <2>1, <2>2, <2>3 DEF TokenInv
<1>3. CASE Store(r)
  BY <1>3 DEF Store, TokenInv, TokenType, NamedIsPolled, NotYetRemote, Stages, remoteVars
<1>4. ASSUME NEW k \in Runner, Acquire(r, k) PROVE TokenInv'
  <2>1. CASE remote' = remote
    BY <1>4, <2>1 DEF Acquire, TokenInv, TokenType, NamedIsPolled, NotYetRemote, remoteVars
  <2>2. CASE remote[r] = "queued" /\ remote' = [remote EXCEPT ![r] = "uploading"]
    BY <1>4, <2>2 DEF Acquire, TokenInv, TokenType, NamedIsPolled, NotYetRemote, Places, remoteVars
  <2>3. QED
    BY <1>4, <2>1, <2>2 DEF Acquire, Where
<1>5. QED
  BY <1>1, <1>2, <1>3, <1>4

(* A step moves the remote runner of r, or ends it; no other request moves. *)
Moves(r) ==
  /\ remote' \in [Request -> Places] /\ request' \in [Request -> Stages]
  /\ request'[r] # "lookup"
  /\ \A q \in Request \ {r} : remote'[q] = remote[q] /\ request'[q] = request[q]

(* After a step nothing of r is named, and nothing of the others has changed. *)
Unnamed(r) ==
  /\ token' \in [Request -> Nat] /\ operation' \in [Request -> [Attempts -> Operations]]
  /\ \A n \in Attempts : operation'[r][n] # "named"
  /\ \A q \in Request \ {r} : token'[q] = token[q] /\ operation'[q] = operation[q]

LEMMA MovedAndUnnamed ==
  ASSUME TokenInv, NEW r \in Request, Moves(r), Unnamed(r), UNCHANGED <<order, attempt>>
  PROVE  TokenInv'
<1>1. TokenType'
  BY DEF Moves, Unnamed, TokenInv, TokenType
<1>2. NamedIsPolled'
  <2> SUFFICES ASSUME NEW q \in Request, NEW n \in Attempts, operation'[q][n] = "named"
               PROVE  token'[q] = n /\ remote'[q] \in {"backoff", "polling"}
    BY DEF NamedIsPolled
  <2>1. q # r
    BY DEF Unnamed
  <2>2. QED
    BY <2>1 DEF Moves, Unnamed, TokenInv, NamedIsPolled
<1>3. NotYetRemote'
  BY DEF Moves, TokenInv, NotYetRemote
<1>4. QED
  BY <1>1, <1>2, <1>3 DEF TokenInv

(* Where nothing was named, and the operations stay as they are. *)
LEMMA StillUnnamed ==
  ASSUME TokenInv, NEW r \in Request, operation' = operation,
         token' \in [Request -> Nat], \A q \in Request \ {r} : token'[q] = token[q],
         \A n \in Attempts : operation[r][n] # "named"
  PROVE  Unnamed(r)
  BY DEF Unnamed, TokenInv, TokenType

(* What a runner that ends makes of the request and of the remote runner. *)
LEMMA FinishEffect ==
  ASSUME TokenInv, NEW r \in Request, NEW k \in Runner,
         NEW result \in {"ok", "failed", "timeout", "error"}, Finish(r, k, result)
  PROVE  /\ Moves(r) /\ remote'[r] \in {"failed", "gone"} /\ (k = "local" => remote'[r] = "gone")
  BY DEF Moves, Finish, Ended, TokenInv, TokenType, Places, Stages

LEMMA RemoteFailsEffect ==
  ASSUME TokenInv, NEW r \in Request, RemoteFails(r), remote[r] # "off"
  PROVE  Moves(r) /\ remote'[r] \in {"failed", "gone"}
<1>1. CASE Finish(r, "remote", "error")
  BY <1>1, FinishEffect DEF Runner
<1>2. CASE Ended(r, "remote", "failed", Where(r, Primary(r))) /\ UNCHANGED request
  BY <1>2 DEF Moves, Ended, TokenInv, TokenType, Places, NotYetRemote
<1>3. QED
  BY <1>1, <1>2 DEF RemoteFails, Fails

(* A cancellation leaves nothing named. *)
LEMMA CancelEffect ==
  ASSUME TokenInv, NEW r \in Request, SendCancel(r)
  PROVE  Unnamed(r)
<1>1. token' \in [Request -> Nat] /\ \A q \in Request \ {r} : token'[q] = token[q]
  BY DEF SendCancel, TokenInv, TokenType
<1>2. CASE token[r] # 0 /\ operation[r][token[r]] = "named"
  <2>1. operation' = [operation EXCEPT ![r][token[r]] = "canceled"]
    BY <1>2 DEF SendCancel
  <2>2. \A n \in Attempts : n # token[r] => operation[r][n] # "named"
    BY DEF TokenInv, NamedIsPolled
  <2>3. QED
    BY <1>1, <2>1, <2>2 DEF Unnamed, TokenInv, TokenType, Operations
<1>3. CASE ~(token[r] # 0 /\ operation[r][token[r]] = "named")
  <2>1. operation' = operation
    BY <1>3 DEF SendCancel
  <2>2. \A n \in Attempts : operation[r][n] # "named"
    BY <1>3, AttemptsArePositive DEF TokenInv, NamedIsPolled
  <2>3. QED
    BY <1>1, <2>1, <2>2, StillUnnamed
<1>4. QED
  BY <1>2, <1>3

LEMMA LocalStep ==
  ASSUME TokenInv, NEW r \in Request, LocalEnds(r)
  PROVE  TokenInv'
<1>1. CASE \E result \in {"ok", "failed", "timeout", "error"} : Finish(r, "local", result)
  <2>1. Moves(r) /\ remote'[r] = "gone"
    BY <1>1, FinishEffect DEF Runner
  <2>2. SendCancel(r) /\ UNCHANGED <<order, attempt>>
    BY <2>1 DEF LocalEnds
  <2>3. QED
    BY <2>1, <2>2, CancelEffect, MovedAndUnnamed
<1>2. CASE /\ Speculating(r) /\ Secondary(r) = "local"
           /\ Ended(r, "local", "failed", Where(r, Primary(r))) /\ UNCHANGED request
  <2>1. remote' = remote
    BY <1>2, OtherRunner DEF Ended, Where, TokenInv, TokenType
  <2>2. UNCHANGED <<order, attempt, request>>
    BY <1>2 DEF LocalEnds
  <2>3. CASE SendCancel(r)
    <3>1. Unnamed(r)
      BY <2>3, CancelEffect
    <3>2. QED
      BY <2>1, <2>2, <3>1 DEF Unnamed, TokenInv, TokenType, NamedIsPolled, NotYetRemote
  <2>4. CASE UNCHANGED <<token, operation>>
    BY <2>1, <2>2, <2>4 DEF TokenInv, TokenType, NamedIsPolled, NotYetRemote
  <2>5. QED
    BY <2>3, <2>4 DEF LocalEnds
<1>3. QED
  BY <1>1, <1>2 DEF LocalEnds, Fails

(* Steps in which the remote runner of r goes on, named operation or not. *)
LEMMA StatusEffect ==
  ASSUME TokenInv, NEW r \in Request, StatusReceived(r), remote[r] # "off"
  PROVE  Moves(r) /\ attempt' = attempt
<1>1. CASE RemoteFails(r)
  BY <1>1, RemoteFailsEffect DEF StatusReceived
<1>2. CASE Goto(r, "sending") \/ Goto(r, "uploading")
  BY <1>2 DEF Moves, Goto, StatusReceived, TokenInv, TokenType, NotYetRemote, Places
<1>3. QED
  BY <1>1, <1>2 DEF StatusReceived, Retry

LEMMA NotFinishedStep ==
  ASSUME TokenInv, NEW r \in Request, remote[r] = "polling", NotFinished(r), UNCHANGED order
  PROVE  TokenInv'
<1>1. CASE Finish(r, "remote", "timeout") /\ SendCancel(r)
  <2>1. Moves(r)
    BY <1>1, FinishEffect DEF Runner
  <2>2. attempt' = attempt
    BY DEF NotFinished
  <2>3. QED
    BY <1>1, <2>1, <2>2, CancelEffect, MovedAndUnnamed
<1>2. CASE Goto(r, "backoff") /\ UNCHANGED <<token, operation>>
  BY <1>2 DEF NotFinished, Goto, TokenInv, TokenType, NamedIsPolled, NotYetRemote, Places
<1>3. QED
  BY <1>1, <1>2 DEF NotFinished

LEMMA ExecuteStep ==
  ASSUME TokenInv, NEW r \in Request, ExecuteAnswered(r)
  PROVE  TokenInv'
<1> DEFINE n == attempt[r]
<1>1. remote[r] = "executing" /\ order' = order /\ (\A m \in Attempts : operation[r][m] # "named")
  BY DEF ExecuteAnswered, TokenInv, NamedIsPolled
<1>2. CASE /\ operation[r][n] = "started" /\ Goto(r, "backoff")
           /\ operation' = [operation EXCEPT ![r][n] = "named"] /\ token' = [token EXCEPT ![r] = n]
           /\ UNCHANGED attempt
  <2>1. TokenType'
    BY <1>1, <1>2 DEF Goto, TokenInv, TokenType, Places, Operations
  <2>2. NotYetRemote'
    BY <1>1, <1>2 DEF Goto, TokenInv, TokenType, NotYetRemote
  <2>3. ASSUME NEW q \in Request, NEW m \in Attempts, operation'[q][m] = "named"
        PROVE  token'[q] = m /\ remote'[q] \in {"backoff", "polling"}
    <3>1. CASE q = r
      <4>1. m = n
        BY <1>1, <1>2, <2>3, <3>1 DEF TokenInv, TokenType
      <4>2. QED
        BY <1>2, <3>1, <4>1 DEF Goto, TokenInv, TokenType
    <3>2. CASE q # r
      <4>1. operation'[q] = operation[q] /\ token'[q] = token[q] /\ remote'[q] = remote[q]
        BY <1>2, <3>2 DEF Goto, TokenInv, TokenType
      <4>2. QED
        BY <2>3, <4>1 DEF TokenInv, NamedIsPolled
    <3>3. QED
      BY <3>1, <3>2
  <2>4. QED
    BY <2>1, <2>2, <2>3 DEF TokenInv, NamedIsPolled
<1>3. CASE /\ Finish(r, "remote", "timeout")
           /\ operation' = [operation EXCEPT ![r][n] = "canceled"] /\ UNCHANGED <<attempt, token>>
  <2>1. Moves(r)
    BY <1>3, FinishEffect DEF Runner
  <2>2. Unnamed(r)
    BY <1>1, <1>3 DEF Unnamed, TokenInv, TokenType, Operations
  <2>3. QED
    BY <1>1, <1>3, <2>1, <2>2, MovedAndUnnamed
<1>4. CASE Goto(r, "fetching") /\ token' = [token EXCEPT ![r] = n] /\ UNCHANGED <<attempt, operation>>
  BY <1>1, <1>4 DEF Goto, TokenInv, TokenType, NamedIsPolled, NotYetRemote, Places
<1>5. CASE StatusReceived(r) /\ UNCHANGED <<operation, token>>
  <2>1. Unnamed(r)
    BY <1>1, <1>5 DEF Unnamed, TokenInv, TokenType
  <2>2. QED
    BY <1>1, <1>5, <2>1, StatusEffect, MovedAndUnnamed
<1>6. CASE RemoteFails(r) /\ UNCHANGED remoteVars
  <2>1. Unnamed(r)
    BY <1>1, <1>6 DEF Unnamed, TokenInv, TokenType, remoteVars
  <2>2. attempt' = attempt
    BY <1>6 DEF remoteVars
  <2>3. QED
    BY <1>1, <1>6, <2>1, <2>2, RemoteFailsEffect, MovedAndUnnamed
<1>7. QED
  BY <1>2, <1>3, <1>4, <1>5, <1>6 DEF ExecuteAnswered

LEMMA PollStep ==
  ASSUME TokenInv, NEW r \in Request, OperationPolled(r)
  PROVE  TokenInv'
<1>1. remote[r] = "polling" /\ order' = order
  BY DEF OperationPolled
<1>2. CASE NotFinished(r)
  BY <1>1, <1>2, NotFinishedStep
<1>3. CASE operation[r][token[r]] = "over"
  <2>1. \A n \in Attempts : operation[r][n] # "named"
    BY <1>3 DEF TokenInv, NamedIsPolled
  <2>2. CASE Goto(r, "fetching") /\ UNCHANGED remoteVars
    BY <1>1, <2>1, <2>2 DEF Goto, TokenInv, TokenType, NamedIsPolled, NotYetRemote, Places, remoteVars
  <2>3. CASE StatusReceived(r) /\ Disarm(r)
    <3>1. Unnamed(r)
      BY <2>1, <2>3 DEF Disarm, Unnamed, TokenInv, TokenType
    <3>2. QED
      BY <1>1, <2>3, <3>1, StatusEffect, MovedAndUnnamed
  <2>4. CASE NotFinished(r) \/ (RemoteFails(r) /\ SendCancel(r) /\ UNCHANGED attempt)
    BY <1>1, <2>4, NotFinishedStep, RemoteFailsEffect, CancelEffect, MovedAndUnnamed
  <2>5. QED
    BY <2>2, <2>3, <2>4 DEF OperationPolled
<1>4. CASE RemoteFails(r) /\ SendCancel(r) /\ UNCHANGED attempt
  BY <1>1, <1>4, RemoteFailsEffect, CancelEffect, MovedAndUnnamed
<1>5. QED
  BY <1>2, <1>3, <1>4 DEF OperationPolled

LEMMA OtherRemoteSteps ==
  ASSUME TokenInv, NEW r \in Request, Upload(r) \/ SendExecute(r) \/ Backoff(r) \/ Fetched(r)
  PROVE  TokenInv'
<1>1. CASE Upload(r) /\ Goto(r, "sending")
  BY <1>1 DEF Upload, Goto, TokenInv, TokenType, NamedIsPolled, NotYetRemote, Places, remoteVars
<1>2. CASE Upload(r) /\ RemoteFails(r)
  <2>1. remote[r] = "uploading" /\ UNCHANGED <<order, attempt, token, operation>>
    BY <1>2 DEF Upload, remoteVars
  <2>2. Moves(r)
    BY <1>2, <2>1, RemoteFailsEffect
  <2>3. \A n \in Attempts : operation[r][n] # "named"
    BY <2>1 DEF TokenInv, NamedIsPolled
  <2>4. Unnamed(r)
    BY <2>1, <2>3 DEF Unnamed, TokenInv, TokenType
  <2>5. QED
    BY <2>1, <2>2, <2>4, MovedAndUnnamed
<1>3. CASE SendExecute(r)
  BY <1>3 DEF SendExecute, Goto, TokenInv, TokenType, NamedIsPolled, NotYetRemote, Places
<1>4. CASE Backoff(r)
  BY <1>4 DEF Backoff, Goto, TokenInv, TokenType, NamedIsPolled, NotYetRemote, Places, remoteVars
<1>5. CASE Fetched(r)
  <2>1. Moves(r)
    BY <1>5, RemoteFailsEffect, FinishEffect DEF Fetched, Runner
  <2>2. QED
    BY <1>5, <2>1 DEF Moves, Fetched, Disarm, TokenInv, TokenType, NamedIsPolled, NotYetRemote
<1>6. QED
  BY <1>1, <1>2, <1>3, <1>4, <1>5 DEF Upload

LEMMA OutsideSteps ==
  ASSUME TokenInv, NEW r \in Request,
         TimePasses(r) \/ ServerStarts(r) \/ \E n \in Attempts : ServerEnds(r, n)
  PROVE  TokenInv'
<1>1. CASE TimePasses(r)
  BY <1>1 DEF TimePasses, TokenInv, TokenType, NamedIsPolled, NotYetRemote
<1>2. CASE ServerStarts(r)
  <2>1. UNCHANGED <<order, request, remote, attempt, token>>
    BY <1>2 DEF ServerStarts
  <2>2. operation' \in [Request -> [Attempts -> Operations]]
    BY <1>2 DEF ServerStarts, TokenInv, TokenType, Operations
  <2>3. \A q \in Request : \A n \in Attempts : operation'[q][n] = "named" => operation[q][n] = "named"
    BY <1>2 DEF ServerStarts, TokenInv, TokenType
  <2>4. QED
    BY <2>1, <2>2, <2>3 DEF TokenInv, TokenType, NamedIsPolled, NotYetRemote
<1>3. CASE \E n \in Attempts : ServerEnds(r, n)
  BY <1>3 DEF ServerEnds, TokenInv, TokenType, NamedIsPolled, NotYetRemote, Operations
<1>4. QED
  BY <1>1, <1>2, <1>3

LEMMA TokenStep == TokenInv /\ [Next]_vars => TokenInv'
<1> SUFFICES ASSUME TokenInv, [Next]_vars PROVE TokenInv'
  OBVIOUS
<1>1. CASE UNCHANGED vars
  BY <1>1 DEF vars, remoteVars, TokenInv, TokenType, NamedIsPolled, NotYetRemote
<1>2. CASE Next
  BY <1>2, RaceStep, LocalStep, ExecuteStep, PollStep, OtherRemoteSteps, OutsideSteps DEF Next, RemoteStep
<1>3. QED
  BY <1>1, <1>2

(* CancelRemoteExecutionToken: whatever ends the following of an operation whose name was        *)
(* received, the server is told unless the operation is over.                                    *)
THEOREM OperationsNeverForgotten == Spec => []NoneForgotten
<1>1. TokenInv => NoneForgotten
  BY DEF TokenInv, NamedIsPolled, NoneForgotten
<1>2. QED
  BY <1>1, TokenInit, TokenStep, PTL DEF Spec

-----------------------------------------------------------------------------
(***************************************************************************)
(* Who decides, and how often the server is asked.                         *)
(*                                                                         *)
(* Neither PrimaryDecides nor AttemptsBounded is inductive.  The first     *)
(* needs that nothing of a request moves any more once it has its answer,  *)
(* the second that a runner on its way to another Execute call has one     *)
(* left.                                                                   *)
(***************************************************************************)

Still == {"off", "failed", "gone"}
BeforeCall == {"off", "queued", "uploading", "sending"}

RaceType ==
  /\ local \in [Request -> {"off", "queued", "running", "failed", "gone"}]
  /\ missing \in [Request -> Nat]

(* A runner moves only while the request is racing. *)
OnlyRacing(r) == request[r] # "racing" => local[r] \in Still /\ remote[r] \in Still

ErrorIsPrimary(r) == request[r] = "error" => Where(r, Primary(r)) = "failed"

(* A runner that will make a call has not made as many as it may. *)
CallsLeft(r) ==
  /\ attempt[r] <= MaxAttempts + missing[r]
  /\ remote[r] \in BeforeCall => attempt[r] < MaxAttempts + missing[r]

RaceOf(r) == OnlyRacing(r) /\ ErrorIsPrimary(r) /\ CallsLeft(r)

RaceInv == TokenInv /\ RaceType /\ \A r \in Request : RaceOf(r)

LEMMA OtherRunnerIsLocal ==
  ASSUME order \in Orders, NEW r \in Request, Speculating(r), Secondary(r) = "remote"
  PROVE  Primary(r) = "local"
<1>1. order[r] \in {<<"local">>, <<"remote">>, <<"local", "remote">>, <<"remote", "local">>}
  BY ProcessAssumption
<1>2. QED
  BY <1>1 DEF Speculating, Secondary, Primary

LEMMA PrimaryIsRunner ==
  ASSUME order \in Orders, NEW r \in Request
  PROVE  Primary(r) \in Runner
<1>1. order[r] \in {<<"local">>, <<"remote">>, <<"local", "remote">>, <<"remote", "local">>}
  BY ProcessAssumption
<1>2. QED
  BY <1>1 DEF Primary, Runner

LEMMA RaceInit == Init => RaceInv
<1> SUFFICES ASSUME Init PROVE RaceInv
  OBVIOUS
<1>1. TokenInv
  BY TokenInit
<1>2. RaceType
  BY DEF Init, RaceType
<1>3. \A r \in Request : RaceOf(r)
  BY ProcessAssumption DEF Init, RaceOf, OnlyRacing, ErrorIsPrimary, CallsLeft, Still
<1>4. QED
  BY <1>1, <1>2, <1>3 DEF RaceInv

(* A step of r leaves the other requests alone. *)
Spares(r) ==
  \A q \in Request \ {r} : /\ local'[q] = local[q] /\ remote'[q] = remote[q] /\ request'[q] = request[q]
                          /\ attempt'[q] = attempt[q] /\ missing'[q] = missing[q]

LEMMA OneRequest ==
  ASSUME RaceInv, TokenInv', RaceType', order' = order, NEW r \in Request, Spares(r), RaceOf(r)'
  PROVE  RaceInv'
<1>1. ASSUME NEW q \in Request, q # r PROVE RaceOf(q)'
  <2>1. RaceOf(q)
    BY DEF RaceInv
  <2>2. /\ local'[q] = local[q] /\ remote'[q] = remote[q] /\ request'[q] = request[q]
        /\ attempt'[q] = attempt[q] /\ missing'[q] = missing[q]
    BY <1>1 DEF Spares
  <2>3. QED
    BY <2>1, <2>2 DEF RaceOf, OnlyRacing, ErrorIsPrimary, CallsLeft, Where, Primary
<1>2. QED
  BY <1>1 DEF RaceInv

(* What an answer, or an error that is not one, makes of the request and its runners. *)
LEMMA FinishRace ==
  ASSUME RaceInv, NEW r \in Request, NEW k \in Runner,
         NEW result \in {"ok", "failed", "timeout", "error"}, Finish(r, k, result),
         result = "error" => k = Primary(r), order' = order, UNCHANGED <<attempt, missing>>
  PROVE  RaceType' /\ Spares(r) /\ RaceOf(r)'
<1>1. /\ request' = [request EXCEPT ![r] = IF result = "ok" THEN "storing" ELSE result]
      /\ local' = [local EXCEPT ![r] = IF k = "local" THEN IF result = "error" THEN "failed" ELSE "gone" ELSE "gone"]
      /\ remote' = [remote EXCEPT ![r] = IF k = "remote" THEN IF result = "error" THEN "failed" ELSE "gone" ELSE "gone"]
  BY DEF Finish, Ended
<1>2. RaceType' /\ Spares(r)
  BY <1>1 DEF RaceInv, RaceType, Spares, TokenInv, TokenType
<1>3. local'[r] \in Still /\ remote'[r] \in {"failed", "gone"}
  BY <1>1 DEF RaceInv, RaceType, TokenInv, TokenType, Still
<1>4. ErrorIsPrimary(r)'
  <2>1. Primary(r)' = Primary(r)
    BY DEF Primary
  <2>2. CASE result = "error"
    BY <1>1, <2>1, <2>2 DEF ErrorIsPrimary, Where, Runner, RaceInv, RaceType, TokenInv, TokenType
  <2>3. CASE result # "error"
    BY <1>1, <2>3 DEF ErrorIsPrimary, RaceInv, RaceType, TokenInv, TokenType
  <2>4. QED
    BY <2>2, <2>3
<1>5. CallsLeft(r)'
  BY <1>3 DEF CallsLeft, BeforeCall, RaceInv, RaceOf
<1>6. QED
  BY <1>2, <1>3, <1>4, <1>5 DEF RaceOf, OnlyRacing, Still

LEMMA FailsRace ==
  ASSUME RaceInv, NEW r \in Request, NEW k \in Runner, Fails(r, k), request[r] = "racing",
         order' = order, UNCHANGED <<attempt, missing>>
  PROVE  RaceType' /\ Spares(r) /\ RaceOf(r)'
<1>1. CASE k = Primary(r) /\ Finish(r, k, "error")
  BY <1>1, FinishRace
<1>2. CASE /\ Speculating(r) /\ k = Secondary(r)
           /\ Ended(r, k, "failed", Where(r, Primary(r))) /\ UNCHANGED request
  <2>1. order \in Orders
    BY DEF RaceInv, TokenInv, TokenType
  <2>2. CASE k = "local"
    <3>1. local' = [local EXCEPT ![r] = "failed"] /\ remote' = remote
      BY <1>2, <2>1, <2>2, OtherRunner DEF Ended, Where, RaceInv, TokenInv, TokenType
    <3>2. QED
      BY <1>2, <3>1 DEF RaceInv, RaceType, Spares, RaceOf, OnlyRacing, ErrorIsPrimary, CallsLeft
  <2>3. CASE k = "remote"
    <3>1. remote' = [remote EXCEPT ![r] = "failed"] /\ local' = local
      BY <1>2, <2>1, <2>3, OtherRunnerIsLocal DEF Ended, Where, RaceInv, RaceType
    <3>2. QED
      BY <1>2, <3>1 DEF RaceInv, RaceType, Spares, RaceOf, OnlyRacing, ErrorIsPrimary, CallsLeft, TokenInv, TokenType,
                        BeforeCall
  <2>4. QED
    BY <2>2, <2>3 DEF Runner
<1>3. QED
  BY <1>1, <1>2 DEF Fails

LEMMA RacingNow ==
  ASSUME RaceInv, NEW r \in Request, local[r] \notin Still \/ remote[r] \notin Still
  PROVE  request[r] = "racing"
  BY DEF RaceInv, RaceOf, OnlyRacing

(* The remote runner goes to a place of its path, where it may make another call or not. *)
LEMMA GotoRace ==
  ASSUME RaceInv, NEW r \in Request, request[r] = "racing", NEW where \in Places, Goto(r, where), order' = order,
         attempt' = attempt, missing' \in [Request -> Nat], missing'[r] >= missing[r],
         \A q \in Request \ {r} : missing'[q] = missing[q],
         where \in BeforeCall => attempt[r] < MaxAttempts + missing'[r]
  PROVE  RaceType' /\ Spares(r) /\ RaceOf(r)'
<1>1. RaceType' /\ Spares(r)
  BY DEF Goto, RaceInv, RaceType, Spares, TokenInv, TokenType
<1>2. OnlyRacing(r)' /\ ErrorIsPrimary(r)'
  BY DEF Goto, OnlyRacing, ErrorIsPrimary
<1>3. CallsLeft(r)'
  <2>1. attempt[r] \in Nat /\ missing[r] \in Nat /\ missing'[r] \in Nat /\ MaxAttempts \in Nat
    BY ProcessAssumption DEF RaceInv, RaceType, TokenInv, TokenType
  <2>2. attempt[r] <= MaxAttempts + missing[r] /\ remote'[r] = where
    BY DEF Goto, RaceInv, RaceOf, CallsLeft, TokenInv, TokenType
  <2>3. QED
    BY <2>1, <2>2 DEF CallsLeft
<1>4. QED
  BY <1>1, <1>2, <1>3 DEF RaceOf

LEMMA UntouchedRace ==
  ASSUME RaceInv, TokenInv', UNCHANGED <<order, request, local, remote, attempt, missing>>
  PROVE  RaceInv'
  BY DEF RaceInv, RaceType, RaceOf, OnlyRacing, ErrorIsPrimary, CallsLeft, Where, Primary

LEMMA StartingSteps ==
  ASSUME RaceInv, TokenInv', NEW r \in Request,
         Lookup(r) \/ SecondaryStarts(r) \/ Store(r) \/ \E k \in Runner : Acquire(r, k)
  PROVE  RaceInv'
<1>1. /\ order' = order /\ UNCHANGED <<attempt, missing>>
      /\ Primary(r) \in Runner /\ order \in Orders
  BY PrimaryIsRunner DEF Lookup, SecondaryStarts, Store, Acquire, remoteVars, RaceInv, TokenInv, TokenType
<1>2. /\ remote \in [Request -> Places] /\ request \in [Request -> Stages] /\ RaceType /\ RaceOf(r)
      /\ request[r] = "lookup" => remote[r] = "off"
  BY DEF RaceInv, TokenInv, TokenType, NotYetRemote
<1>3. RaceType' /\ Spares(r) /\ RaceOf(r)'
  <2>1. CASE Lookup(r)
    BY <1>1, <1>2, <2>1 DEF Lookup, RaceType, Spares, RaceOf, OnlyRacing, ErrorIsPrimary, CallsLeft, BeforeCall, Still
  <2>2. CASE SecondaryStarts(r)
    BY <1>1, <1>2, <2>2 DEF SecondaryStarts, Where, RaceType, Spares, RaceOf, OnlyRacing, ErrorIsPrimary, CallsLeft,
                            BeforeCall
  <2>3. CASE Store(r)
    BY <1>1, <1>2, <2>3 DEF Store, RaceType, Spares, RaceOf, OnlyRacing, ErrorIsPrimary, CallsLeft
  <2>4. ASSUME NEW k \in Runner, Acquire(r, k) PROVE RaceType' /\ Spares(r) /\ RaceOf(r)'
    <3>1. request[r] = "racing"
      BY <2>4, RacingNow DEF Acquire, Where, Still
    <3>2. QED
      BY <1>1, <1>2, <2>4, <3>1 DEF Acquire, Where, RaceType, Spares, RaceOf, OnlyRacing, ErrorIsPrimary, CallsLeft,
                                    BeforeCall
  <2>5. QED
    BY <2>1, <2>2, <2>3, <2>4
<1>4. QED
  BY <1>1, <1>3, OneRequest

LEMMA LocalRace ==
  ASSUME RaceInv, TokenInv', NEW r \in Request, LocalEnds(r)
  PROVE  RaceInv'
<1>1. order' = order /\ UNCHANGED <<attempt, missing>> /\ request[r] = "racing"
  BY RacingNow DEF LocalEnds, Still
<1>2. RaceType' /\ Spares(r) /\ RaceOf(r)'
  BY <1>1, FailsRace, FinishRace DEF LocalEnds, Runner
<1>3. QED
  BY <1>1, <1>2, OneRequest

LEMMA StatusRace ==
  ASSUME RaceInv, NEW r \in Request, request[r] = "racing", StatusReceived(r), order' = order
  PROVE  RaceType' /\ Spares(r) /\ RaceOf(r)'
<1>1. /\ attempt[r] \in Nat /\ missing[r] \in Nat /\ missing \in [Request -> Nat] /\ MaxAttempts \in Nat
      /\ attempt[r] <= MaxAttempts + missing[r] /\ attempt' = attempt
  BY ProcessAssumption DEF RaceInv, RaceType, RaceOf, CallsLeft, TokenInv, TokenType, StatusReceived
<1>2. CASE RemoteFails(r) /\ UNCHANGED missing
  BY <1>1, <1>2, FailsRace DEF RemoteFails, Runner
<1>3. CASE attempt[r] < MaxAttempts /\ Goto(r, "sending") /\ UNCHANGED missing
  <2>1. attempt[r] < MaxAttempts + missing'[r] /\ missing'[r] >= missing[r]
    BY <1>1, <1>3
  <2>2. QED
    BY <1>1, <1>3, <2>1, GotoRace DEF Places
<1>4. CASE missing' = [missing EXCEPT ![r] = @ + 1] /\ Goto(r, "uploading")
  <2>1. /\ missing'[r] = missing[r] + 1 /\ missing' \in [Request -> Nat]
        /\ \A q \in Request \ {r} : missing'[q] = missing[q]
    BY <1>1, <1>4
  <2>2. attempt[r] < MaxAttempts + missing'[r] /\ missing'[r] >= missing[r]
    BY <1>1, <2>1
  <2>3. QED
    BY <1>1, <1>4, <2>1, <2>2, GotoRace DEF Places
<1>5. QED
  BY <1>2, <1>3, <1>4 DEF StatusReceived, Retry

(* Steps that take the runner past its call, or end it. *)
LEMMA PastCallRace ==
  ASSUME RaceInv, NEW r \in Request, request[r] = "racing", order' = order, UNCHANGED <<attempt, missing>>,
         \/ \E where \in Places \ BeforeCall : Goto(r, where)
         \/ \E result \in {"ok", "failed", "timeout"} : Finish(r, "remote", result)
         \/ RemoteFails(r)
  PROVE  RaceType' /\ Spares(r) /\ RaceOf(r)'
<1>1. missing' \in [Request -> Nat] /\ missing'[r] >= missing[r]
  BY DEF RaceInv, RaceType
<1>2. CASE \E where \in Places \ BeforeCall : Goto(r, where)
  BY <1>1, <1>2, GotoRace
<1>3. CASE \E result \in {"ok", "failed", "timeout"} : Finish(r, "remote", result)
  BY <1>3, FinishRace DEF Runner
<1>4. CASE RemoteFails(r)
  BY <1>4, FailsRace DEF RemoteFails, Runner
<1>5. QED
  BY <1>2, <1>3, <1>4

LEMMA RemoteRace ==
  ASSUME RaceInv, TokenInv', NEW r \in Request, RemoteStep(r)
  PROVE  RaceInv'
<1>1. order' = order /\ request[r] = "racing"
  BY RacingNow DEF RemoteStep, Upload, SendExecute, ExecuteAnswered, Backoff, OperationPolled, Fetched, Still
<1>2. RaceType' /\ Spares(r) /\ RaceOf(r)'
  <2>1. CASE Upload(r) /\ Goto(r, "sending")
    <3>1. /\ missing' \in [Request -> Nat] /\ missing'[r] >= missing[r] /\ UNCHANGED <<attempt, missing>>
          /\ attempt[r] < MaxAttempts + missing'[r]
      BY <2>1 DEF Upload, remoteVars, RaceInv, RaceType, RaceOf, CallsLeft, BeforeCall
    <3>2. QED
      BY <1>1, <2>1, <3>1, GotoRace DEF Places
  <2>2. CASE Upload(r) /\ RemoteFails(r)
    BY <1>1, <2>2, PastCallRace DEF Upload, remoteVars
  <2>3. CASE SendExecute(r)
    <3>1. /\ attempt[r] \in Nat /\ missing[r] \in Nat /\ MaxAttempts \in Nat /\ missing' = missing
          /\ attempt[r] < MaxAttempts + missing[r] /\ attempt'[r] = attempt[r] + 1
      BY <2>3, ProcessAssumption
         DEF SendExecute, RaceInv, RaceType, RaceOf, CallsLeft, BeforeCall, TokenInv, TokenType
    <3>2. CallsLeft(r)'
      BY <2>3, <3>1 DEF CallsLeft, SendExecute, Goto, RaceInv, TokenInv, TokenType, BeforeCall
    <3>3. RaceType' /\ Spares(r) /\ OnlyRacing(r)' /\ ErrorIsPrimary(r)'
      BY <1>1, <2>3 DEF SendExecute, Goto, RaceInv, RaceType, Spares, OnlyRacing, ErrorIsPrimary, TokenInv, TokenType
    <3>4. QED
      BY <3>2, <3>3 DEF RaceOf
  <2>4. CASE ExecuteAnswered(r)
    <3>1. CASE StatusReceived(r)
      BY <1>1, <3>1, StatusRace
    <3>2. CASE /\ UNCHANGED <<attempt, missing>>
               /\ \/ Goto(r, "backoff") \/ Goto(r, "fetching") \/ Finish(r, "remote", "timeout")
                  \/ RemoteFails(r)
      BY <1>1, <3>2, PastCallRace DEF Places, BeforeCall
    <3>3. QED
      BY <2>4, <3>1, <3>2 DEF ExecuteAnswered, remoteVars
  <2>5. CASE Backoff(r)
    BY <1>1, <2>5, PastCallRace DEF Backoff, remoteVars, Places, BeforeCall
  <2>6. CASE OperationPolled(r)
    <3>1. CASE StatusReceived(r)
      BY <1>1, <3>1, StatusRace
    <3>2. CASE /\ UNCHANGED <<attempt, missing>>
               /\ \/ Goto(r, "backoff") \/ Goto(r, "fetching") \/ Finish(r, "remote", "timeout")
                  \/ RemoteFails(r)
      BY <1>1, <3>2, PastCallRace DEF Places, BeforeCall
    <3>3. QED
      BY <2>6, <3>1, <3>2 DEF OperationPolled, NotFinished, remoteVars
  <2>7. CASE Fetched(r)
    BY <1>1, <2>7, PastCallRace DEF Fetched
  <2>8. QED
    BY <2>1, <2>2, <2>3, <2>4, <2>5, <2>6, <2>7 DEF RemoteStep, Upload
<1>3. QED
  BY <1>1, <1>2, OneRequest

LEMMA RaceInvStep == RaceInv /\ [Next]_vars => RaceInv'
<1> SUFFICES ASSUME RaceInv, [Next]_vars PROVE RaceInv'
  OBVIOUS
<1>1. TokenInv'
  BY TokenStep DEF RaceInv
<1>2. CASE UNCHANGED vars
  BY <1>1, <1>2, UntouchedRace DEF vars, remoteVars
<1>3. ASSUME NEW r \in Request, TimePasses(r) \/ ServerStarts(r) \/ \E n \in Attempts : ServerEnds(r, n)
      PROVE  RaceInv'
  BY <1>1, <1>3, UntouchedRace DEF TimePasses, ServerStarts, ServerEnds
<1>4. CASE Next
  BY <1>1, <1>3, <1>4, StartingSteps, LocalRace, RemoteRace DEF Next
<1>5. QED
  BY <1>2, <1>4

(* SpeculatingCommandRunner: a request ends with an error only if its primary runner failed;     *)
(* what the secondary runner does, before, between or after, never decides that.                 *)
THEOREM OnlyPrimaryFails == Spec => []PrimaryDecides
<1>1. RaceInv => PrimaryDecides
  BY DEF RaceInv, RaceOf, ErrorIsPrimary, PrimaryDecides
<1>2. QED
  BY <1>1, RaceInit, RaceInvStep, PTL DEF Spec

(* remote::CommandRunner: there are never more Execute calls for a request than MaxAttempts and  *)
(* one for each time the server missed digests.                                                  *)
THEOREM CallsAreBounded == Spec => []AttemptsBounded
<1>1. RaceInv => AttemptsBounded
  BY DEF RaceInv, RaceOf, CallsLeft, AttemptsBounded
<1>2. QED
  BY <1>1, RaceInit, RaceInvStep, PTL DEF Spec
=============================================================================
